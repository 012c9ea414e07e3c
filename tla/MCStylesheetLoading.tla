--------------------------- MODULE MCStylesheetLoading ---------------------------
(* One URL: a link's sheets differ by the request that brought them, not   *)
(* by URL.                                                                 *)
EXTENDS StylesheetLoading

CONSTANT a

MCUrls == {a}
MCFinalUrl == [u \in MCUrls |-> u]
OneLink == {1}
TwoLinks == {1, 2}
=============================================================================
