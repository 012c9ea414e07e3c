------------------------------ MODULE MCNavigation ------------------------------
(* Documents that are navigated.  Scenarios, one of which a behaviour      *)
(* keeps to: an iframe (one suffices: the loads of two never touch the     *)
(* same state); a browser tab; the browsing history under any tabs.        *)
EXTENDS IframeLoading, BrowserTab

CONSTANTS a, Scenarios

VARIABLE scenario
vars == <<scenario, framesVars, tabVars>>
tabOnlyVars == <<is_open, urls, current, changed, load, loaded, about, about_changed, document,
                 title, favicon, current_abort, next_abort, abandoned, probes>>

MCNodes == {1}
MCUrls == {a}
MCFinalUrl == [u \in MCUrls |-> u]
MCLocations == {a, NewTabPage, HistoryPage}

Init == scenario \in Scenarios /\ FramesInit /\ TabInit

TypeOK == FramesTypeOK /\ TabTypeOK

(* The tab leaves the disk and the clock alone.  The history goes through  *)
(* at most one mishap between two starts of the app, and two URLs of pages do.      *)
Next ==
    /\ UNCHANGED scenario
    /\ \/ scenario = "frames" /\ FramesNext /\ UNCHANGED tabVars
       \/ scenario = "tab" /\ TabStep /\ now' = now /\ UNCHANGED framesVars
       \/ /\ scenario = "history" /\ HistoryStep /\ UNCHANGED <<framesVars, tabOnlyVars>>
          /\ Cardinality(mishaps') <= 1
          /\ \A i \in DOMAIN writes' : writes'[i] = [op |-> "clear"] \/ writes'[i].url # HistoryPage

Spec == Init /\ [][Next]_vars

(* Providers and servers answer, the shell delivers redraws, and what has  *)
(* begun on the main thread goes on: resolve, a tab's tasks and effects.   *)
FairSpec ==
    /\ Spec
    /\ WF_framesVars(scenario = "frames" /\ Provider /\ UNCHANGED frameVars)
    /\ WF_framesVars(scenario = "frames" /\ StartResolve /\ redraw)
    /\ WF_framesVars(scenario = "frames" /\ (HandleMessage \/ EndResolve))
    /\ WF_tabVars(scenario = "tab" /\ PageAnswers)
    /\ WF_tabVars(scenario = "tab" /\ TabTurn)

(* Every navigation is carried out: of a frame, of a tab.                  *)
NavigationsEnd == NavigationsAreHandled /\ (scenario = "tab" => TabComesToRest)
=============================================================================
