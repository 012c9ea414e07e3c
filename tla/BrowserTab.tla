------------------------------- MODULE BrowserTab -------------------------------
(***************************************************************************)
(* A tab of the browser app: its session history (history.rs), the         *)
(* resource that loads the current entry and the effects that commit what  *)
(* was loaded (tab.rs TabWebView), the loader with the AbortController of  *)
(* its latest load (document_loader.rs), the favicon probes that outlive   *)
(* the load, and the browsing history that every commit is recorded in.    *)
(*                                                                         *)
(* The app runs in Dioxus, which is not in this repository: handlers run   *)
(* between its turns; a turn first polls tasks, in the order they were     *)
(* woken (the load; the task that restarts it when what it read changed;   *)
(* probes), and then runs effects, in the order of their declaration.      *)
(***************************************************************************)
EXTENDS BrowsingHistory

CONSTANTS
    NewTabPage, HistoryPage, \* the about pages, which are not loaded
    MaxLoads,   \* bound: loads ever started
    MaxSession, \* bound: entries of the session history
    MaxProbes   \* bound: favicon probes at a time

AboutPages == {NewTabPage, HistoryPage}

ASSUME TabAssumption ==
    /\ AboutPages \subseteq Locations
    /\ {MaxLoads, MaxSession, MaxProbes} \subseteq Nat

VARIABLES
    is_open,         \* the tab exists
    urls, current,   \* History, counted from 1
    changed,         \* what the resource read has changed since it ran
    load,            \* its future: the load of a URL, with its signal
    loaded,          \* its value, until an effect takes it
    about,           \* the memo: the about page at hand
    about_changed,   \* its effect is due
    document,        \* Tab.document, with the URL and signal of its load
    title,           \* Tab.title: that of the document of a URL, or an about page's
    favicon,         \* Tab.favicon_url
    current_abort,   \* DocumentLoader.current_abort, the number of a signal
    next_abort,      \* AbortControllers created so far
    abandoned,       \* signals aborted
    probes           \* favicon probes under way

tabVars == <<historyVars, is_open, urls, current, changed, load, loaded, about, about_changed,
             document, title, favicon, current_abort, next_abort, abandoned, probes>>

Load == [url : Locations, signal : Nat]
Loaded == [url : Locations, signal : Nat, is_error : BOOLEAN]
Probe == [entry : Nat, url : Locations, icon : Locations]

ASSUME LoadsAssumption == Nil \notin Nat \cup Load \cup Loaded

TabVarsTyped ==
    /\ urls \in Seq(Locations)
    /\ current \in 1..Len(urls)
    /\ is_open \in BOOLEAN /\ changed \in BOOLEAN /\ about_changed \in BOOLEAN
    /\ about \in AboutPages \cup {Nil}
    /\ load \in Load \cup {Nil} /\ document \in Load \cup {Nil}
    /\ loaded \in Loaded \cup {Nil}
    /\ title \in Locations \cup {Nil} /\ favicon \in Locations \cup {Nil}
    /\ next_abort \in Nat
    /\ current_abort \in 0..next_abort - 1 \cup {Nil}
    /\ abandoned \subseteq 0..next_abort - 1
    /\ probes \subseteq Probe

TabTypeOK == HistoryTypeOK /\ TabVarsTyped

(* open_tab with the home page, in a process with no signals yet.          *)
NewTab ==
    /\ is_open' = TRUE
    /\ urls' = <<NewTabPage>> /\ current' = 1
    /\ changed' = TRUE /\ load' = Nil /\ loaded' = Nil
    /\ about' = Nil /\ about_changed' = FALSE
    /\ document' = Nil /\ title' = Nil /\ favicon' = Nil
    /\ current_abort' = Nil /\ abandoned' = 0..next_abort - 1
    /\ probes' = {}
    /\ UNCHANGED next_abort

TabInit ==
    /\ HistoryInit
    /\ is_open = TRUE
    /\ urls = <<NewTabPage>> /\ current = 1
    /\ changed = TRUE /\ load = Nil /\ loaded = Nil
    /\ about = Nil /\ about_changed = FALSE
    /\ document = Nil /\ title = Nil /\ favicon = Nil
    /\ current_abort = Nil /\ next_abort = 0 /\ abandoned = {}
    /\ probes = {}

CurrentUrl == urls[current]

-----------------------------------------------------------------------------
(* Handlers.                                                               *)

Handler ==
    /\ is_open
    /\ loaded = Nil
    /\ ~about_changed
    /\ UNCHANGED <<is_open, load, loaded, about, about_changed, document, title, favicon,
                   next_abort, probes>>

SessionChanges ==
    /\ changed' = TRUE
    /\ UNCHANGED <<current_abort, abandoned, historyVars>>

MayStart(url) == url \in AboutPages \/ next_abort < MaxLoads

(* History::navigate, from the URL bar, an about page or a clicked link.   *)
Navigate(url) ==
    /\ Handler
    /\ MayStart(url)
    /\ current < MaxSession
    /\ urls' = Append(SubSeq(urls, 1, current), url)
    /\ current' = current + 1
    /\ SessionChanges

GoBack ==
    /\ Handler
    /\ current > 1
    /\ MayStart(urls[current - 1])
    /\ current' = current - 1
    /\ SessionChanges
    /\ UNCHANGED urls

GoForward ==
    /\ Handler
    /\ current < Len(urls)
    /\ MayStart(urls[current + 1])
    /\ current' = current + 1
    /\ SessionChanges
    /\ UNCHANGED urls

(* abort_current.  Mutant: the controller is dropped and not aborted.      *)
AbortForgotten == abandoned
Aborted == abandoned \cup ({current_abort} \ {Nil})

(* DocumentLoader::reload: what the page is still fetching stops at once.  *)
Reload ==
    /\ Handler
    /\ MayStart(CurrentUrl)
    /\ abandoned' = Aborted
    /\ current_abort' = Nil
    /\ changed' = TRUE
    /\ UNCHANGED <<urls, current, historyVars>>

(* The button of the history page.                                         *)
ClickClear ==
    /\ Handler
    /\ {about, CurrentUrl} = {HistoryPage}
    /\ ClearHistory
    /\ UNCHANGED <<urls, current, changed, current_abort, abandoned>>

(* close_tab: the tab's tasks end and its loader is dropped.               *)
CloseTab ==
    /\ is_open /\ loaded = Nil /\ ~about_changed
    /\ is_open' = FALSE
    /\ changed' = FALSE /\ load' = Nil /\ document' = Nil /\ probes' = {}
    /\ abandoned' = Aborted
    /\ current_abort' = Nil
    /\ UNCHANGED <<historyVars, urls, current, loaded, about, about_changed, title, favicon, next_abort>>

-----------------------------------------------------------------------------
(* Tasks.                                                                  *)

(* The resource runs again: its old future is dropped; a page is loaded    *)
(* under a controller of its own, which aborts the one before.  The memo   *)
(* `about` it reads is computed on the way.                                *)
RestartLoad ==
    /\ changed
    /\ changed' = FALSE
    /\ about' = IF CurrentUrl \in AboutPages THEN CurrentUrl ELSE Nil
    /\ about_changed' = (about' \notin {about, Nil})
    /\ IF CurrentUrl \in AboutPages
       THEN /\ load' = Nil
            /\ UNCHANGED <<current_abort, next_abort, abandoned>>
       ELSE /\ load' = [url |-> CurrentUrl, signal |-> next_abort]
            /\ abandoned' = Aborted
            /\ current_abort' = next_abort
            /\ next_abort' = next_abort + 1
    /\ UNCHANGED <<historyVars, is_open, urls, current, loaded, document, title, favicon, probes>>

(* load_document returns: a document, or an error page for an empty answer *)
(* or a failure.  An abort does not end it: fetch_async ignores the signal. *)
LoadDocument(is_error) ==
    /\ load # Nil
    /\ loaded' = [url |-> load.url, signal |-> load.signal, is_error |-> is_error]
    /\ load' = Nil
    /\ UNCHANGED <<historyVars, is_open, urls, current, changed, about, about_changed, document,
                   title, favicon, current_abort, next_abort, abandoned, probes>>

(* The probe of a page's icon ends, perhaps after other pages came.        *)
ProbeFinds(p) ==
    /\ favicon' = IF CurrentUrl = p.url THEN p.icon ELSE favicon
    /\ SetFavicon(p.entry, p.url, p.icon)

ProbeEnds(p) ==
    /\ ProbeFinds(p) \/ UNCHANGED <<historyVars, favicon>>
    /\ probes' = probes \ {p}
    /\ UNCHANGED <<is_open, urls, current, changed, load, loaded, about, about_changed, document,
                   title, current_abort, next_abort, abandoned>>

-----------------------------------------------------------------------------
(* Effects.                                                                *)

Effect ==
    /\ ~changed
    /\ UNCHANGED <<is_open, urls, current, changed, load, about, current_abort, next_abort,
                   abandoned>>

(* The visit is recorded under the URL that is current by now.             *)
Visit ==
    /\ RecordVisit(CurrentUrl)
    /\ LET probe == [entry |-> VisitId(CurrentUrl), url |-> CurrentUrl, icon |-> loaded.url]
       IN  probes' \in {probes, probes \cup {probe}}
    /\ Cardinality(probes') <= MaxProbes

(* commit_loaded_document: an error page is shown and not recorded; a page *)
(* may have no icon to look for.                                           *)
CommitLoadedDocument ==
    /\ Effect
    /\ loaded # Nil
    /\ loaded' = Nil
    /\ IF loaded.is_error THEN UNCHANGED <<historyVars, probes>> ELSE Visit
    /\ document' = [url |-> loaded.url, signal |-> loaded.signal]
    /\ title' = loaded.url
    /\ favicon' = Nil
    /\ UNCHANGED about_changed

(* commit_about_chrome.                                                    *)
CommitAboutChrome ==
    /\ Effect
    /\ loaded = Nil
    /\ about_changed
    /\ about_changed' = FALSE
    /\ title' = about
    /\ favicon' = Nil
    /\ UNCHANGED <<historyVars, loaded, document, probes>>

-----------------------------------------------------------------------------
RestartApp == RestartHistory /\ NewTab

UserActs ==
    \/ \E url \in Locations : Navigate(url)
    \/ GoBack \/ GoForward \/ Reload \/ ClickClear \/ CloseTab
    \/ RestartApp

TabStep ==
    \/ UserActs
    \/ RestartLoad
    \/ \E is_error \in BOOLEAN : LoadDocument(is_error)
    \/ \E p \in probes : ProbeEnds(p)
    \/ CommitLoadedDocument \/ CommitAboutChrome

TabSpec == TabInit /\ [][TabStep]_tabVars

(* The network answers or fails; the main thread runs tasks and effects.   *)
PageAnswers == \E is_error \in BOOLEAN : LoadDocument(is_error)
TabTurn == RestartLoad \/ CommitLoadedDocument \/ CommitAboutChrome

-----------------------------------------------------------------------------
Settled == is_open /\ ~changed /\ load = Nil /\ loaded = Nil /\ ~about_changed

(* Only the latest load of a tab, and the document that came of it, may    *)
(* still fetch; and once nothing is under way, the tab shows the entry it  *)
(* is at, title and document, and the document on screen may fetch: late   *)
(* answers, reloads in the middle of a load, steps back and forth and      *)
(* about pages, whose chrome no loader sets, end in nothing else.          *)
TabIsConsistent ==
    /\ 0..next_abort - 1 \subseteq abandoned \cup {current_abort}
    /\ Settled => /\ title = CurrentUrl
                  /\ CurrentUrl \notin AboutPages =>
                        document = [url |-> CurrentUrl, signal |-> current_abort]

(* Once the user leaves the tab alone, what is under way ends and is        *)
(* committed: nothing that tasks and effects write starts them again.      *)
TabComesToRest == <>[][~UserActs]_tabVars => <>[](Settled \/ ~is_open)
=============================================================================
