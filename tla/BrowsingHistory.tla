----------------------------- MODULE BrowsingHistory -----------------------------
(***************************************************************************)
(* The browsing history of the browser app, which exists twice: in memory  *)
(* (browser_history.rs BrowsingHistory), where every tab and page reads    *)
(* it, and on disk (browser-persistence HistoryStore).  HistoryService     *)
(* changes the first at once and hands the second a blocking task per      *)
(* change; the tasks run on a pool of threads, in any order.  Each kind of *)
(* change is written twice, too: for a VecDeque and as SQL.  The app that  *)
(* starts again reads its memory from the disk.                            *)
(***************************************************************************)
EXTENDS Integers, FiniteSets, SequencesExt

CONSTANTS
    Locations,             \* URLs of pages
    Nil,                  \* Option::None
    MAX_HISTORY_ENTRIES,   \* browser-persistence lib.rs
    MaxTime,               \* bound: seconds
    MaxIds,                \* bound: ids given out by one start of the app
    MaxWrites              \* bound: writes outstanding

ASSUME HistoryAssumption ==
    /\ Nil \notin Locations
    /\ MAX_HISTORY_ENTRIES \in Nat \ {0}
    /\ {MaxTime, MaxIds, MaxWrites} \subseteq Nat

VARIABLES
    entries,    \* BrowsingHistory.entries, the latest visit first
    next_id,    \* the counter of next_history_entry_id
    rows,       \* history_entries on disk
    writes,     \* disk writes handed to the pool, in the order they were
    now,        \* SystemTime in seconds, which is all the disk keeps of it
    mishaps     \* history: see Mishaps

historyVars == <<entries, next_id, rows, writes, now, mishaps>>

(* An icon is told apart by the page that it is the icon of.               *)
Icons == Locations \cup {Nil}
Entry == [id : Nat, url : Locations, icon : Icons, visited_at : Nat]
Row == [id : Nat, url : Locations, icon : Icons, visited_at : Nat]

DiskWrite ==
    [op : {"visit"}, url : Locations, visited_at : Nat]
        \cup [op : {"favicon"}, url : Locations, icon : Locations]
        \cup [op : {"clear"}]

(* What has gone otherwise than the code hopes since the app started:      *)
(* rows that the start could not read, writes that were not made in order, *)
(* writes that failed, and visits in the same second, whose order the disk *)
(* cannot tell.                                                            *)
Mishaps == {"unread", "reordered", "lost", "tied"}

HistoryTypeOK ==
    /\ entries \in Seq(Entry)
    /\ next_id \in Nat
    /\ rows \subseteq Row
    /\ writes \in Seq(DiskWrite)
    /\ now \in Nat
    /\ mishaps \subseteq Mishaps

HistoryInit ==
    /\ entries = <<>>
    /\ next_id = 0
    /\ rows = {}
    /\ writes = <<>>
    /\ now = 0
    /\ mishaps = {}

-----------------------------------------------------------------------------
(* In memory.                                                              *)

AtMost(limit, s) == SubSeq(s, 1, IF Len(s) < limit THEN Len(s) ELSE limit)

(* record_visit_inner of browser_history.rs: a visit to the URL of the     *)
(* front entry updates it in place, keeping its id.                        *)
Folds(url) == entries # <<>> /\ entries[1].url = url

Recorded(entry) ==
    IF Folds(entry.url)
    THEN [entries EXCEPT ![1] = [entry EXCEPT !.id = entries[1].id]]
    ELSE AtMost(MAX_HISTORY_ENTRIES, <<entry>> \o entries)

(* The id that record_visit returns.                                       *)
VisitId(url) == IF Folds(url) THEN entries[1].id ELSE next_id

(* HistoryService::record_visit, at a time no earlier than the last.       *)
RecordVisit(url) ==
    /\ \E time \in {now, now + 1} :
          /\ now' = time
          /\ entries' = Recorded([id |-> next_id, url |-> url, icon |-> Nil, visited_at |-> time])
          /\ writes' = Append(writes, [op |-> "visit", url |-> url, visited_at |-> time])
          /\ mishaps' = IF time = now THEN mishaps \cup {"tied"} ELSE mishaps
    /\ next_id' = next_id + 1
    /\ UNCHANGED rows

(* HistoryService::set_favicon: the entry of that id, if it is still       *)
(* there, and on disk whichever rows of the URL have none.                 *)
SetFavicon(id, url, icon) ==
    /\ entries' = [i \in DOMAIN entries |->
                      IF entries[i].id = id THEN [entries[i] EXCEPT !.icon = icon] ELSE entries[i]]
    /\ writes' = Append(writes, [op |-> "favicon", url |-> url, icon |-> icon])
    /\ UNCHANGED <<next_id, rows, now, mishaps>>

(* HistoryService::clear, from the history page, which offers it when      *)
(* there are entries.                                                      *)
ClearHistory ==
    /\ entries # <<>>
    /\ entries' = <<>>
    /\ writes' = Append(writes, [op |-> "clear"])
    /\ UNCHANGED <<next_id, rows, now, mishaps>>

-----------------------------------------------------------------------------
(* On disk.  ORDER BY visited_at DESC leaves the order of ties open.       *)

(* Its head rows.  Mutant: without the DESC.                               *)
Earliest(R) == {r \in R : \A other \in R : other.visited_at >= r.visited_at}
Latest(R) == {r \in R : \A other \in R : other.visited_at <= r.visited_at}

(* The rows that `LIMIT limit` may keep of the rows R.                     *)
Kept(R, limit) ==
    {K \in SUBSET R :
        /\ Cardinality(K) = IF Cardinality(R) < limit THEN Cardinality(R) ELSE limit
        /\ \A kept \in K, gone \in R \ K : kept.visited_at >= gone.visited_at}

FreshRow(R) == CHOOSE id \in 0..Cardinality(R) : \A r \in R : r.id # id

(* The row that a visit updates: the head row, if it has the URL.          *)
Foldable(url) == {r \in Latest(rows) : r.url = url}
MayInsert(url) == \E r \in Latest(rows) : r.url # url

(* record_visit_tx: fold or insert, then prune.                            *)
WithVisit(w) ==
    LET visit(id) == [id |-> id, url |-> w.url, icon |-> Nil, visited_at |-> w.visited_at]
        updated == {(rows \ {r}) \cup {visit(r.id)} : r \in Foldable(w.url)}
        inserted == IF Foldable(w.url) = {} \/ MayInsert(w.url)
                    THEN {rows \cup {visit(FreshRow(rows))}} ELSE {}
    IN  UNION {Kept(R, MAX_HISTORY_ENTRIES) : R \in updated \cup inserted}

(* set_favicon_by_url_inner.                                               *)
WithFavicon(w) ==
    {IF r.url = w.url /\ r.icon = Nil THEN [r EXCEPT !.icon = w.icon] ELSE r : r \in rows}

(* A thread of the pool makes the i-th outstanding write.                  *)
MakeWrite(i) ==
    LET w == writes[i] IN
    /\ \/ w.op = "visit" /\ rows' \in WithVisit(w)
       \/ w.op = "favicon" /\ rows' = WithFavicon(w)
       \/ w.op = "clear" /\ rows' = {}
    /\ writes' = RemoveAt(writes, i)
    /\ mishaps' = IF i = 1 THEN mishaps ELSE mishaps \cup {"reordered"}
    /\ UNCHANGED <<entries, next_id, now>>

(* SQLite refuses it: the error is logged and the write is lost.           *)
WriteFails(i) ==
    /\ writes' = RemoveAt(writes, i)
    /\ mishaps' = mishaps \cup {"lost"}
    /\ UNCHANGED <<entries, next_id, rows, now>>

DiskStep == \E i \in DOMAIN writes : MakeWrite(i) \/ WriteFails(i)

LatestFirst(R) ==
    {s \in SetToSeqs(R) : \A i \in 1..Len(s) - 1 : s[i].visited_at >= s[i + 1].visited_at}

(* What load_recent may return when it can read every row.                 *)
Loadable == UNION {LatestFirst(K) : K \in Kept(rows, MAX_HISTORY_ENTRIES)}

(* The app ends, at whatever point, with the tasks of its pool; it starts  *)
(* again with from_entries(load_recent(MAX_HISTORY_ENTRIES)).  load_recent *)
(* leaves out the rows that it cannot read, all of them when the query     *)
(* itself fails, and says nothing of it; the disk keeps them.              *)
RestartHistory ==
    /\ \E kept \in Kept(rows, MAX_HISTORY_ENTRIES) : \E read \in SUBSET kept :
          /\ \E loaded \in LatestFirst(read) :
                /\ entries' = [i \in DOMAIN loaded |-> [loaded[i] EXCEPT !.id = i - 1]]
                /\ next_id' = Len(loaded)
          /\ mishaps' = (mishaps \cap {"tied"}) \cup (IF read = kept THEN {} ELSE {"unread"})
    /\ writes' = <<>>
    /\ UNCHANGED <<rows, now>>

-----------------------------------------------------------------------------
(* What the browser does: pages are committed, probes find the icon of a   *)
(* visited page, whose entry may be gone by then, and the user clears.     *)
HistoryChanges ==
    \/ \E url \in Locations : RecordVisit(url)
    \/ \E i \in DOMAIN entries : SetFavicon(entries[i].id, entries[i].url, entries[i].url)
    \/ \E url \in Locations : SetFavicon(Nil, url, url)
    \/ ClearHistory

HistoryStep ==
    /\ HistoryChanges \/ DiskStep \/ RestartHistory
    /\ now' <= MaxTime /\ next_id' <= MaxIds /\ Len(writes') <= MaxWrites

HistorySpec == HistoryInit /\ [][HistoryStep]_historyVars

-----------------------------------------------------------------------------
(* The next start of the app shows what this one does; an icon that the    *)
(* disk has and the memory has not is no difference, since the disk gives  *)
(* it to all visits of a URL at once.                                      *)
Aligned ==
    \E loaded \in Loadable :
        /\ Len(loaded) = Len(entries)
        /\ \A i \in DOMAIN loaded :
              /\ loaded[i].url = entries[i].url
              /\ loaded[i].visited_at = entries[i].visited_at
              /\ entries[i].icon # Nil => loaded[i].icon # Nil

(* Neither side outgrows its cap, whatever order the writes are made in.   *)
HistoryIsCapped ==
    /\ Len(entries) <= MAX_HISTORY_ENTRIES
    /\ Cardinality(rows) <= MAX_HISTORY_ENTRIES

(* And when the app could read the disk at its start, every write since    *)
(* was made, in order, and no two visits were in the same second, disk and *)
(* memory agree: the SQL folds, prunes and patches as the VecDeque does,   *)
(* across restarts (lib.rs record_visit_tx: "Keeps post-restart history    *)
(* aligned with the in-memory view").                                      *)
HistoryIsMirrored ==
    /\ HistoryIsCapped
    /\ writes = <<>> /\ mishaps = {} => Aligned
=============================================================================
