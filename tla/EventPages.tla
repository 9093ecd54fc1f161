------------------------------ MODULE EventPages ------------------------------
(***************************************************************************)
(* A client of GET /api/analytics/spread-events reads page after page      *)
(* (list_spread_events() of repositories/analytics.py) while the writer    *)
(* inserts events into the table.  Rows are never changed.  The client is  *)
(* external: it stops at a page that is not full.                          *)
(* Operators marked "Fault" are mutated forms of the one that follows      *)
(* them; they show which property notices the bug and occur nowhere else.  *)
(***************************************************************************)
EXTENDS Integers, Sequences, FiniteSets, SequencesExt, FiniteSetsExt

CONSTANTS
  Starts, Durations,  (* what start_timestamp and its duration may be       *)
  Filters,            (* the filters a client may give                     *)
  DefaultMinDuration, (* default_min_event_duration_ms                     *)
  DefaultPageSize, MaxPageSize,   (* of AnalyticsConfig                    *)
  RequestedSizes,     (* the page sizes a client may ask for; 0: none      *)
  MaxEvents           (* bound: rows of the table                          *)

ASSUME PagesAssumption ==
  /\ DefaultPageSize \in Nat \ {0} /\ MaxPageSize \in Nat \ {0}
  /\ RequestedSizes \subseteq Nat /\ MaxEvents \in Nat
ASSUME EventsAssumption == Starts \subseteq Nat /\ Durations \subseteq Nat

NoDuration == -1   (* min_duration_ms is not given                         *)

VARIABLES
  table,      (* the rows of spread_events                                 *)
  filter,     (* the client's parameters, the same for every page          *)
  requested,  (* its page_size, 0 when it gives none                       *)
  pages,      (* the pages it has received                                 *)
  known       (* history: the rows at its first request                    *)

queryVars == <<table, filter, requested, pages, known>>

NoTable ==
  /\ table = {} /\ pages = <<>> /\ known = {}
  /\ filter \in Filters /\ requested \in RequestedSizes

-----------------------------------------------------------------------------
(* The writer: an event is inserted when it closes, so a long one comes    *)
(* after a short one that began later.                                     *)
InsertEvent ==
  /\ Cardinality(table) < MaxEvents
  /\ \E start \in Starts, duration \in Durations :
       table' = table \cup {[id |-> Cardinality(table) + 1, start |-> start, duration |-> duration]}
  /\ UNCHANGED <<filter, requested, pages, known>>

(* _event_filter_params(): a duration of zero is one that was asked for.  *)
MinDuration ==
  IF filter.minDuration = NoDuration THEN DefaultMinDuration ELSE filter.minDuration

(* _event_filters(); the other columns select alike. *)
EventFilters(rows) == {row \in rows : filter.from <= row.start /\ row.start < filter.to}

LongEnough(rows) == {row \in rows : row.duration >= MinDuration}

Selected(rows) == LongEnough(EventFilters(rows))

(* The orders the database may return rows in: newest first, and rows of   *)
(* the same start in any order, another one for each statement.            *)
NewestFirst(rows) ==
  {order \in SetToSeqs(rows) :
     \A i, j \in DOMAIN order : i < j => order[i].start >= order[j].start}

(* The route's page size: what is asked for, or the default, and no more   *)
(* than the maximum.                                                       *)
PageSize ==
  Min({IF requested = 0 THEN DefaultPageSize ELSE requested, MaxPageSize})

(* Fault: pages are counted from zero. *)
OffsetFromZero(page, size) == page * size

Offset(page, size) == (page - 1) * size

PageOf(order, page, size) ==
  SubSeq(order, Offset(page, size) + 1, Min({Offset(page, size) + size, Len(order)}))

LastPage == pages # <<>> /\ Len(pages[Len(pages)]) < PageSize

(* The statement that counts the rows is apart, and of no effect here. *)
ListSpreadEvents ==
  /\ ~LastPage
  /\ \E order \in NewestFirst(Selected(table)) :
       pages' = Append(pages, PageOf(order, Len(pages) + 1, PageSize))
  /\ known' = IF pages = <<>> THEN Selected(table) ELSE known
  /\ UNCHANGED <<table, filter, requested>>

QueryNext == InsertEvent \/ ListSpreadEvents

-----------------------------------------------------------------------------
Listed == UNION {ToSet(pages[i]) : i \in DOMAIN pages}

(* A client that has read all pages has seen every event that was there at *)
(* its first request, however many were inserted meanwhile.  Only an event *)
(* that shares its start with one that was shown may be missing: the query *)
(* does not order the two, and each page may have another one first.       *)
PagesMissOnlyTies ==
  LastPage =>
    \A row \in known \ Listed : \E other \in Listed : other # row /\ other.start = row.start
=============================================================================
