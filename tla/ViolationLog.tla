---------------------------- MODULE ViolationLog ----------------------------
(***************************************************************************)
(* The table of violations of one guild and the page of the dashboard that *)
(* walks through it (get_violations in src/src/web.rs), newest first.      *)
(*                                                                         *)
(* A row's timestamp is the column's default, the second in which it is    *)
(* inserted: never earlier than those of the rows there are, and often     *)
(* the same.                                                               *)
(***************************************************************************)
EXTENDS Integers, FiniteSets

CONSTANTS
    Entries,      \* what rows say: records of user, severity, type, reason, action
    Filters,      \* sets of entries a page can be narrowed to
    PerPage,      \* per_page, after clamp(1, 100)
    MaxRows,      \* bound: rows
    MaxTime       \* bound: the clock

ASSUME LogAssumption ==
    /\ {PerPage, MaxRows} \subseteq Nat \ {0}
    /\ MaxTime \in Nat
    /\ Filters \subseteq SUBSET Entries

VARIABLES
    clock,  \* in seconds
    rows,   \* the table: records of id (in order of insertion), entry and at
    walk    \* the reader: its page, what it was told and shown

logVars == <<clock, rows, walk>>

Row == [id : Nat, entry : Entries, at : Nat]
NoWalk == [pc |-> "none"]

(* owed: the rows there were at the start; raced: a row came in between    *)
(* the count and the rows of a page (both for properties).                 *)
Walk ==
    [pc : {"count", "rows", "turn"}, filter : Filters, page : Nat \ {0}, total : Nat,
     seen : SUBSET Row, owed : SUBSET Row, raced : BOOLEAN]

LogTypeOK ==
    /\ clock \in Nat
    /\ rows \subseteq Row
    /\ walk = NoWalk \/ walk \in Walk

LogInit == clock = 0 /\ rows = {} /\ walk = NoWalk

(* The INSERT of WarningSystem::record_violation.                          *)
Record(entry) ==
    /\ Cardinality(rows) < MaxRows
    /\ rows' = rows \cup {[id |-> Cardinality(rows) + 1, entry |-> entry, at |-> clock]}
    /\ walk' = IF walk.pc = "rows" THEN [walk EXCEPT !.raced = TRUE] ELSE walk
    /\ UNCHANGED clock

(* ORDER BY timestamp DESC: the index on it keeps rows of one second in    *)
(* the order they came in.                                                 *)
Before(s, r) == s.at > r.at \/ (s.at = r.at /\ s.id < r.id)

Matching(filter) == {r \in rows : r.entry \in filter}

(* Mutant: the offset of a page is that of the next one.                   *)
FaultyPage(filter, page) ==
    LET before(r) == {s \in Matching(filter) : Before(s, r)}
    IN  {r \in Matching(filter) : Cardinality(before(r)) \div PerPage = page}

(* LIMIT per_page OFFSET (page - 1) * per_page.                            *)
Page(filter, page) ==
    LET before(r) == {s \in Matching(filter) : Before(s, r)}
    IN  {r \in Matching(filter) : Cardinality(before(r)) \div PerPage = page - 1}

OpenPage(filter) ==
    /\ walk = NoWalk
    /\ walk' = [pc |-> "count", filter |-> filter, page |-> 1, total |-> 0,
                seen |-> {}, owed |-> Matching(filter), raced |-> FALSE]
    /\ UNCHANGED <<clock, rows>>

(* The total is a statement of its own ...                                 *)
CountRows ==
    /\ walk.pc = "count"
    /\ walk' = [walk EXCEPT !.pc = "rows", !.total = Cardinality(Matching(walk.filter))]
    /\ UNCHANGED <<clock, rows>>

(* ... and the page's rows another.                                        *)
FetchRows ==
    /\ walk.pc = "rows"
    /\ walk' = [walk EXCEPT !.pc = "turn", !.seen = @ \cup Page(walk.filter, walk.page)]
    /\ UNCHANGED <<clock, rows>>

(* The front end offers a next page up to ceil(total / per_page).          *)
LastPage == walk.page * PerPage >= walk.total

NextPage ==
    /\ walk.pc = "turn" /\ ~LastPage
    /\ walk' = [walk EXCEPT !.pc = "count", !.page = @ + 1]
    /\ UNCHANGED <<clock, rows>>

ClosePage ==
    /\ walk.pc = "turn"
    /\ walk' = NoWalk
    /\ UNCHANGED <<clock, rows>>

Tick ==
    /\ clock < MaxTime
    /\ clock' = clock + 1
    /\ UNCHANGED <<rows, walk>>

LogNext ==
    \/ \E entry \in Entries : Record(entry)
    \/ \E filter \in Filters : OpenPage(filter)
    \/ CountRows \/ FetchRows \/ NextPage \/ ClosePage
    \/ Tick

(* Whoever turns the pages to the last has seen every row there was at the *)
(* start, though new rows shift the pages meanwhile: it may see a row      *)
(* twice.  A row is missed only if another comes in between the two        *)
(* statements of one page (get_violations).                                *)
PagesMissNothing ==
    walk.pc = "turn" /\ LastPage => walk.owed \subseteq walk.seen \/ walk.raced
=============================================================================
