----------------------------- MODULE CapellaClient -----------------------------
(* The HTTP client of the Capella v4 API (handlers/capella/client.py): which     *)
(* failed attempts capella_request repeats, and how capella_list follows the     *)
(* cursor.  Waiting, hints and the wording of errors are left out.               *)
EXTENDS Integers, FiniteSets

CONSTANTS
  MaxAttempts,    \* CAPELLA_HTTP_RETRIES, at least 1
  PerPage         \* CAPELLA_PAGE_SIZE, 1..100

ASSUME ClientAssumption == MaxAttempts \in Nat \ {0} /\ PerPage \in Nat \ {0}

\* How an attempt can fail: "unprocessed" is 408, 425 or 429; "unknown" is 500, 502,
\* 503 or 504, a timeout or a dropped connection; "rejected" is any other status.
Faults == {"unprocessed", "unknown", "rejected"}

IdempotentMethods == {"GET", "PUT", "DELETE"}

\* Defect: every transient failure is repeated.
RetryableAlways(fault, method) == fault # "rejected"

Retryable(fault, method) ==
  \/ fault = "unprocessed"
  \/ fault = "unknown" /\ method \in IdempotentMethods

\* Defect: one attempt too many.
RepeatsOnce(fault, method, attempt) == Retryable(fault, method) /\ attempt <= MaxAttempts

Repeats(fault, method, attempt) == Retryable(fault, method) /\ attempt < MaxAttempts

\* May an attempt that failed this way have taken effect all the same?
MayHaveApplied(fault) == fault = "unknown"
--------------------------------------------------------------------------------
(* capella_list: [page, items, count, total] so far.  What an endpoint holds is a set  *)
(* of numbers, in their order.  The cursor of its answers may name the last page, the *)
(* total number of items, both or neither.                                            *)
CursorFields == {"last", "total"}
Unknown == -1
NoPages == [page |-> 1, items |-> {}, count |-> 0, total |-> Unknown]

Position(i, all) == Cardinality({j \in all : j <= i})
Chunk(all, page) ==
  {i \in all : (page - 1) * PerPage < Position(i, all) /\ Position(i, all) <= page * PerPage}
\* Is page, or one before it, the last?
AtLast(all, page) == Cardinality(all) <= page * PerPage

Read(list, all, cursor) ==
  [list EXCEPT !.items = @ \union Chunk(all, list.page),
               !.count = @ + Cardinality(Chunk(all, list.page)),
               !.total = IF @ = Unknown /\ "total" \in cursor THEN Cardinality(all) ELSE @]

\* What list and the page read next hold, cut off at the cap.
FirstOf(list, all, cap) ==
  list.items \union {i \in Chunk(all, list.page) :
                       list.count + Position(i, all) - (list.page - 1) * PerPage <= cap}

\* The page to ask for next; pages past the end are all alike.
NextPage(page, ids) == IF page > Cardinality(ids) THEN page ELSE page + 1

Full(list, cap) == list.count >= cap
Truncated(list, cap) == Full(list, cap) /\ (list.total = Unknown \/ list.total > cap)

\* Defect: without the last page in the cursor the first page is the list.
GoesOnByLast(list, all, cursor) ==
  "last" \in cursor /\ ~AtLast(all, list.page) /\ Chunk(all, list.page) # {}

\* Is there another page to ask for, after list was read from all?  Where the cursor
\* names neither, the first page is the list.
GoesOn(list, all, cursor) ==
  /\ Chunk(all, list.page) # {}
  /\ IF "last" \in cursor THEN ~AtLast(all, list.page)
                            ELSE list.total # Unknown /\ list.count < list.total
================================================================================
