------------------------------ MODULE TaskListing ------------------------------
(***************************************************************************)
(* GET /tasks, page by page: Store.ListFiltered orders the tasks a filter  *)
(* matches by the text of their creation times and cuts LIMIT and OFFSET   *)
(* out, while tasks are created, deleted and change their status between   *)
(* two pages.                                                              *)
(***************************************************************************)
EXTENDS Naturals, Sequences, FiniteSets, SequencesExt

CONSTANTS
  Ids,       \* ids of tasks, as the numbers their texts are ordered by
  LastTime   \* bound on the clock, in quarters of a second: two binary digits
             \* stand for the nine decimal ones of RFC3339Nano

ASSUME ListingAssumption == Ids \subseteq Nat /\ IsFiniteSet(Ids) /\ LastTime \in Nat

VARIABLES
  time,     \* the clock
  created,  \* created[t]: CreatedAt, read before the row is inserted, or NotYet
  matching, \* the tasks that exist and match the filter
  paging,   \* "idle", "pages" or "over": what the client does
  limit,    \* its limit and offset
  offset,
  listed,   \* the pages it got, one after the other
  page,     \* the last of them
  old,      \* history: the tasks that matched at the first page
  entered,  \* history: some task came to match since then,
  left      \* or ceased to

listingVars == <<time, created, matching, paging, limit, offset, listed, page, old, entered, left>>
reader == <<paging, limit, offset, listed, page, old>>

NotYet == LastTime + 1

ListingInit ==
  /\ time = 0 /\ created = [t \in Ids |-> NotYet] /\ matching = {}
  /\ paging = "idle" /\ limit = 0 /\ offset = 0 /\ listed = <<>> /\ page = <<>>
  /\ old = {} /\ entered = FALSE /\ left = FALSE

\* Nothing is looked at after the last page.
Tick ==
  /\ time < LastTime /\ paging # "over"
  /\ time' = time + 1
  /\ UNCHANGED <<created, matching, reader, entered, left>>

\* Create reads the clock; other requests may do so and insert before it does.
TakeTime(t) ==
  /\ created[t] = NotYet /\ paging # "over"
  /\ created' = [created EXCEPT ![t] = time]
  /\ UNCHANGED <<time, matching, reader, entered, left>>

\* The row is inserted, or its status comes to match.
Enter(t) ==
  /\ created[t] # NotYet /\ t \notin matching /\ paging # "over"
  /\ matching' = matching \cup {t}
  /\ entered' = TRUE
  /\ UNCHANGED <<time, created, reader, left>>

Leave(t) ==
  /\ t \in matching /\ paging # "over"
  /\ matching' = matching \ {t}
  /\ left' = TRUE
  /\ UNCHANGED <<time, created, reader, entered>>

-----------------------------------------------------------------------------
\* The characters after the seconds, as numbers in the order of their codes.
Point == 0
Digit(d) == 1 + d
Zulu == 3

\* formatTaskTime: trailing zeros of the fraction are dropped, and its point
\* when it is zero.
Text(n) ==
  LET seconds == n \div 4
      first == (n % 4) \div 2
  IN  CASE n % 4 = 0 -> <<seconds, Zulu>>
        [] n % 4 # 0 /\ n % 2 = 0 -> <<seconds, Point, Digit(first), Zulu>>
        [] OTHER -> <<seconds, Point, Digit(first), Digit(n % 2), Zulu>>

\* Texts are compared by character; none is the beginning of another one.
TextBelow(a, b) ==
  \E k \in DOMAIN a \cap DOMAIN b : a[k] < b[k] /\ \A j \in 1 .. k - 1 : a[j] = b[j]

\* Mutant of Before: no second column.
BeforeByTime(t, u) == TextBelow(Text(created[u]), Text(created[t]))

\* Mutant of Before: the id alone.
BeforeById(t, u) == u < t

\* ORDER BY created_at DESC, id DESC
Before(t, u) ==
  \/ TextBelow(Text(created[u]), Text(created[t]))
  \/ created[u] = created[t] /\ u < t

\* The results SQLite may give: sorted, ties in any order.
Orders ==
  {s \in SetToSeqs(matching) : \A k, l \in DOMAIN s : k < l => ~Before(s[l], s[k])}

\* LIMIT and OFFSET; no limit is all the rest.
Cut(s) ==
  LET end == IF limit > 0 /\ offset + limit < Len(s) THEN offset + limit ELSE Len(s)
  IN  SubSeq(s, offset + 1, end)

StartPaging ==
  /\ paging = "idle"
  /\ paging' = "pages"
  /\ limit' \in 0 .. Cardinality(Ids)
  /\ old' = matching /\ entered' = FALSE /\ left' = FALSE
  /\ UNCHANGED <<time, created, matching, offset, listed, page>>

\* One GET; a page that is not full is the last one.
GetPage ==
  /\ paging = "pages"
  /\ \E s \in Orders :
       /\ page' = Cut(s)
       /\ listed' = listed \o Cut(s)
       /\ offset' = offset + limit
       /\ paging' = IF limit = 0 \/ Len(Cut(s)) < limit THEN "over" ELSE "pages"
  /\ UNCHANGED <<time, created, matching, limit, old, entered, left>>

ListingNext ==
  \/ Tick \/ StartPaging \/ GetPage
  \/ \E t \in Ids : TakeTime(t) \/ Enter(t) \/ Leave(t)

ListingSpec == ListingInit /\ [][ListingNext]_listingVars

-----------------------------------------------------------------------------
\* A client that pages to the end misses no task that was there from the first
\* page on, whatever is created meanwhile, by requests that took their time
\* before others that were faster too; and it meets no task twice unless one
\* entered.  Tasks that leave the filter do make others slip through.
PagesComplete ==
  paging = "over" =>
    /\ ~left => old \subseteq ToSet(listed)
    /\ ~entered => IsInjective(listed)

\* Newest first, but only by the second: within one, the dropped zeros make
\* 5.0 the newest of all and 5.5 newer than 5.51.
SecondsDescend ==
  \A k, l \in DOMAIN page : k < l => created[page[l]] \div 4 <= created[page[k]] \div 4
=============================================================================
