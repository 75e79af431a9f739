----------------------------- MODULE ListPages -----------------------------
(***************************************************************************)
(* The two ways the server pages through a list that changes meanwhile.    *)
(* The futures lists (service/futures/pagination.go and the ...Page        *)
(* functions) go on after the position of the last row of the page before; *)
(* the intel lists (api/v1/intel/cursor.go over service/intel/queries.go)  *)
(* go on after a number of rows.  A client reads one list from its first   *)
(* page to the one without a cursor.                                       *)
(***************************************************************************)
EXTENDS Integers, FiniteSets, FiniteSetsExt

CONSTANTS
    PageRows,     \* rows: numbers, in the order in which they appear
    PageTicks,    \* bound: changes of the list
    Limits,       \* limits the client asks for
    MaxLimit,     \* 100
    MaxFetch,     \* 1000: rows a query of the intel lists fetches
    MaxGeneration \* bound: generations of a data space

ASSUME PagesAssumption ==
    /\ IsFiniteSet(PageRows) /\ PageRows \subseteq Int
    /\ Limits \subseteq Int /\ MaxLimit \in Nat /\ MaxFetch \in Nat

VARIABLES
    prow,   \* rows: created_at, updated_at, still in the list; 0 is not yet
    ptick,  \* the clock
    pgen,   \* generation of the namespace of the intel list
    reading \* the client's reading of a list

lpVars == <<prow, ptick, pgen, reading>>

NoRow == [gen |-> 0, created |-> 0, updated |-> 0, live |-> FALSE]
NotReading == [pc |-> "idle", list |-> "none", limit |-> 1, at |-> 0, gen |-> 0, seen |-> [r \in PageRows |-> 0], since |-> {}]

PagesInit ==
    /\ prow = [r \in PageRows |-> NoRow]
    /\ ptick = 0 /\ pgen = 1
    /\ reading = NotReading

----------------------------------------------------------------------------
(* The list: rows come, change and go.                                     *)
Live == {r \in PageRows : prow[r].live}
Tick == ptick < PageTicks /\ ptick' = ptick + 1

Appear(r) ==
    /\ prow[r].created = 0 /\ Tick
    /\ \A q \in PageRows : q < r => prow[q].created # 0
    /\ prow' = [prow EXCEPT ![r] = [gen |-> pgen, created |-> ptick + 1, updated |-> ptick + 1, live |-> TRUE]]
    /\ UNCHANGED <<pgen, reading>>

Update(r) ==
    /\ r \in Live /\ Tick
    /\ prow' = [prow EXCEPT ![r].updated = ptick + 1]
    /\ UNCHANGED <<pgen, reading>>

Gone(rs) ==
    /\ prow' = [r \in PageRows |-> IF r \in rs THEN [prow[r] EXCEPT !.live = FALSE] ELSE prow[r]]
    /\ reading' = [reading EXCEPT !.since = reading.since \ rs]

(* deleted, or no longer what the filter asks for, as a notification that  *)
(* has been read                                                           *)
Disappear(r) ==
    /\ r \in Live
    /\ Gone({r})
    /\ UNCHANGED <<ptick, pgen>>

(* A replay is reset: its rows go, the generation moves.                   *)
Reset ==
    /\ pgen < MaxGeneration
    /\ pgen' = pgen + 1
    /\ Gone(Live)
    /\ UNCHANGED ptick

----------------------------------------------------------------------------
Started(list, limit) ==
    [NotReading EXCEPT !.pc = "reading", !.list = list, !.limit = limit, !.since = Live, !.gen = pgen]

Shown(page) == [r \in PageRows |-> reading.seen[r] + (IF r \in page THEN 1 ELSE 0)]

(* The first n of rs, newest first by the column stamp *)
Newest(n, rs, stamp) ==
    {r \in rs : Cardinality({q \in rs : prow[q][stamp] > prow[r][stamp]}) < n}

(* ParsePageLimit refuses what is not in 1..100. *)
StartKeyset(limit) ==
    /\ reading.pc = "idle" /\ limit \in 1 .. MaxLimit
    /\ reading' = Started("keyset", limit)
    /\ UNCHANGED <<prow, ptick, pgen>>

AfterOrAt(r) == prow[r].created <= reading.at

(* One row more than the page is read, to know if there are more; the      *)
(* cursor is the position of the last row shown (BuildPage).               *)
After(r) == reading.at = 0 \/ prow[r].created < reading.at

KeysetPage ==
    LET rest == {r \in Live : After(r)}
        page == Newest(reading.limit, rest, "created")
    IN  /\ reading.pc = "reading" /\ reading.list = "keyset"
        /\ reading' = [reading EXCEPT !.seen = Shown(page),
              !.pc = IF Cardinality(rest) > reading.limit THEN "reading" ELSE "done",
              !.at = IF page = {} THEN 0 ELSE Min({prow[r].created : r \in page})]
        /\ UNCHANGED <<prow, ptick, pgen>>

----------------------------------------------------------------------------
(* pagingRequest brings the limit into 1..100 for the number of rows it    *)
(* fetches; slicePage and nextCursor use the number of the query.  A limit *)
(* below one is left out here: it shows no rows at all.                    *)
StartOffset(limit) ==
    /\ reading.pc = "idle" /\ limit >= 1
    /\ reading' = Started("offset", limit)
    /\ UNCHANGED <<prow, ptick, pgen>>

Fetched == Min({reading.at + Min({reading.limit, MaxLimit}) + 1, MaxFetch})

(* parseCursor: of the same namespace, kind, filters, within 15 minutes    *)
SameSpace == reading.at = 0 \/ reading.gen = pgen

OffsetPage ==
    LET window == Newest(Fetched, Live, "updated")
        page == Newest(reading.at + reading.limit, window, "updated")
                    \ Newest(reading.at, window, "updated")
        more == Cardinality(window) > reading.at + reading.limit
    IN  /\ reading.pc = "reading" /\ reading.list = "offset"
        /\ reading' = IF ~SameSpace \/ Fetched <= reading.at
                      THEN [reading EXCEPT !.pc = "expired"]
                      ELSE [reading EXCEPT !.seen = Shown(page), !.pc = IF more THEN "reading" ELSE "done",
                                         !.at = reading.at + reading.limit,
                                         !.gen = IF reading.at = 0 THEN pgen ELSE reading.gen]
        /\ UNCHANGED <<prow, ptick, pgen>>

PagesNext ==
    \/ \E r \in PageRows : Appear(r) \/ Update(r) \/ Disappear(r)
    \/ Reset
    \/ \E limit \in Limits : StartKeyset(limit) \/ StartOffset(limit)
    \/ KeysetPage \/ OffsetPage

PagesSpec == PagesInit /\ [][PagesNext]_lpVars

----------------------------------------------------------------------------
ShowsEachOnce ==
    /\ \A r \in PageRows : reading.seen[r] <= 1
    /\ reading.pc = "done" => \A r \in reading.since : reading.seen[r] = 1

(* Whatever comes, changes or goes while a client pages, a futures list    *)
(* shows every row that was there all the time once, and no row twice; an  *)
(* intel list never joins rows of two generations.                         *)
PagesAreOneList ==
    /\ reading.list = "keyset" => ShowsEachOnce
    /\ reading.list = "offset" => \A r \in PageRows : reading.seen[r] > 0 => prow[r].gen = reading.gen

(* The same of the intel lists (the design document asks for it; a count   *)
(* of rows is not a position, and the code does not keep it).              *)
OffsetShowsEachOnce == reading.list = "offset" => ShowsEachOnce
============================================================================
