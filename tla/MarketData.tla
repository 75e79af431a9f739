----------------------------- MODULE MarketData -----------------------------
(* Price series of one instrument: the calendar, the provider's daily bars    *)
(* with its fall-backs, the stored snapshot and its bars (written one after   *)
(* the other, outside a transaction), the series and quote answers.  A series *)
(* is a set of bars, ordered by their day t.                                  *)
EXTENDS Integers, Sequences, FiniteSets, FiniteSetsExt

CONSTANTS Loaders,      \* calls of loadBars that may be under way together
          MaxDays,      \* bound: days of the calendar
          Holidays,     \* days without a session
          MaxSnaps,     \* bound: stored snapshots
          MdSeries,     \* series asked for: pairs of period and adjustment
          EnoughBars,   \* bars below which the second provider is not enough
          PageLimit,    \* bars of a page
          StaleGap      \* days after which a price is shown as an old close

ASSUME DataAssumption == MaxDays \in Nat \ {0} /\ PageLimit \in Nat

VARIABLES mday, mclosed,  \* the wall clock: the day, its session is complete
          msnaps,         \* finance_market_snapshots with their bar rows
          mload,          \* calls in loadBars
          mans,           \* the answer given by the last step
          mread           \* for each snapshot, the numbers of rows calls got
mdVars == <<mday, mclosed, msnaps, mload, mans, mread>>

NoBars == {}
Bar(d, f, fin, by, adj) == [t |-> d, from |-> f, final |-> fin, by |-> by, adj |-> adj]
LastBar(bars) == CHOOSE b \in bars : \A c \in bars : c.t <= b.t
NoSeriesAnswer == [by |-> "nobody"]
Waiting == [at |-> "idle"]

Trading(d) == d \in 1..MaxDays \ Holidays
PrevTradingDay(d) == Max({0} \cup {e \in 1..(d - 1) : Trading(e)})
LastCompleteSession ==
    IF mclosed /\ Trading(mday) THEN mday ELSE PrevTradingDay(mday)

DataInit ==
    /\ mday = 1 /\ mclosed = FALSE
    /\ msnaps = <<>> /\ mread = <<>>
    /\ mload = [l \in Loaders |-> Waiting]
    /\ mans = NoSeriesAnswer

----------------------------------------------------------------------------
(* What a provider may answer: nothing, all sessions up to today or up to the *)
(* one before, or the newest of them only.                                    *)
Sessions == {d \in 1..mday : Trading(d)}
Feeds == {NoBars, Sessions, Sessions \ {mday}, Sessions \cap {mday}}
DailyOf(days, adj) ==
    {Bar(d, d, d <= LastCompleteSession, "feed", adj) : d \in days}

klineEnough(days) == Cardinality(days) >= EnoughBars
barsFromGtimg(days, adj) == DailyOf(days, adj)
barsFromSina(days) == DailyOf(days, "raw")    \* knows no adjustment
AdapterBars(first, second, third, adj) ==
    IF first # NoBars THEN DailyOf(first, adj)
    ELSE IF klineEnough(second) THEN barsFromGtimg(second, adj)
    ELSE IF third # NoBars THEN barsFromSina(third)
    ELSE barsFromGtimg(second, adj)

Week(d) == (d + 1) \div 2       \* a week has two days here
aggregate(bars) ==
    {LET week == {c \in bars : Week(c.t) = w}
         first == CHOOSE b \in week : \A c \in week : b.t <= c.t
     IN Bar(LastBar(week).t, first.t, LastBar(week).final, "feed", first.adj)
     : w \in {Week(b.t) : b \in bars}}
SeriesOf(bars, key) == IF key[1] = "1d" THEN bars ELSE aggregate(bars)

newestBar(bars) == Max({0} \cup {b.t : b \in bars})     \* mutant
finalCompleteDate(bars) == Max({0} \cup {b.t : b \in {c \in bars : c.final}})

Stored(s) == {b \in s.bars : Cardinality({c \in s.bars : c.t <= b.t}) <= s.rows}
SnapsOf(key) == {i \in DOMAIN msnaps : msnaps[i].key = key}
snapshotFresh(s) == s.latest # 0 /\ s.latest >= LastCompleteSession

----------------------------------------------------------------------------
(* The delayed quote laid over the stored series, for display only.           *)
intrabarDay(q) == IF Trading(q) /\ q <= mday THEN q ELSE 0
intrabarFromQuote(d) == Bar(d, d, FALSE, "quote", "raw")
applyIntrabar(bars, q) ==
    LET d == intrabarDay(q)
        last == LastBar(bars)
    IN IF d = 0 THEN bars
       ELSE IF bars = NoBars THEN {intrabarFromQuote(d)}
       ELSE IF d < last.t THEN bars
       ELSE IF d > last.t THEN bars \cup {intrabarFromQuote(d)}
       ELSE IF last.final THEN bars
       ELSE (bars \ {last}) \cup {[last EXCEPT !.by = "quote"]}

Newest(bars, n) == {b \in bars : Cardinality({c \in bars : c.t >= b.t}) <= n}
NoCursor == MaxDays + 1
(* GetOHLCV after loadBars: a page up to the cursor; without one, with today. *)
SeriesAnswer(key, i, rows, latest, q, cut) ==
    LET upTo == {b \in rows : b.t < cut}
        shown == IF cut = NoCursor THEN applyIntrabar(upTo, q) ELSE upTo
    IN [by |-> "series", key |-> key, snap |-> i, rows |-> rows, cut |-> cut,
        bars |-> Newest(shown, PageLimit),
        more |-> Cardinality(shown) > PageLimit,
        latest |-> latest,
        fresh |-> IF latest # 0 /\ latest >= LastCompleteSession
                  THEN "daily_complete" ELSE "unverified"]
IndicatorBars(a) == {b \in a.bars : b.final}

NoQuote == [by |-> "quote", day |-> 0, final |-> FALSE, basis |-> "none"]
closeQuote(b) == [by |-> "quote", day |-> b.t, final |-> b.final,
                  basis |-> "daily_close"]
cachedClose ==
    LET mine == SnapsOf(<<"1d", "raw">>)
        bars == IF mine = {} THEN NoBars ELSE Stored(msnaps[Max(mine)])
    IN IF bars = NoBars THEN NoQuote ELSE closeQuote(LastBar(bars))
markStale(q) ==
    IF /\ cachedClose.day # 0
       /\ LastCompleteSession - cachedClose.day >= StaleGap
    THEN [q EXCEPT !.basis = "daily_close", !.day = cachedClose.day]
    ELSE q

(* What the caller of loadBars makes of the series it got.                    *)
AnswerOf(call, i, rows, latest) ==
    IF call.for = "series"
    THEN {SeriesAnswer(call.key, i, rows, latest, q, cut) :
              q \in 0..(mday + 1), cut \in 2..NoCursor}
    ELSE IF rows = NoBars THEN {NoQuote}
    ELSE {closeQuote(LastBar(rows))}
Serve(l, i, rows) ==
    /\ mans' \in AnswerOf(mload[l], i, rows, msnaps[i].latest)
    /\ mread' = [mread EXCEPT ![i] = @ \cup {Cardinality(rows)}]
    /\ mload' = [mload EXCEPT ![l] = Waiting]

----------------------------------------------------------------------------
(* loadBars: the newest snapshot while it is fresh, else fetch and store.     *)
(* Calls for a series share one flight per key; calls for a quote do not.     *)
Look(l, key, for) ==
    LET mine == SnapsOf(key)
        hit == mine # {} /\ snapshotFresh(msnaps[Max(mine)])
    IN /\ mload[l].at = "idle"
       /\ for = "series" =>
              \A k \in Loaders : mload[k].at # "idle" =>
                  mload[k].for # "series" \/ mload[k].key # key
       /\ mload' = [mload EXCEPT ![l] =
              [at |-> IF hit THEN "read" ELSE "fetch", key |-> key, for |-> for,
               snap |-> IF hit THEN Max(mine) ELSE 0, bars |-> NoBars]]
       /\ mans' = NoSeriesAnswer /\ UNCHANGED <<mday, mclosed, msnaps, mread>>
GetOHLCV(l, key) == Look(l, key, "series")

(* A live quote answers by itself; else the last bar of the daily series.     *)
GetQuote(l, q) ==
    \/ /\ mload[l].at = "idle" /\ intrabarDay(q) # 0
       /\ mans' = [by |-> "quote", day |-> q, final |-> FALSE, basis |-> "last"]
       /\ UNCHANGED <<mday, mclosed, msnaps, mload, mread>>
    \/ Look(l, <<"1d", "raw">>, "quote")

(* The list view: a live quote, else the stored close, else the series; what  *)
(* is shown is marked when the stored series ends long ago.                   *)
attachQuotes(l, q) ==
    \/ /\ mload[l].at = "idle"
       /\ mans' = IF intrabarDay(q) # 0
                  THEN markStale([by |-> "quote", day |-> q, final |-> FALSE,
                                  basis |-> "last"])
                  ELSE markStale(cachedClose)
       /\ UNCHANGED <<mday, mclosed, msnaps, mload, mread>>
    \/ cachedClose = NoQuote /\ Look(l, <<"1d", "raw">>, "quote")

ReadRows(l) ==
    /\ mload[l].at = "read"
    /\ Serve(l, mload[l].snap, Stored(msnaps[mload[l].snap]))
    /\ UNCHANGED <<mday, mclosed, msnaps>>

Fetch(l) ==
    /\ mload[l].at = "fetch"
    /\ \E first, second, third \in Feeds :
           LET call == mload[l]
               got == AdapterBars(first, second, third, call.key[2])
           IN mload' = [mload EXCEPT ![l] =
                  IF got = NoBars THEN Waiting
                  ELSE [call EXCEPT !.at = "store", !.bars = SeriesOf(got, call.key)]]
    /\ mans' = NoSeriesAnswer /\ UNCHANGED <<mday, mclosed, msnaps, mread>>

(* The snapshot row is visible before its bars.                               *)
StoreSnapshot(l) ==
    /\ mload[l].at = "store" /\ Len(msnaps) < MaxSnaps
    /\ msnaps' = Append(msnaps, [key |-> mload[l].key, bars |-> mload[l].bars,
                                 latest |-> finalCompleteDate(mload[l].bars),
                                 rows |-> 0])
    /\ mread' = Append(mread, {})
    /\ mload' = [mload EXCEPT ![l].at = "rows", ![l].snap = Len(msnaps) + 1]
    /\ mans' = NoSeriesAnswer /\ UNCHANGED <<mday, mclosed>>

(* One batch of bar rows; after the last one the call answers what it fetched.*)
StoreRows(l) ==
    LET call == mload[l]
        n == msnaps[call.snap].rows + 1
    IN /\ call.at = "rows"
       /\ msnaps' = [msnaps EXCEPT ![call.snap].rows = n]
       /\ IF n = Cardinality(call.bars)
          THEN Serve(l, call.snap, call.bars)
          ELSE mans' = NoSeriesAnswer /\ UNCHANGED <<mload, mread>>
       /\ UNCHANGED <<mday, mclosed>>

LoadersLost ==
    /\ \E l \in Loaders : mload[l].at # "idle"
    /\ mload' = [l \in Loaders |-> Waiting]
    /\ mans' = NoSeriesAnswer /\ UNCHANGED <<mday, mclosed, msnaps, mread>>

(* The session may end during a call; a call does not last into the next day. *)
SessionEnds ==
    /\ ~mclosed /\ mclosed' = TRUE
    /\ mans' = NoSeriesAnswer /\ UNCHANGED <<mday, msnaps, mload, mread>>
NextDay ==
    /\ mclosed /\ mday < MaxDays /\ \A l \in Loaders : mload[l].at = "idle"
    /\ mday' = mday + 1 /\ mclosed' = FALSE
    /\ mans' = NoSeriesAnswer /\ UNCHANGED <<msnaps, mload, mread>>

DataNext ==
    \/ \E l \in Loaders :
           \/ \E key \in MdSeries : GetOHLCV(l, key)
           \/ \E q \in 0..(mday + 1) : GetQuote(l, q) \/ attachQuotes(l, q)
           \/ ReadRows(l) \/ Fetch(l) \/ StoreSnapshot(l) \/ StoreRows(l)
    \/ LoadersLost \/ SessionEnds \/ NextDay

DataSpec == DataInit /\ [][DataNext]_mdVars

----------------------------------------------------------------------------
(* A snapshot that is served without asking the provider again holds the      *)
(* final bar of the last complete session: a series stored during a session   *)
(* is not taken for that day's result after it.                               *)
FreshIsComplete ==
    \A i \in DOMAIN msnaps :
        LET s == msnaps[i] IN
        snapshotFresh(s) /\ s.rows = Cardinality(s.bars)
            => \E b \in Stored(s) : b.final /\ b.t >= LastCompleteSession

(* Laying the quote over a series never touches a final bar: on the page it   *)
(* answers every final bar is there, and only the newest bar may be open.     *)
FinalBarsStay ==
    mans.by = "series" =>
        /\ {b \in mans.rows : /\ b.final /\ b.t < mans.cut
                              /\ \E c \in mans.bars : c.t <= b.t} \subseteq mans.bars
        /\ \A b \in mans.bars : ~b.final => b = LastBar(mans.bars)
        /\ \A b, c \in mans.bars : b.t = c.t => b = c

(* The store of snapshots and the quote laid over a series, together.         *)
FinalBarsHold == FreshIsComplete /\ FinalBarsStay

(* Claimed: a published snapshot does not change (:174), so whoever reads it  *)
(* gets the same bars.  Its rows are written one by one after it.             *)
SnapshotIsOne == \A i \in DOMAIN msnaps : Cardinality(mread[i]) <= 1

(* Claimed: a bar of a week still forming is not final (:169); the code takes *)
(* it for final.                                                              *)
FormingIsNotFinal ==
    mans.by = "series" => \A b \in IndicatorBars(mans) :
        mans.key[1] = "1w" =>
            \A d \in 1..MaxDays : Trading(d) /\ Week(d) = Week(b.t)
                                      => d <= LastCompleteSession

(* Claimed: a missing adjustment is refused, not answered with raw prices,    *)
(* which is what the provider's fall-back does.                               *)
AdjustedAsAsked ==
    mans.by = "series" =>
        \A b \in mans.rows : b.adj = mans.key[2]
=============================================================================
