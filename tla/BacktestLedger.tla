-------------------------- MODULE BacktestLedger --------------------------
(***************************************************************************)
(* The daily loop of the backtest engine (app/server/service/backtest      *)
(* /engine.go): on each bar corporate actions are booked, the order of the *)
(* evening before is executed at the open, and the rule, whose answer is   *)
(* any, may leave an order for the next bar.  Amounts are whole numbers;   *)
(* the fee is the minimum commission; slippage is one tick.                *)
(***************************************************************************)
EXTENDS Integers, Sequences, FiniteSets, FiniteSetsExt

CONSTANTS
    Bars,        \* bars in the backtest
    Prices,      \* opening prices
    Volumes,     \* volumes; the participation cap takes Share of one
    Share(_),
    LotSize, MinFee,
    TPlus,       \* bars until bought shares may be sold
    TargetFrac,  \* the share of the cash an entry spends, in percent
    InitialCash,
    StopLoss,    \* percent
    Splits       \* ratios of a split

ASSUME EngineAssumption ==
    /\ LotSize \in Nat \ {0} /\ MinFee \in Nat /\ TPlus \in Nat /\ TargetFrac \in Nat /\ InitialCash \in Nat
    /\ Prices \subseteq Nat \ {0} /\ Volumes \subseteq Nat /\ Splits \subseteq Nat \ {0}
    /\ \A v \in Volumes \cup {0} : Share(v) \in Nat

(* A fact of the market and not of the engine, which does not ask: a lot   *)
(* brings more than the minimum commission of its sale.                    *)
ASSUME ALotPaysItsFee == \A p \in Prices : (p - 1) * LotSize >= MinFee

VARIABLES
    bar,   \* index of the bar and phase of the loop
    prevol,\* volume of the bar before
    today, \* open, volume and limit lock of the bar
    bcash,
    lots,  \* <<[qty, cost, available]>>
    pend,  \* the order left for the next open
    recv,  \* dividends recorded and not yet paid
    sold,  \* soldToday
    deltas,\* cash of all fills and paid dividends
    cycle  \* of the present position: paid for it, got back from it

blVars == <<bar, prevol, today, bcash, lots, pend, recv, sold, deltas, cycle>>

NoBar == [open |-> 0, close |-> 0, vol |-> 0, lock |-> "no"]

EngineInit ==
    /\ bar = [i |-> 1, phase |-> "actions"] /\ prevol = 0 /\ today = NoBar
    /\ bcash = InitialCash
    /\ lots = <<>> /\ pend = "none" /\ recv = 0 /\ sold = FALSE /\ deltas = 0
    /\ cycle = [paid |-> 0, back |-> 0]

----------------------------------------------------------------------------
sumOf(ls, K) == MapThenSumSet(LAMBDA k : ls[k].qty, K)
sumQty(ls) == sumOf(ls, DOMAIN ls)

floorLot(qty) == (qty \div LotSize) * LotSize

(* applyActions: a split multiplies the lots, a record day notes what is   *)
(* to be paid, a pay day pays everything noted.                            *)
Booked(ls, cash, due) ==
    /\ lots' = ls /\ recv' = due
    /\ bcash' = cash /\ deltas' = deltas + (cash - bcash)
    /\ cycle' = [cycle EXCEPT !.back = @ + (cash - bcash)]

ApplyActions ==
    /\ bar.phase = "actions" /\ bar.i <= Bars
    /\ \/ Booked(lots, bcash, recv)
       \/ \E r \in Splits : Booked([k \in DOMAIN lots |-> [lots[k] EXCEPT !.qty = @ * r]], bcash, recv)
       \/ recv = 0 /\ lots # <<>> /\ Booked(lots, bcash, sumQty(lots))
       \/ recv > 0 /\ Booked(lots, bcash + recv, 0)
    /\ \E open, close \in Prices, vol \in Volumes, lock \in {"no", "up", "down"} :
          today' = [open |-> open, close |-> close, vol |-> vol, lock |-> lock]
    /\ bar' = [bar EXCEPT !.phase = "open"]
    /\ sold' = FALSE
    /\ UNCHANGED <<prevol, pend>>

----------------------------------------------------------------------------
(* execute *)
Capped(qty) ==
    LET a == IF qty > Share(prevol) THEN floorLot(Share(prevol)) ELSE qty
    IN  IF a > Share(today.vol) THEN floorLot(Share(today.vol)) ELSE a

BuyPrice == today.open + 1
BuyQty == Capped(floorLot((bcash * TargetFrac) \div (100 * BuyPrice)))

AnyAmount(qty) == TRUE

(* The quantity was found without the minimum commission. *)
Payable(qty) == BuyPrice * qty + MinFee <= bcash

Fillable(side) == prevol > 0 /\ today.lock # (IF side = "buy" THEN "up" ELSE "down")

Buy ==
    /\ pend = "buy"
    /\ pend' = "none"
    /\ IF Fillable("buy") /\ BuyQty >= LotSize /\ Payable(BuyQty)
         THEN LET need == BuyPrice * BuyQty + MinFee IN
              /\ bcash' = bcash - need /\ deltas' = deltas - need
              /\ lots' = Append(lots, [qty |-> BuyQty, cost |-> need, available |-> bar.i + TPlus])
              /\ cycle' = [paid |-> need, back |-> 0]
         ELSE UNCHANGED <<bcash, deltas, lots, cycle>>
    /\ UNCHANGED sold

SellPrice == today.open - 1
Sellable == {k \in DOMAIN lots : lots[k].available <= bar.i}
SellQty == floorLot(Capped(sumOf(lots, Sellable)))

(* reduceLots: the first lot first; its cost stays whole. *)
Left(k, qty) == qty - sumOf(lots, 1 .. k - 1)
Reduced(k, qty) ==
    IF Left(k, qty) <= 0 THEN lots[k]
    ELSE [lots[k] EXCEPT !.qty = IF @ <= Left(k, qty) THEN 0 ELSE @ - Left(k, qty)]
reduceLots(qty) ==
    LET out[k \in 0 .. Len(lots)] ==
            IF k = 0 THEN <<>>
            ELSE IF Reduced(k, qty).qty > 0 THEN Append(out[k - 1], Reduced(k, qty)) ELSE out[k - 1]
    IN  out[Len(lots)]

(* An exit that cannot be filled waits for the next bar. *)
Sell ==
    /\ pend = "sell"
    /\ IF Fillable("sell") /\ SellQty > 0
         THEN /\ bcash' = bcash + SellPrice * SellQty - MinFee
              /\ deltas' = deltas + SellPrice * SellQty - MinFee
              /\ cycle' = [cycle EXCEPT !.back = @ + SellPrice * SellQty - MinFee]
              /\ lots' = reduceLots(SellQty)
              /\ sold' = TRUE
              /\ pend' = "none"
         ELSE UNCHANGED <<bcash, deltas, lots, sold, pend, cycle>>

Execute ==
    /\ bar.phase = "open"
    /\ \/ Buy
       \/ Sell
       \/ pend = "none" /\ UNCHANGED <<bcash, deltas, lots, sold, pend, cycle>>
    /\ bar' = [bar EXCEPT !.phase = "close"]
    /\ UNCHANGED <<prevol, today, recv>>

(* The rule at the close: a position may be left, none may be entered      *)
(* again on the bar of a sale.                                             *)

MayEnter == sumQty(lots) = 0 /\ ~sold

(* hitRisk: the position against the whole cost of its lots. *)
hitRisk ==
    LET cost == MapThenSumSet(LAMBDA k : lots[k].cost, DOMAIN lots)
    IN  /\ sumQty(lots) > 0
        /\ 100 * (sumQty(lots) * today.close + recv - cost) <= -StopLoss * cost

Signal ==
    /\ bar.phase = "close"
    /\ \/ hitRisk /\ pend' = "sell"
       \/ ~hitRisk /\ sumQty(lots) > 0 /\ pend' = "sell"
       \/ ~hitRisk /\ MayEnter /\ pend' = "buy"
       \/ ~hitRisk /\ UNCHANGED pend
    /\ bar' = [i |-> bar.i + 1, phase |-> "actions"]
    /\ prevol' = today.vol /\ today' = NoBar
    /\ sold' = FALSE
    /\ UNCHANGED <<bcash, lots, recv, deltas, cycle>>

EngineNext == ApplyActions \/ Execute \/ Signal

EngineSpec == EngineInit /\ [][EngineNext]_blVars

----------------------------------------------------------------------------
(* Whatever the market and the rule do, the books are those of an account  *)
(* without credit: the cash is what the fills and the dividends made of    *)
(* it, it is never negative, and there is one position at a time, sold in  *)
(* whole lots as far as the market took it.                                *)
BooksBalance ==
    /\ bcash = InitialCash + deltas /\ bcash >= 0 /\ recv >= 0
    /\ Len(lots) <= 1
    /\ \A k \in DOMAIN lots : lots[k].qty > 0

(* The stop loss fires on the loss of the present position: its value,     *)
(* what partial sales and dividends brought and what is still to be paid,  *)
(* against what was paid for it (stated by the specification; what is      *)
(* received is forgotten by the code once it is paid).                     *)
StopLossIsALoss ==
    bar.phase = "close" /\ hitRisk =>
        100 * (sumQty(lots) * today.close + recv + cycle.back - cycle.paid) <= -StopLoss * cycle.paid
============================================================================
