----------------------------- MODULE Backtester -----------------------------
(***************************************************************************)
(* The backtest kernel on one column of rows: the position machine and,    *)
(* after it on every row, the account of calculate_capital.  The verdict   *)
(* "broke" that PositionMachine leaves open is computed here from the      *)
(* account, as should_skip_current_bar does.                               *)
(*                                                                         *)
(* Money is counted in whole units and rounded down: what is worth less    *)
(* than a unit counts as nothing.  Drawdown, total return and trade_pnl_pct *)
(* are functions of the account and left out.                              *)
(***************************************************************************)
EXTENDS PositionMachine

CONSTANTS
    Capital,   \* initial_capital
    FeeFixed,  \* fee of a round trip
    FeePct,    \* fee on the volume of a round trip, in units of 1/Scale
    Length     \* rows of the prepared data

ASSUME MoneyAssumption ==
    Capital \in Nat \ {0} /\ FeeFixed \in Nat /\ FeePct \in Nat
ASSUME LengthAssumption == Length \in Nat \ {0, 1}
ASSUME PositivePrices == \A b \in Bars : b.low > 0

VARIABLES
    account,  \* CapitalState
    index     \* current_index
kernelVars == <<vars, account, index>>

-----------------------------------------------------------------------------
(* What amount becomes in a position in d from the price entry to price,   *)
(* the whole of it being invested.  A short may lose more than all.        *)
Worth(amount, d, entry, price) ==
    (amount * (entry + Sign(d) * (price - entry))) \div entry

(* The fee of a round trip: half of FeePct on either leg.                  *)
Fee(amount, worth) == FeeFixed + ((amount + worth) * FeePct) \div (2 * Scale)

(* The closed position x in d is paid out.                                 *)
PaidOut(a, x, d) ==
    LET worth == Worth(a.balance, d, x.entry, x.exit)
        cost == Fee(a.balance, worth)
    IN  [a EXCEPT !.balance = worth - cost, !.fee = @ + cost, !.feeCum = @ + cost]

Leaving(f, d, inBar) == Closed(f.side[d]) /\ HitInBar(f, d) = inBar

Round(a, f, inBar) ==
    LET b == IF Leaving(f, "long", inBar) THEN PaidOut(a, f.side["long"], "long") ELSE a
    IN  IF Leaving(f, "short", inBar) THEN PaidOut(b, f.side["short"], "short") ELSE b

(* Exits at the open are paid out before exits in the bar.                 *)
Realized(a, f) ==
    Round(Round([a EXCEPT !.fee = 0], f, FALSE), f, TRUE)

(* The balance with the open position valued at the close.                 *)
Marked(balance, f, close) ==
    IF Opened(f.side["short"])
    THEN Worth(balance, "short", f.side["short"].entry, Fine(close))
    ELSE IF Opened(f.side["long"])
         THEN Worth(balance, "long", f.side["long"].entry, Fine(close))
         ELSE balance

NotNegative(x) == IF x < 0 THEN 0 ELSE x

Accounted(a, f, close) ==
    LET paid == Realized(a, f)
        equity == NotNegative(Marked(paid.balance, f, close))
    IN  [paid EXCEPT !.balance = NotNegative(@), !.equity = equity,
                     !.peak = IF equity > @ THEN equity ELSE @]

AccountedOnSkip(a) ==
    [a EXCEPT !.fee = 0, !.balance = NotNegative(@), !.equity = NotNegative(@)]

Ruined(a) == a.balance <= 0 \/ a.equity <= 0

-----------------------------------------------------------------------------
(* Rows 0 and 1 are written without being processed.                       *)
KernelInit ==
    /\ Init
    /\ account = [balance |-> Capital, equity |-> Capital, fee |-> 0,
                  feeCum |-> 0, peak |-> Capital]
    /\ index = 1

NextRow == index + 1 < Length /\ index' = index + 1

KernelBar(n, p, quote) ==
    /\ NextRow
    /\ Stepped(n, p, quote)
    /\ account' = Accounted(account, book', n.price.close)
    /\ broke' = Ruined(account')

KernelPanic(n, p, quote) ==
    /\ index + 1 < Length
    /\ Panic(n, p, quote)
    /\ UNCHANGED <<account, index>>

(* Variant: the position is not cleared when the row is skipped.           *)
KernelSkipKeepsBook(n, p) ==
    /\ NextRow
    /\ broke /\ ~ panicked
    /\ row' = n /\ par' = p
    /\ frame' = "capital_exhausted"
    /\ account' = AccountedOnSkip(account)
    /\ UNCHANGED <<book, broke, panicked>>

KernelSkip(n, p) ==
    /\ NextRow
    /\ SkippedBar(n, p)
    /\ account' = AccountedOnSkip(account)

KernelNext == \E n \in Rows, p \in NextParams :
                  \/ \E quote \in Quotes : \/ KernelBar(n, p, quote)
                                           \/ KernelPanic(n, p, quote)
                  \/ KernelSkip(n, p)

KernelSpec == KernelInit /\ [][KernelNext]_kernelVars

-----------------------------------------------------------------------------
(* Types: neither balance nor equity ends a row below zero, the equity is  *)
(* never above its peak, and the verdict is the one on the account.        *)
AccountOK ==
    /\ account \in [balance : Nat, equity : Nat, fee : Int, feeCum : Int, peak : Nat]
    /\ account.equity <= account.peak
    /\ index \in 1 .. Length - 1
    /\ broke = Ruined(account)

(* The kernel is a position machine: the account stops the trading only in *)
(* a row that has a position in its book, and for good.                    *)
Positions == Spec

(* When a reversal is stopped out in its own bar, the position that was    *)
(* held before is paid out first, so the new one invests what it left.     *)
SettledInOrder ==
    [][\A d \in Dir :
        ~ broke /\ ~ panicked' /\ book'.first = d
        /\ Closed(book'.side[Opp(d)]) /\ Closed(book'.side[d])
            => LET before == PaidOut(account, book'.side[Opp(d)], Opp(d))
                   after == PaidOut(before, book'.side[d], d)
               IN  account'.balance = NotNegative(after.balance)]_kernelVars

(* The account changes only when a position that was held, or was entered  *)
(* on this row, is closed; and no row pays for an exit a second time.      *)
PaidOnce ==
    [][~ panicked' /\ (account'.balance # account.balance \/ account'.fee # 0) =>
        \E d \in Dir : /\ Closed(book'.side[d])
                       /\ Opened(book.side[d]) \/ book'.first = d]_kernelVars

(* The fee column adds up to the cumulated fee.                            *)
FeesAddUp == [][account'.feeCum = account.feeCum + account'.fee \/ panicked']_kernelVars
=============================================================================
