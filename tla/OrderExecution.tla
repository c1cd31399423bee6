--------------------------- MODULE OrderExecution ---------------------------
(***************************************************************************)
(* One call of Executor.open_position or close_position: post-only limit   *)
(* attempts with re-quotes, the market order that replaces or follows      *)
(* them, the retry of a create whose answer was lost, the polling of the   *)
(* order, its cancellation and the reading of its trades.  The exchange    *)
(* trades, expires and cancels orders between any two of these calls.      *)
(*                                                                         *)
(* Quantities are lots, so normalize_order's rounding down has been done   *)
(* and only its lower limits are left.  An order is named by the attempt   *)
(* that sent it and by the try of _with_retry that got it accepted: all    *)
(* tries of an attempt carry one client order id.                          *)
(*                                                                         *)
(*   call     what was asked: kind, execution mode, fallback and guard     *)
(*   pc       the await the call stands at                                 *)
(*   attempt  the maker attempt, or Market for the market order            *)
(*   try      the retry counter of _with_retry                             *)
(*   id       the order the executor works with (order_id)                 *)
(*   seen     the last answer about it (observed)                          *)
(*   ids      the orders the call knows it placed (attempt_order_ids)      *)
(*   cum      cumulative_filled; won: winning_attempt is not None          *)
(*   unread   orders _reconcile_maker_residual_fills has still to read     *)
(*   result   what the caller gets                                         *)
(*   orders   the exchange's orders                                        *)
(*   position the lots held in the direction of the call                   *)
(*   faults   exchange calls that may still fail                           *)
(* and, for the properties only:                                           *)
(*   counted  lots of each order that went into the result                 *)
(*   stray    orders whose creation or cancellation got no good answer     *)
(*   raced    an order filled between the last look at it and its cancel   *)
(***************************************************************************)
EXTENDS Integers, FiniteSets

CONSTANTS Size,          \* lots asked for, or held by the position to close
          MinNotional,   \* smallest order, in lots times price
          Prices,        \* prices the book may quote
          Requotes,      \* maker_max_requotes
          Retries,       \* max_order_retries
          Faults         \* bound on failing calls of one execution

ASSUME ExecutionAssumption ==
  /\ Size \in Nat \ {0}
  /\ MinNotional \in Nat
  /\ Prices \subseteq Nat \ {0}
  /\ Requotes \in Nat
  /\ Retries \in Nat
  /\ Faults \in Nat

Attempts == Requotes + 1
Market == Attempts + 1
Ids == (1..Market) \X (0..Retries)
NoId == <<0, 0>>

Modes == {"MAKER_ONLY", "MAKER_FIRST", "MARKET_TAKER"}
Calls == [kind : {"OPEN", "CLOSE"}, mode : Modes,
          fallback : BOOLEAN, skip : BOOLEAN]

\* The slippage guard is skipped by the forced market closes only.
Callable(c) == c.skip => c.kind = "CLOSE"

NoOrder == [st |-> "none", amt |-> 0, filled |-> 0]
NoResult == [status |-> "none", qty |-> 0, remaining |-> 0]
Unseen == [st |-> "open", filled |-> 0, trades |-> FALSE]

VARIABLES call, pc, attempt, try, id, seen, ids, cum, won, unread, result,
          orders, position, faults, counted, stray, raced

vars == <<call, pc, attempt, try, id, seen, ids, cum, won, unread, result,
          orders, position, faults, counted, stray, raced>>

exchange == <<orders, position>>
history == <<counted, stray, raced>>
books == <<cum, won, counted>>
progress == <<attempt, try, id, seen>>

Init ==
  /\ call \in {c \in Calls : Callable(c)}
  /\ pc = IF call.mode = "MARKET_TAKER" THEN "market" ELSE "quote"
  /\ attempt = 1 /\ try = 0 /\ id = NoId /\ seen = Unseen
  /\ ids = {} /\ cum = 0 /\ won = FALSE /\ unread = {}
  /\ result = NoResult
  /\ orders = [i \in Ids |-> NoOrder]
  /\ position = IF call.kind = "CLOSE" THEN Size ELSE 0
  /\ faults = Faults
  /\ counted = [i \in Ids |-> 0] /\ stray = {} /\ raced = FALSE

Ended == pc \in {"returned", "raised"}

\* A call of the exchange that fails.
Fails == faults > 0 /\ faults' = faults - 1
Answers == UNCHANGED faults

(***************************************************************************)
(* The exchange.                                                           *)
(***************************************************************************)

\* Mutant: a closing order is sent without reduceOnly.
MayIncrease == FALSE

\* Closing orders are sent with reduceOnly.
ReduceOnly == call.kind = "CLOSE"

Reducible(n) == ReduceOnly => n <= position

Moved(n) == IF call.kind = "CLOSE" THEN position - n ELSE position + n

Traded(o) == [st |-> IF o.filled + 1 = o.amt THEN "filled" ELSE "open",
              amt |-> o.amt, filled |-> o.filled + 1]

\* A lot trades on a resting order.
Fill(i) ==
  /\ orders[i].st = "open"
  /\ Reducible(1)
  /\ orders' = [orders EXCEPT ![i] = Traded(@)]
  /\ position' = Moved(1)
  /\ UNCHANGED <<call, pc, progress, ids, cum, won, unread, result, faults,
                 history>>

\* The exchange ends an order itself: a post-only order that would have
\* crossed the book, a reduce-only order with nothing left to reduce.
Expire(i) ==
  /\ orders[i].st = "open"
  /\ orders' = [orders EXCEPT ![i] = [@ EXCEPT !.st = "canceled"]]
  /\ UNCHANGED <<call, pc, progress, ids, cum, won, unread, result, position,
                 faults, history>>

\* An order as the exchange reports it.
Report(o) == [st |-> o.st, filled |-> o.filled, trades |-> FALSE]

(***************************************************************************)
(* The executor.                                                           *)
(***************************************************************************)

\* The quantity of the current order: an entry asks for what is missing, a
\* close for the whole position every time.
Amount == IF call.kind = "OPEN" THEN Size - cum ELSE Size

\* normalize_order: below the smallest order there is nothing to send.
Tradable(q, price) == q * price >= MinNotional

\* Mutant: a post-only order without a reported fill counts as filled.
ParsedFillAssumed(s) == IF s.filled > 0 THEN s.filled ELSE Amount

\* _parse_fill with assume_filled_if_missing=False.
ParsedFill(s) == IF s.filled > 0 THEN s.filled
                 ELSE IF s.st = "filled" THEN Amount ELSE 0

\* Mutant: what is left of a partly filled order is not cancelled.
AfterKeepsRest(s) == IF attempt = Market \/ ParsedFill(s) > 0 THEN "trades"
                     ELSE IF s.st = "open" THEN "wait" ELSE "cancel"

\* Where the call goes with an answer about its order: a market order is
\* not waited for; a post-only order is, until it filled or ended, and what
\* may be left of it is cancelled.
After(s) == IF attempt = Market THEN "trades"
            ELSE IF ParsedFill(s) = 0
                 THEN IF s.st = "open" THEN "wait" ELSE "cancel"
                 ELSE IF ParsedFill(s) < Amount THEN "cancel" ELSE "trades"

Status(qty) == IF qty < Size THEN "partial" ELSE "filled"
\* Mutant: what is missing is not bounded below by nothing.
LeftSigned(qty) == Size - qty

Left(qty) == IF qty < Size THEN Size - qty ELSE 0

Returns(status, qty, remaining) ==
  /\ pc' = "returned"
  /\ result' = [status |-> status, qty |-> qty, remaining |-> remaining]

Rejects == Returns("rejected", Size, 0)

\* Each attempt prices its order anew.  An order below the smallest one ends
\* the loop, with a rejection unless an earlier attempt filled.
Quote ==
  /\ pc = "quote"
  /\ \/ /\ call.kind = "OPEN" /\ attempt = 1 /\ Fails    \* setup_symbol
        /\ pc' = "raised"
        /\ UNCHANGED <<try, result>>
     \/ /\ Answers
        /\ \E price \in Prices :
             IF Tradable(Amount, price)
             THEN pc' = "create" /\ try' = 0 /\ UNCHANGED result
             ELSE /\ IF won THEN Returns(Status(cum), cum, Left(cum)) ELSE Rejects
                  /\ UNCHANGED try
  /\ UNCHANGED <<call, attempt, id, seen, ids, books, unread, exchange, stray, raced>>

\* The market order: entries are normalised and set the leverage, and all
\* but forced closes pass the slippage guard, which rejects when the book is
\* too thin, too far away or cannot be read.
MarketOrder ==
  /\ pc = "market"
  /\ \/ /\ call.kind = "OPEN" /\ Fails                   \* setup_symbol
        /\ pc' = "raised"
        /\ UNCHANGED <<attempt, try, result>>
     \/ /\ \/ call.kind = "OPEN" /\ \E price \in Prices : ~Tradable(Size, price)
           \/ ~call.skip
        /\ Rejects /\ Answers
        /\ UNCHANGED <<attempt, try>>
     \/ /\ call.kind = "OPEN" => \E price \in Prices : Tradable(Size, price)
        /\ pc' = "create" /\ attempt' = Market /\ try' = 0 /\ Answers
        /\ UNCHANGED result
  /\ UNCHANGED <<call, id, seen, ids, books, unread, exchange, stray, raced>>

\* The client order id of this attempt is in use by an open order, or there
\* is nothing left that a reduce-only order could reduce.
Refusable == \/ \E t \in 0..Retries : t < try /\ orders[<<attempt, t>>].st = "open"
             \/ ReduceOnly /\ position = 0

\* The exchange takes the order: a limit order rests, a market order trades
\* at once for n lots, perhaps none, and the rest of it expires.
Accept(c, n) ==
  /\ ~Refusable
  /\ IF attempt = Market THEN n \in 0..Amount ELSE n = 0
  /\ Reducible(n)
  /\ orders' = [orders EXCEPT
       ![c] = [st |-> IF attempt # Market THEN "open"
                      ELSE IF n = Amount THEN "filled" ELSE "canceled",
               amt |-> Amount, filled |-> n]]
  /\ position' = Moved(n)

\* Mutant: only the last order is remembered.
KnownLast(c) == IF attempt = Market THEN ids ELSE {c}

Known(c) == IF attempt = Market THEN ids ELSE ids \cup {c}

\* create_order inside _with_retry.  A business error raises; the answer of
\* a market order may leave the filled quantity out; after a network error
\* the order may be live or not.
Create ==
  /\ pc = "create"
  /\ LET c == <<attempt, try>> IN
     \/ /\ IF Refusable THEN Answers ELSE Fails
        /\ pc' = "raised"
        /\ UNCHANGED <<exchange, id, seen, ids, stray>>
     \/ /\ Answers
        /\ \E n \in 0..Size : Accept(c, n)
        /\ id' = c /\ ids' = Known(c)
        /\ seen' \in {Report(orders'[c])} \cup (IF attempt = Market THEN {Unseen} ELSE {})
        /\ pc' = After(seen')
        /\ UNCHANGED stray
     \/ /\ Fails
        /\ \E n \in 0..Size : Accept(c, n)
        /\ stray' = stray \cup {c}
        /\ pc' = "recover"
        /\ UNCHANGED <<id, seen, ids>>
     \/ /\ Fails
        /\ pc' = "recover"
        /\ UNCHANGED <<exchange, id, seen, ids, stray>>
  /\ UNCHANGED <<call, attempt, try, books, unread, result, raced>>

\* _recover_ambiguous_order: the order is looked up by its client id, on the
\* private stream, whose record may be as old as its first event, or by
\* REST.  Not found or not answered, the create is sent again.
Recover ==
  /\ pc = "recover"
  /\ \/ \E t \in 0..Retries :
          LET j == <<attempt, t>> IN
          /\ orders[j].st # "none"
          /\ Answers
          /\ id' = j /\ ids' = Known(j) /\ stray' = stray \ {j}
          /\ seen' \in {Report(orders[j]), Unseen}
          /\ pc' = After(seen')
          /\ UNCHANGED try
     \/ /\ IF \A t \in 0..Retries : orders[<<attempt, t>>].st = "none"
           THEN Answers ELSE Fails
        /\ IF try < Retries THEN pc' = "create" /\ try' = try + 1
           ELSE pc' = "raised" /\ UNCHANGED try
        /\ UNCHANGED <<id, seen, ids, stray>>
  /\ UNCHANGED <<call, attempt, books, unread, result, exchange, raced>>

\* A read of an order's trades that returns n lots: fewer than it traded
\* when the read failed on every try or the trades are not listed yet.
Reads(i, n) == IF n < orders[i].filled THEN Fails ELSE Answers

\* _wait_maker_fill: one poll of the order.  The exchange may not find an
\* order that ended; then its trades decide.  A transient error changes
\* nothing and is polled over.
Poll ==
  /\ pc = "wait"
  /\ \/ /\ Answers
        /\ seen' = Report(orders[id])
        /\ pc' = After(seen')
     \/ /\ orders[id].st # "open"
        /\ \E n \in 0..orders[id].filled :
             /\ Reads(id, n)
             /\ IF n = 0 THEN pc' = "cancel" /\ UNCHANGED seen
                ELSE /\ seen' = [st |-> IF n >= Amount THEN "filled" ELSE "canceled",
                                 filled |-> n, trades |-> TRUE]
                     /\ pc' = After(seen')
  /\ UNCHANGED <<call, attempt, try, id, ids, books, unread, result, exchange,
                 stray, raced>>

\* Mutant: an order that rests is polled without a deadline.
GiveUpOnEnded ==
  /\ pc = "wait" /\ orders[id].st # "open"
  /\ pc' = "cancel"
  /\ UNCHANGED <<call, progress, ids, books, unread, result, exchange, faults,
                 stray, raced>>

\* The deadline has passed, or the exchange answered with a business error.
GiveUp ==
  /\ pc = "wait"
  /\ pc' = "cancel"
  /\ UNCHANGED <<call, progress, ids, books, unread, result, exchange, faults,
                 stray, raced>>

NextAttempt == IF attempt < Attempts
               THEN pc' = "quote" /\ attempt' = attempt + 1
               ELSE pc' = "wrapup" /\ UNCHANGED attempt

\* _cancel_regular_order_safe: errors are swallowed, whatever became of the
\* order.  An attempt seen empty is over with its cancel.
Cancel ==
  /\ pc = "cancel"
  /\ LET canceled == IF orders[id].st = "open"
                     THEN [orders EXCEPT ![id] = [@ EXCEPT !.st = "canceled"]]
                     ELSE orders
     IN \/ Answers /\ orders' = canceled /\ UNCHANGED stray
        \/ Fails /\ orders' \in {orders, canceled} /\ stray' = stray \cup {id}
  /\ IF ParsedFill(seen) > 0 THEN pc' = "trades" /\ UNCHANGED attempt
     ELSE NextAttempt
  /\ raced' = (raced \/ (ParsedFill(seen) = 0 /\ orders[id].filled > 0))
  /\ UNCHANGED <<call, try, id, seen, ids, books, unread, result, position>>

\* The order's trades override what was observed of it; without any, the
\* observation stands, and a market order counts as filled, whatever its status.
Took(n) == IF seen.trades THEN seen.filled
           ELSE IF n > 0 THEN n
           ELSE IF attempt = Market /\ seen.filled = 0 THEN Amount
           ELSE ParsedFill(seen)

Books(got) == /\ counted' = [counted EXCEPT ![id] = got]
              /\ cum' = cum + got
              /\ won' = TRUE

\* An entry goes on until the attempts add up to the plan; a close and a
\* market order return with the first order that traded.
Trades ==
  /\ pc = "trades"
  /\ \E n \in 0..orders[id].filled :
       /\ IF seen.trades THEN n = 0 /\ Answers ELSE Reads(id, n)
       /\ Books(Took(n))
       /\ \/ /\ call.kind = "CLOSE" \/ attempt = Market
             /\ Returns(Status(Took(n)), Took(n), Left(Took(n)))
             /\ UNCHANGED attempt
          \/ /\ call.kind = "OPEN" /\ attempt # Market
             /\ IF cum + Took(n) >= Size
                THEN /\ Returns("filled", cum + Took(n), 0)
                     /\ UNCHANGED attempt
                ELSE NextAttempt /\ UNCHANGED result
  /\ UNCHANGED <<call, try, id, seen, ids, unread, exchange, stray, raced>>

\* Nothing filled: a maker-first call may still go to the market.
FallBack == IF call.mode = "MAKER_FIRST" /\ call.fallback
            THEN pc' = "market" /\ UNCHANGED result
            ELSE Returns("canceled", 0, 0)

\* After the last attempt.  An entry that saw no fill at all reads the trades
\* of every order it placed; a close does not.
WrapUp ==
  /\ pc = "wrapup"
  /\ \/ /\ call.kind = "OPEN" /\ won
        /\ Returns(Status(cum), cum, Left(cum))
        /\ UNCHANGED unread
     \/ /\ call.kind = "OPEN" /\ ~won /\ ids # {}
        /\ pc' = "residual" /\ unread' = ids
        /\ UNCHANGED result
     \/ /\ call.kind = "CLOSE"
        /\ FallBack
        /\ UNCHANGED unread
  /\ UNCHANGED <<call, progress, ids, books, exchange, faults, stray, raced>>

\* One order of _reconcile_maker_residual_fills, in the order they were sent;
\* cum holds its total_filled.
Residual(i) ==
  /\ pc = "residual" /\ i \in unread
  /\ \A j \in unread : i[1] <= j[1]
  /\ \E n \in 0..orders[i].filled :
       /\ Reads(i, n)
       /\ counted' = [counted EXCEPT ![i] = n]
       /\ cum' = cum + n
  /\ unread' = unread \ {i}
  /\ UNCHANGED <<call, pc, progress, ids, won, result, exchange, stray, raced>>

ResidualDone ==
  /\ pc = "residual" /\ unread = {}
  /\ IF cum > 0 THEN Returns(Status(cum), cum, Left(cum)) ELSE FallBack
  /\ UNCHANGED <<call, progress, ids, books, unread, exchange, faults, stray, raced>>

Step == \/ Quote \/ MarketOrder \/ Create \/ Recover \/ Poll \/ GiveUp
        \/ Cancel \/ Trades \/ WrapUp \/ ResidualDone
        \/ \E i \in Ids : Residual(i)

Next == Step \/ \E i \in Ids : Fill(i) \/ Expire(i)

\* The event loop runs the call whenever it can go on: polls, backoffs and
\* reads all have a timeout.
Spec == Init /\ [][Next]_vars /\ WF_vars(Step)

(***************************************************************************)
(* Properties.                                                             *)
(***************************************************************************)

Answered == [st : {"open", "filled", "canceled"}, filled : 0..Size, trades : BOOLEAN]

TypeOK ==
  /\ call \in Calls
  /\ pc \in {"quote", "market", "create", "recover", "wait", "cancel", "trades",
             "wrapup", "residual", "returned", "raised"}
  /\ attempt \in 1..Market /\ try \in 0..Retries
  /\ id \in Ids \cup {NoId}
  /\ seen \in Answered
  /\ ids \subseteq Ids /\ unread \subseteq Ids
  /\ cum \in Nat /\ won \in BOOLEAN
  /\ result \in [status : {"none", "filled", "partial", "rejected", "canceled"},
                 qty : Nat, remaining : 0..Size]
  /\ orders \in [Ids -> [st : {"none", "open", "filled", "canceled"},
                         amt : 0..Size, filled : 0..Size]]
  /\ position \in Int /\ faults \in 0..Faults
  /\ counted \in [Ids -> 0..Size] /\ stray \subseteq Ids /\ raced \in BOOLEAN

\* At any time at most one order of a call is open, apart from those whose
\* creation or cancellation the exchange never confirmed: an attempt is
\* cancelled before the next one, or the market order, is sent.
OneLiveOrder ==
  \A i, j \in Ids :
    orders[i].st = "open" /\ orders[j].st = "open" /\ i # j => {i, j} \cap stray # {}

\* However late the earlier attempts of a close fill, and however often it is
\* sent again, the position is not closed past zero and reversed.
NeverReverses == call.kind = "CLOSE" => position >= 0

\* A fill that landed between the last look at an empty order and its cancel
\* is lost when another attempt filled, when the call is a close, and when a
\* later quote makes the order too small: that rejection reads no trades.
Missed == raced /\ (won \/ call.kind = "CLOSE" \/ result.status = "rejected")

\* A market order that expired without a trade is counted in full: _parse_fill
\* takes a fill that nobody reported for one that the answer left out.
Assumed(i) == i[1] = Market /\ orders[i].filled = 0 /\ counted[i] = orders[i].amt

\* With every call of the exchange answered in full, the result counts
\* exactly what traded on each order, except for such a fill, and for a market
\* order that expired empty; any other fill is found in the end, and nothing
\* else is claimed.
ExactWhenAnswered ==
  pc = "returned" /\ faults = Faults /\ ~Missed
     => \A i \in Ids : counted[i] = orders[i].filled \/ Assumed(i)

\* A call ends, whatever the exchange answers and however long it does not:
\* attempts, retries and waiting are all bounded.
CallEnds == <>Ended

\* The contract: post-only orders are claimed for what they traded; a market
\* order may be claimed in full on an answer that leaves the quantity out.
Contract == INSTANCE OrderContract WITH
  Orders <- Ids,
  Exact <- {i \in Ids : i[1] # Market},
  Lots <- Size,
  phase <- IF Ended THEN pc ELSE "working",
  traded <- [i \in Ids |-> orders[i].filled],
  claimed <- [i \in Ids |-> IF pc = "returned" THEN counted[i] ELSE 0]

\* The call keeps OrderContract.
KeepsContract == Contract!Spec
=============================================================================
