----------------------------- MODULE FillLedger -----------------------------
(***************************************************************************)
(* The ledger of Binance fills of one symbol (exchange_fills) and the      *)
(* archive of the trades made outside the engine (external_trades), as     *)
(* three concurrent writers keep them: the handler of private stream       *)
(* events, the REST compensation of the reconcile task, and the engine's   *)
(* own open and close calls, whose claim, order and trade rows decide who  *)
(* owns a fill.                                                            *)
(*                                                                         *)
(* A fill is named by its place in the exchange's history, and made at a   *)
(* time of its own; what the engine writes is written between two fills.   *)
(*                                                                         *)
(*   fills    the exchange's fills, oldest first                           *)
(*   stream   fills whose stream event is under way, in order              *)
(*   rows     exchange_fills, in the order of insertion                    *)
(*   book     external_trades and their allocations                        *)
(*   claim    the position claim of the engine's open call                 *)
(*   logged   orders with an OrderRow, by order id                         *)
(*   trade    the engine's TradeRow: opened_at_ms, closed_at_ms            *)
(*   engine   where the engine's open and close calls stand                *)
(*   sync     where _sync_exchange_fills stands                            *)
(*   faults   stream events, REST and database calls that may still fail   *)
(***************************************************************************)
EXTENDS Integers, FiniteSets, Sequences, SequencesExt, FiniteSetsExt

CONSTANTS MaxFills,   \* bound on the fills of the exchange
          Manual,     \* side and lots of the fills made by hand
          Page,       \* fills one REST answer holds (1000)
          Overlap,    \* how far before the watermark a sync looks (60 s)
          Fallback,   \* how far back it looks without a watermark (300 s)
          MaxFaults   \* bound on lost events, failing calls and restarts

ASSUME LedgerAssumption ==
  /\ MaxFills \in Nat
  /\ Manual \subseteq [side : {"buy", "sell"}, qty : Nat \ {0}]
  /\ Page \in Nat \ {0, 1} /\ Overlap \in Nat /\ Fallback \in Nat
  /\ MaxFaults \in Nat

\* Orders: two maker attempts of one open call, the close, a triggered stop,
\* and whatever the operator sends by hand.
Entries == {"first", "second"}
Exits == {"close", "stop"}
EngineOrders == Entries \cup Exits

Sides == {"buy", "sell"}
Fills == [order : EngineOrders \cup {"manual"}, side : Sides,
          qty : {1} \cup {m.qty : m \in Manual}]

Owners == {"engine", "external", "mixed", "unknown"}

VARIABLES fills, stream, rows, book, claim, logged, trade, engine, sync,
          faults

vars == <<fills, stream, rows, book, claim, logged, trade, engine, sync,
          faults>>

exchange == <<fills, stream>>
ledger == <<rows, book>>
local == <<claim, logged, trade, engine>>

NoBook == [trades |-> <<>>, alloc |-> {}]
NoSync == [pc |-> "idle", mark |-> 0, upto |-> 0, since |-> 0, page |-> <<>>,
           more |-> FALSE, ok |-> TRUE]

Init ==
  /\ fills = <<>> /\ stream = <<>>
  /\ rows = <<>> /\ book = NoBook
  /\ claim = [status |-> "none", from |-> 0]
  /\ logged = {}
  /\ trade = [opened |-> 0, closed |-> 0]
  /\ engine = "idle"
  /\ sync = NoSync /\ faults = MaxFaults

TimeOf(i) == 2 * i
Now == 2 * Len(fills) + 1
MaxTime == 2 * MaxFills + 1

Fails == faults > 0 /\ faults' = faults - 1
Answers == UNCHANGED faults

(***************************************************************************)
(* Who owns a fill: _classify_exchange_fill.                               *)
(***************************************************************************)

ActiveClaim == {"opening", "protecting"}

OfEngine(i) == fills[i].order \in EngineOrders
Matched(i) == fills[i].order \in logged

\* The claim was begun before fill i was made.  An open call is over long
\* before its claim expires.
Claimed(i) == claim.from <= TimeOf(i)

\* The engine's trade was open when fill i was made.
Managed(i) == /\ trade.opened # 0 /\ trade.opened <= TimeOf(i)
              /\ trade.closed = 0 \/ trade.closed >= TimeOf(i)

\* Mutant: a claim holds fills back whatever its status is.
OwnerByAnyClaim(i, named) ==
  IF OfEngine(i) /\ (named \/ Matched(i)) THEN "engine"
  ELSE IF claim.status # "none" /\ Claimed(i) THEN "unknown"
  ELSE IF Managed(i) THEN "mixed" ELSE "external"

\* Mutant: claims are not asked.
OwnerWithoutClaim(i, named) ==
  IF OfEngine(i) /\ (named \/ Matched(i)) THEN "engine"
  ELSE IF Managed(i) THEN "mixed" ELSE "external"

\* Stream events name the client order id, which starts with bt- for the
\* engine's orders (named); a REST fill has the exchange's order id only.
Owner(i, named) ==
  IF OfEngine(i) /\ (named \/ Matched(i)) THEN "engine"
  ELSE IF claim.status \in ActiveClaim /\ Claimed(i) THEN "unknown"
  ELSE IF Managed(i) THEN "mixed" ELSE "external"

(***************************************************************************)
(* The archive of external trades: _apply_external_fill.                   *)
(***************************************************************************)

Direction(f) == IF f.side = "buy" THEN "long" ELSE "short"
Opposite(f) == IF f.side = "buy" THEN "short" ELSE "long"

Signed(f) == IF f.side = "buy" THEN f.qty ELSE -f.qty

\* Fill i is reduce-only or has a realized profit: it is against the position
\* that the fills before it left.
Closing(i) == LET before == FoldLeft(LAMBDA p, f : p + Signed(f), 0,
                                     SubSeq(fills, 1, i - 1))
              IN IF fills[i].side = "buy" THEN before < 0 ELSE before > 0

NewTrade(i, dir, qty) ==
  [dir |-> dir, at |-> TimeOf(i), opened |-> qty, closed |-> 0, status |-> "open",
   carry |-> FALSE]

Allocation(t, i, role, qty) == [trade |-> t, fill |-> i, role |-> role,
                                qty |-> qty]

\* Append a trade that fill i made, and give it qty lots of the fill.
WithTrade(b, t, i, role, qty) ==
  [trades |-> Append(b.trades, t),
   alloc |-> b.alloc \cup {Allocation(Len(b.trades) + 1, i, role, qty)}]

\* A fill that closes a position nobody saw being opened.
CarryIn(b, i) ==
  LET f == fills[i]
  IN WithTrade(b, [NewTrade(i, Opposite(f), f.qty) EXCEPT
                     !.closed = f.qty, !.status = "closed", !.carry = TRUE],
               i, "EXIT", f.qty)

OpenTrades(b) == {t \in DOMAIN b.trades : b.trades[t].status # "closed"}

\* order_by(opened_at_ms.desc(), id.desc())
Current(b) == CHOOSE t \in OpenTrades(b) :
                \A u \in OpenTrades(b) : \/ b.trades[u].at < b.trades[t].at
                                         \/ /\ b.trades[u].at = b.trades[t].at
                                            /\ u <= t

AddTo(b, t, i) ==
  [trades |-> [b.trades EXCEPT
                 ![t].opened = @ + fills[i].qty,
                 ![t].status = IF b.trades[t].closed = 0 THEN "open"
                               ELSE "partial"],
   alloc |-> b.alloc \cup {Allocation(t, i, "ENTRY", fills[i].qty)}]

Reduced(t, qty) ==
  [t EXCEPT !.closed = @ + qty,
            !.status = IF t.opened - t.closed = qty THEN "closed"
                       ELSE "partial"]

\* Mutant: the whole fill is booked as the exit.
CloseOvershoots(b, t, i) ==
  [trades |-> [b.trades EXCEPT ![t] = Reduced(@, fills[i].qty)],
   alloc |-> b.alloc \cup {Allocation(t, i, "EXIT", fills[i].qty)}]

\* Close what is open of trade t; the rest of the fill opens the reverse.
CloseWith(b, t, i) ==
  LET f == fills[i]
      qty == Min({b.trades[t].opened - b.trades[t].closed, f.qty})
      after == [trades |-> [b.trades EXCEPT ![t] = Reduced(@, qty)],
                alloc |-> b.alloc \cup {Allocation(t, i, "EXIT", qty)}]
  IN IF f.qty = qty THEN after
     ELSE WithTrade(after, NewTrade(i, Direction(f), f.qty - qty), i,
                    "REVERSAL_ENTRY", f.qty - qty)

ApplyExternal(b, i) ==
  LET f == fills[i]
  IN IF OpenTrades(b) = {}
       THEN IF Closing(i) THEN CarryIn(b, i)
            ELSE WithTrade(b, NewTrade(i, Direction(f), f.qty), i, "ENTRY",
                           f.qty)
     ELSE IF b.trades[Current(b)].dir = Direction(f)
            THEN AddTo(b, Current(b), i)
     ELSE CloseWith(b, Current(b), i)

\* The external fills of rs applied to b, in the order of time.
ReplayFrom(b, rs) ==
  LET external == {r.fill : r \in {s \in ToSet(rs) : s.owner = "external"}}
      upto[n \in Nat] == IF n = 0 THEN b
                         ELSE IF n \in external THEN ApplyExternal(upto[n - 1], n)
                         ELSE upto[n - 1]
  IN upto[Len(fills)]

\* Mutant: the archive is replayed on top of the trades it had.
ReplayKeepsOld(rs) == ReplayFrom(book, rs)

\* _rebuild_external_symbol: every external fill again, from an empty archive.
Replay(rs) == ReplayFrom(NoBook, rs)

(***************************************************************************)
(* ingest_exchange_fill: one transaction.                                  *)
(***************************************************************************)

Ingested(i) == \E r \in ToSet(rows) : r.fill = i

\* The unique constraint on the trade id stops a second copy.
Ingest(i, named) ==
  LET own == Owner(i, named)
  IN IF Ingested(i) THEN UNCHANGED ledger
     ELSE /\ rows' = Append(rows, [fill |-> i, owner |-> own])
          /\ book' = IF own = "external" THEN ApplyExternal(book, i) ELSE book

(***************************************************************************)
(* The exchange and its stream.                                            *)
(***************************************************************************)

Trade(f) ==
  /\ Len(fills) < MaxFills
  /\ fills' = Append(fills, f)
  /\ stream' = Append(stream, Len(fills) + 1)
  /\ UNCHANGED <<ledger, local, sync, faults>>

Made(o) == \E i \in DOMAIN fills : fills[i].order = o

\* The engine's orders trade one lot each, and no order trades after the
\* next one was sent.
EngineFill ==
  \E o \in EngineOrders :
    /\ ~Made(o)
    /\ CASE o \in Entries -> engine = "opening" /\ ~Made("second")
         [] o = "close" -> engine = "closing"
         [] o = "stop" -> engine = "holding"
    /\ Trade([order |-> o, side |-> IF o \in Entries THEN "buy" ELSE "sell",
              qty |-> 1])

ManualFill ==
  \E m \in Manual : Trade([order |-> "manual", side |-> m.side, qty |-> m.qty])

(***************************************************************************)
(* The engine's open and close calls, as far as they write what            *)
(* _classify_exchange_fill reads.                                          *)
(***************************************************************************)

BeginClaim ==
  /\ engine = "idle"
  /\ engine' = "opening"
  /\ claim' = [status |-> "opening", from |-> Now]
  /\ UNCHANGED <<exchange, ledger, logged, trade, sync, faults>>

\* The last order the call worked with is the one its result names.
Reported == IF Made("second") THEN {"second"}
            ELSE IF Made("first") THEN {"first"} ELSE {}

\* The call returns and log_order writes the order and the trade, whose
\* opened_at_ms is the time of writing.
LogOpen ==
  /\ engine = "opening"
  /\ engine' = "logged"
  /\ logged' = logged \cup Reported
  /\ trade' = IF Reported = {} THEN trade ELSE [trade EXCEPT !.opened = Now]
  /\ UNCHANGED <<exchange, ledger, claim, sync, faults>>

\* finish_position_claim(protecting) after a fill; any other outcome ends
\* the claim.
MarkClaim ==
  /\ engine = "logged"
  /\ claim' = [claim EXCEPT !.status = IF trade.opened = 0 THEN "canceled"
                                       ELSE "protecting"]
  /\ engine' = IF trade.opened = 0 THEN "over" ELSE "protecting"
  /\ UNCHANGED <<exchange, ledger, logged, trade, sync, faults>>

\* The protection orders are in place and the claim is finished.
FinishClaim ==
  /\ engine = "protecting"
  /\ claim' = [claim EXCEPT !.status = "filled"]
  /\ engine' = "holding"
  /\ UNCHANGED <<exchange, ledger, logged, trade, sync, faults>>

\* The open call raises: no order row, and the claim ends in error.
OpenRaises ==
  /\ engine = "opening"
  /\ Fails
  /\ claim' = [claim EXCEPT !.status = "error"]
  /\ engine' = "over"
  /\ UNCHANGED <<exchange, ledger, logged, trade, sync>>

\* The process stops and starts again; nothing finishes the claim of a call
\* that was under way.
InCall == engine \in {"opening", "logged", "protecting", "closing"}

Crash ==
  /\ Fails
  /\ engine' = IF InCall THEN "crashed" ELSE engine
  /\ stream' = <<>>
  /\ sync' = NoSync
  /\ UNCHANGED <<fills, ledger, claim, logged, trade>>

BeginClose ==
  /\ engine = "holding" /\ ~Made("stop")
  /\ engine' = "closing"
  /\ UNCHANGED <<exchange, ledger, claim, logged, trade, sync, faults>>

LogClose ==
  /\ engine = "closing" /\ Made("close")
  /\ logged' = logged \cup {"close"}
  /\ trade' = [trade EXCEPT !.closed = Now]
  /\ engine' = "over"
  /\ UNCHANGED <<exchange, ledger, claim, sync, faults>>

\* A triggered stop is booked on the stop's own row, under its algo id.
BookStop ==
  /\ engine = "holding" /\ Made("stop")
  /\ trade' = [trade EXCEPT !.closed = Now]
  /\ engine' = "over"
  /\ UNCHANGED <<exchange, ledger, claim, logged, sync, faults>>

EngineStep == \/ BeginClaim \/ LogOpen \/ MarkClaim \/ FinishClaim
              \/ OpenRaises \/ BeginClose \/ LogClose \/ BookStop

(***************************************************************************)
(* The handler of stream events: _apply_private_event.                     *)
(***************************************************************************)

StreamIngest ==
  /\ stream # <<>>
  /\ stream' = Tail(stream)
  /\ Ingest(Head(stream), TRUE)
  /\ UNCHANGED <<fills, local, sync, faults>>

\* The event is lost on its way, or the database refuses, which is logged and
\* the event is gone.
StreamDrops ==
  /\ stream # <<>>
  /\ Fails
  /\ stream' = Tail(stream)
  /\ UNCHANGED <<fills, ledger, local, sync>>

(***************************************************************************)
(* _sync_exchange_fills.                                                   *)
(***************************************************************************)

\* exchange_fill_watermark: the newest time in the ledger.
Watermark == Max({0} \cup {TimeOf(r.fill) : r \in ToSet(rows)})

Since == IF Watermark # 0 THEN Max({0, Watermark - Overlap})
         ELSE Now - Fallback

SyncBegin ==
  /\ sync.pc = "idle"
  /\ sync' = [NoSync EXCEPT !.pc = "fetch", !.mark = Watermark,
                            !.upto = Len(fills), !.since = Since]
  /\ UNCHANGED <<exchange, ledger, local, faults>>

\* The oldest fill since a time; the next one to come if there is none.
FirstSince(time) == CHOOSE i \in 1..(Len(fills) + 1) :
                      \A j \in DOMAIN fills : TimeOf(j) >= time <=> i <= j

\* One answer of fetch_my_trades: the oldest fills since the cursor.
SyncFetch ==
  /\ sync.pc = "fetch"
  /\ Answers
  /\ LET first == FirstSince(sync.since)
         last == Min({Len(fills), first + Page - 1})
         page == SubSeq([i \in DOMAIN fills |-> i], first, last)
     IN sync' = [sync EXCEPT !.pc = IF page = <<>> THEN "resolve" ELSE "page",
                             !.page = page,
                             !.more = /\ Len(page) = Page
                                      /\ TimeOf(Last(page)) > sync.since]
  /\ UNCHANGED <<exchange, ledger, local>>

\* Mutant: the cursor steps over the moment after the last fill of a page.
NextSkips(i) == TimeOf(i) + 3

NextSince(i) == TimeOf(i) + 1

\* One fill of the page; after the last one a full page is followed by the
\* next.
SyncIngest ==
  /\ sync.pc = "page"
  /\ Answers
  /\ Ingest(Head(sync.page), FALSE)
  /\ sync' = IF Len(sync.page) > 1 THEN [sync EXCEPT !.page = Tail(@)]
             ELSE [sync EXCEPT !.page = <<>>,
                               !.pc = IF sync.more THEN "fetch" ELSE "resolve",
                               !.since = IF sync.more
                                         THEN NextSince(Head(sync.page)) ELSE @]
  /\ UNCHANGED <<exchange, local>>

\* An exception ends the symbol's turn, not the sync.
SyncFails ==
  /\ sync.pc \in {"fetch", "page"}
  /\ Fails
  /\ sync' = [sync EXCEPT !.pc = "resolve", !.ok = FALSE, !.page = <<>>,
                          !.more = FALSE]
  /\ UNCHANGED <<exchange, ledger, local>>

\* resolve_unknown_exchange_fills: classify the deferred fills again and
\* rebuild the archive if one of them turned out to be external.
Reclassified ==
  [k \in DOMAIN rows |->
     IF rows[k].owner # "unknown" THEN rows[k]
     ELSE [rows[k] EXCEPT !.owner = Owner(rows[k].fill, FALSE)]]

SyncResolve ==
  /\ sync.pc = "resolve"
  /\ \/ /\ Answers
        /\ rows' = Reclassified
        /\ book' = IF \E k \in DOMAIN rows : /\ rows[k].owner = "unknown"
                                             /\ Reclassified[k].owner = "external"
                   THEN Replay(Reclassified) ELSE book
     \/ Fails /\ UNCHANGED ledger
  /\ sync' = NoSync
  /\ UNCHANGED <<exchange, local>>

SyncStep == SyncBegin \/ SyncFetch \/ SyncIngest \/ SyncFails \/ SyncResolve

Next == \/ EngineFill \/ ManualFill
        \/ EngineStep \/ Crash
        \/ StreamIngest \/ StreamDrops
        \/ SyncStep

\* The engine's call goes on once it has begun, and so does the periodic task,
\* one of whose steps is always enabled; the exchange need do nothing.
Fairness == /\ []<><<SyncStep>>_vars
            /\ WF_vars(LogOpen) /\ WF_vars(MarkClaim) /\ WF_vars(FinishClaim)

Spec == Init /\ [][Next]_vars /\ Fairness

(***************************************************************************)
(* Properties.                                                             *)
(***************************************************************************)

Rows == [fill : 1..MaxFills, owner : Owners]
ExternalTrades == [dir : {"long", "short"}, at : 1..MaxTime,
                   opened : Nat \ {0}, closed : Nat,
                   status : {"open", "partial", "closed"}, carry : BOOLEAN]
Allocations == [trade : Nat \ {0}, fill : 1..MaxFills,
                role : {"ENTRY", "EXIT", "REVERSAL_ENTRY"}, qty : Nat \ {0}]

\* Each variable keeps the values the code gives it; in particular a trade of
\* the archive is never closed for more than was opened, and is closed
\* exactly when nothing of it is left open.
TypeOK ==
  /\ fills \in Seq(Fills) /\ Len(fills) <= MaxFills
  /\ stream \in Seq(DOMAIN fills)
  /\ rows \in Seq(Rows)
  /\ book.trades \in Seq(ExternalTrades)
  /\ \A t \in DOMAIN book.trades :
       /\ book.trades[t].closed <= book.trades[t].opened
       /\ (book.trades[t].status = "closed")
            <=> (book.trades[t].closed = book.trades[t].opened)
  /\ book.alloc \subseteq Allocations
  /\ claim \in [status : {"none", "opening", "protecting", "filled",
                          "canceled", "error"}, from : 0..MaxTime]
  /\ logged \subseteq EngineOrders
  /\ trade \in [opened : 0..MaxTime, closed : 0..MaxTime]
  /\ engine \in {"idle", "opening", "logged", "protecting", "holding",
                 "closing", "over", "crashed"}
  /\ sync.pc \in {"idle", "fetch", "page", "resolve"}
  /\ sync.mark \in 0..MaxTime /\ sync.upto \in 0..MaxFills
  /\ sync.since \in Int /\ sync.page \in Seq(DOMAIN fills)
  /\ sync.more \in BOOLEAN /\ sync.ok \in BOOLEAN
  /\ faults \in 0..MaxFaults

Lots(allocs) == MapThenSumSet(LAMBDA a : a.qty, allocs)

\* Every fill that is external is in the archive with all its lots, split
\* over at most one closed and one opened trade, and no other fill is: not
\* twice because the stream and the REST sync both brought it, and neither
\* lost nor kept from before by a rebuild.
ArchivedOnce ==
  /\ \A r \in ToSet(rows) :
       Lots({a \in book.alloc : a.fill = r.fill})
         = IF r.owner = "external" THEN fills[r.fill].qty ELSE 0
  /\ \A t \in DOMAIN book.trades :
       LET mine == {a \in book.alloc : a.trade = t}
       IN /\ Lots({a \in mine : a.role = "EXIT"}) = book.trades[t].closed
          /\ Lots({a \in mine : a.role # "EXIT"})
               = IF book.trades[t].carry THEN 0 ELSE book.trades[t].opened
  /\ Cardinality(OpenTrades(book)) <= 1

\* The engine's rows reach the ledger's classification in time: an engine
\* fill is filed as somebody else's trade only if it belongs to an entry
\* order that the open call did not report.
OnlyUnreportedEntriesEscape ==
  \A r \in ToSet(rows) :
    r.owner = "external" /\ OfEngine(r.fill)
      => fills[r.fill].order \in Entries \ logged

\* A sync that met no failure has every fill made before it began, back to
\* Overlap before the newest fill of the ledger, whatever the stream added
\* meanwhile and however many pages it took.
SyncCoversWindow ==
  sync.pc = "resolve" /\ sync.ok =>
    \A i \in 1..sync.upto :
      sync.mark # 0 /\ TimeOf(i) >= sync.mark - Overlap => Ingested(i)

\* Fills held back by an active claim get an owner in the end, unless the
\* process stopped in the middle of the call and left the claim active.
UnknownIsResolved ==
  <>[](engine = "crashed" \/ \A r \in ToSet(rows) : r.owner # "unknown")
=============================================================================
