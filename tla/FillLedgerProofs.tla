-------------------------- MODULE FillLedgerProofs --------------------------
(***************************************************************************)
(* Proofs about FillLedger, for any number of fills, whatever is traded by *)
(* hand, any page, overlap and fallback, and any number of failures: the   *)
(* types, the window that a sync covers, which fills are taken for         *)
(* somebody else's, and what the archive says of those.                    *)
(***************************************************************************)
EXTENDS FillLedger, SequenceTheorems, FiniteSetTheorems, WellFoundedInduction, TLAPS

-----------------------------------------------------------------------------
(* The types of everything but the archive                                  *)

SyncPcs == {"idle", "fetch", "page", "resolve"}
EnginePcs == {"idle", "opening", "logged", "protecting", "holding", "closing",
              "over", "crashed"}
Syncs == [pc : SyncPcs, mark : 0..MaxTime, upto : 0..MaxFills, since : Int,
          page : Seq(1..MaxFills), more : BOOLEAN, ok : BOOLEAN]

FillsTyped  == fills \in Seq(Fills) /\ Len(fills) <= MaxFills
StreamTyped == /\ stream \in Seq(1..MaxFills)
               /\ \A k \in 1..Len(stream) : stream[k] <= Len(fills)
RowsTyped   == /\ rows \in Seq(Rows)
               /\ \A k \in 1..Len(rows) : rows[k].fill <= Len(fills)
LocalTyped  == /\ claim \in [status : {"none", "opening", "protecting", "filled",
                                       "canceled", "error"}, from : 0..MaxTime]
               /\ logged \in SUBSET EngineOrders
               /\ trade \in [opened : 0..MaxTime, closed : 0..MaxTime]
               /\ engine \in EnginePcs
SyncTyped   == /\ sync \in Syncs
               /\ \A k \in 1..Len(sync.page) : sync.page[k] <= Len(fills)
               /\ sync.pc = "page" => sync.page # <<>>
FaultsTyped == faults \in 0..MaxFaults

Typed == /\ FillsTyped /\ StreamTyped /\ RowsTyped /\ LocalTyped /\ SyncTyped
         /\ FaultsTyped

\* a set of numbers that is not empty has a least one
LEMMA LeastNumber ==
  ASSUME NEW S \in SUBSET Nat, S # {}
  PROVE  \E n \in S : \A m \in S : n <= m
<1> DEFINE R == OpToRel(<, Nat)
<1>1. IsWellFoundedOn(R, Nat)
  BY NatLessThanWellFounded
<1>2. \A m, n \in Nat : m < n => <<m, n>> \in R
  BY DEF OpToRel
<1> HIDE DEF R
<1>3. PICK n \in S : \A m \in S : ~(<<m, n>> \in R)
  BY <1>1, WFMin
<1>4. \A m \in S : ~(m < n) /\ m \in Nat /\ n \in Nat
  BY <1>2, <1>3
<1>5. \A m \in S : n <= m
  BY <1>4
<1> QED
  BY <1>3, <1>5

\* and, if it has a bound, a greatest one
LEMMA GreatestNumber ==
  ASSUME NEW b \in Nat, NEW S \in SUBSET (0..b), S # {}
  PROVE  \E n \in S : \A m \in S : n >= m
<1>1. {b - n : n \in S} \in SUBSET Nat /\ {b - n : n \in S} # {}
  <2>1. \A n \in S : b - n \in Nat
    OBVIOUS
  <2>2. PICK n \in S : TRUE
    OBVIOUS
  <2>3. b - n \in {b - m : m \in S}
    BY <2>2
  <2> QED
    BY <2>1, <2>3
<1>2. PICK d \in {b - n : n \in S} : \A m \in {b - n : n \in S} : d <= m
  BY <1>1, LeastNumber
<1>3. PICK n \in S : d = b - n
  BY <1>2
<1>4. \A m \in S : b - n <= b - m
  BY <1>2, <1>3
<1>5. \A m \in S : n >= m
  BY <1>4
<1> QED
  BY <1>3, <1>5

LEMMA MaxIsGreatest ==
  ASSUME NEW b \in Nat, NEW S \in SUBSET (0..b), S # {}
  PROVE  Max(S) \in S /\ \A m \in S : Max(S) >= m
BY GreatestNumber DEF Max

LEMMA MinOfTwo ==
  ASSUME NEW a \in Int, NEW b \in Int
  PROVE  Min({a, b}) = IF a <= b THEN a ELSE b
<1>1. (IF a <= b THEN a ELSE b) \in {a, b}
  OBVIOUS
<1>2. \A x \in {a, b} : (IF a <= b THEN a ELSE b) <= x
  OBVIOUS
<1>3. \A x \in {a, b} : (\A y \in {a, b} : x <= y) => x = IF a <= b THEN a ELSE b
  OBVIOUS
<1> QED
  BY <1>1, <1>2, <1>3 DEF Min

LEMMA MaxOfTwo ==
  ASSUME NEW a \in Int, NEW b \in Int
  PROVE  Max({a, b}) = IF a >= b THEN a ELSE b
<1>1. (IF a >= b THEN a ELSE b) \in {a, b}
  OBVIOUS
<1>2. \A x \in {a, b} : (IF a >= b THEN a ELSE b) >= x
  OBVIOUS
<1>3. \A x \in {a, b} : (\A y \in {a, b} : x >= y) => x = IF a >= b THEN a ELSE b
  OBVIOUS
<1> QED
  BY <1>1, <1>2, <1>3 DEF Max

LEMMA Bounds ==
  /\ MaxFills \in Nat /\ MaxFaults \in Nat /\ MaxTime = 2 * MaxFills + 1
  /\ Page \in Nat \ {0, 1} /\ Overlap \in Nat /\ Fallback \in Nat
BY LedgerAssumption DEF MaxTime

\* a fill of the ledger is one of its rows
LEMMA IngestedRow ==
  ASSUME NEW i
  PROVE  Ingested(i) <=> \E k \in DOMAIN rows : rows[k].fill = i
BY DEF Ingested, ToSet

\* what the sequences hold
LEMMA Elements ==
  ASSUME Typed
  PROVE  /\ \A k \in 1..Len(rows) : rows[k] \in Rows /\ rows[k].fill \in 1..Len(fills)
         /\ \A k \in 1..Len(stream) : stream[k] \in 1..Len(fills)
         /\ \A k \in 1..Len(sync.page) : sync.page[k] \in 1..Len(fills)
         /\ Len(rows) \in Nat /\ Len(stream) \in Nat /\ Len(sync.page) \in Nat
         /\ Len(fills) \in Nat /\ DOMAIN rows = 1..Len(rows) /\ DOMAIN fills = 1..Len(fills)
         /\ sync.page \in Seq(1..MaxFills)
<1>1. /\ rows \in Seq(Rows) /\ stream \in Seq(1..MaxFills) /\ fills \in Seq(Fills)
      /\ sync.page \in Seq(1..MaxFills)
  BY DEF Typed, RowsTyped, StreamTyped, FillsTyped, SyncTyped, Syncs
<1>2. /\ \A k \in 1..Len(rows) : rows[k] \in Rows
      /\ \A k \in 1..Len(stream) : stream[k] \in 1..MaxFills
      /\ \A k \in 1..Len(sync.page) : sync.page[k] \in 1..MaxFills
  BY <1>1, ElementOfSeq
<1>3. /\ Len(rows) \in Nat /\ Len(stream) \in Nat /\ Len(sync.page) \in Nat
      /\ Len(fills) \in Nat /\ DOMAIN rows = 1..Len(rows) /\ DOMAIN fills = 1..Len(fills)
  BY <1>1, LenProperties
<1>4. \A r \in Rows : r.fill \in 1..MaxFills
  BY DEF Rows
<1> QED
  BY <1>1, <1>2, <1>3, <1>4, Bounds DEF Typed, RowsTyped, StreamTyped, SyncTyped

\* the fills grow at the end only
LEMMA TradeTyped ==
  ASSUME Typed, NEW f \in Fills, Trade(f)
  PROVE  /\ Typed'
         /\ Len(fills') = Len(fills) + 1 /\ fills'[Len(fills) + 1] = f
         /\ \A i \in 1..Len(fills) : fills'[i] = fills[i]
         /\ UNCHANGED <<rows, book, claim, logged, trade, engine, sync>>
<1>1. /\ Len(fills) < MaxFills /\ fills' = Append(fills, f)
      /\ stream' = Append(stream, Len(fills) + 1)
      /\ UNCHANGED <<rows, book, claim, logged, trade, engine, sync, faults>>
  BY DEF Trade, ledger, local
<1>2. /\ fills' \in Seq(Fills) /\ Len(fills') = Len(fills) + 1
      /\ fills'[Len(fills) + 1] = f /\ \A i \in 1..Len(fills) : fills'[i] = fills[i]
      /\ Len(fills) \in Nat
  BY <1>1 DEF Typed, FillsTyped
<1>3. FillsTyped'
  BY <1>1, <1>2, Bounds DEF FillsTyped
<1>4. StreamTyped'
  <2>1. Len(fills) + 1 \in 1..MaxFills
    BY <1>1, <1>2, Bounds
  <2>2. /\ stream' \in Seq(1..MaxFills) /\ Len(stream') = Len(stream) + 1
        /\ stream'[Len(stream) + 1] = Len(fills) + 1
        /\ \A k \in 1..Len(stream) : stream'[k] = stream[k]
    BY <1>1, <2>1 DEF Typed, StreamTyped
  <2>3. \A k \in 1..Len(stream') : stream'[k] <= Len(fills')
    BY <1>2, <2>2, Elements
  <2> QED
    BY <2>2, <2>3 DEF StreamTyped
<1>5. RowsTyped'
  BY <1>1, <1>2, Elements DEF Typed, RowsTyped
<1>6. SyncTyped'
  BY <1>1, <1>2, Elements DEF Typed, SyncTyped
<1>7. LocalTyped' /\ FaultsTyped'
  BY <1>1 DEF Typed, LocalTyped, FaultsTyped
<1> QED
  BY <1>1, <1>2, <1>3, <1>4, <1>5, <1>6, <1>7 DEF Typed

\* what the exchange trades is a fill of the model, and of an order that the
\* engine has sent
LEMMA FillStep ==
  ASSUME EngineFill \/ ManualFill
  PROVE  \E f \in Fills : /\ Trade(f)
                          /\ f.order \in Entries => engine = "opening"
                          /\ f.order \in Exits => engine \in {"closing", "holding"}
<1>1. CASE EngineFill
  <2>1. PICK o \in EngineOrders :
          /\ CASE o \in Entries -> engine = "opening" /\ ~Made("second")
               [] o = "close" -> engine = "closing"
               [] o = "stop" -> engine = "holding"
          /\ Trade([order |-> o, side |-> IF o \in Entries THEN "buy" ELSE "sell", qty |-> 1])
    BY <1>1 DEF EngineFill
  <2> DEFINE f == [order |-> o, side |-> IF o \in Entries THEN "buy" ELSE "sell", qty |-> 1]
  <2>2. f \in Fills /\ f.order = o
    BY DEF Fills, Sides
  <2>3. /\ o \in Entries => engine = "opening"
        /\ o \in Exits => engine \in {"closing", "holding"}
    BY <2>1 DEF Entries, Exits
  <2> QED
    BY <2>1, <2>2, <2>3
<1>2. CASE ManualFill
  <2>1. PICK m \in Manual : Trade([order |-> "manual", side |-> m.side, qty |-> m.qty])
    BY <1>2 DEF ManualFill
  <2> DEFINE f == [order |-> "manual", side |-> m.side, qty |-> m.qty]
  <2>2. f \in Fills
    BY LedgerAssumption DEF Fills, Sides
  <2>3. f.order \notin Entries /\ f.order \notin Exits
    BY DEF Entries, Exits
  <2> QED
    BY <2>1, <2>2, <2>3
<1> QED
  BY <1>1, <1>2

\* the present lies between the fills and has its place in time
LEMMA NowTyped ==
  ASSUME Typed
  PROVE  Now \in 1..MaxTime /\ Len(fills) \in 0..MaxFills
BY Bounds DEF Typed, FillsTyped, Now

LEMMA FaultStep ==
  ASSUME FaultsTyped, Fails \/ Answers
  PROVE  FaultsTyped'
BY Bounds DEF FaultsTyped, Fails, Answers

\* the engine's calls touch the rows of the calls only
LEMMA EngineTyped ==
  ASSUME Typed, EngineStep
  PROVE  Typed' /\ UNCHANGED <<fills, stream, rows, book, sync>>
<1>1. UNCHANGED <<fills, stream, rows, book, sync>> /\ (Fails \/ Answers)
  BY DEF EngineStep, BeginClaim, LogOpen, MarkClaim, FinishClaim, OpenRaises, BeginClose,
         LogClose, BookStop, exchange, ledger, Answers
<1>2. LocalTyped'
  <2> USE DEF Typed, LocalTyped, EnginePcs
  <2>1. CASE BeginClaim
    BY <2>1, NowTyped DEF BeginClaim
  <2>2. CASE LogOpen
    BY <2>2, NowTyped DEF LogOpen, Reported, EngineOrders, Entries
  <2>3. CASE MarkClaim
    BY <2>3 DEF MarkClaim
  <2>4. CASE FinishClaim \/ OpenRaises \/ BeginClose
    BY <2>4 DEF FinishClaim, OpenRaises, BeginClose
  <2>5. CASE LogClose \/ BookStop
    BY <2>5, NowTyped DEF LogClose, BookStop, EngineOrders, Exits
  <2> QED
    BY <2>1, <2>2, <2>3, <2>4, <2>5 DEF EngineStep
<1>3. FillsTyped' /\ StreamTyped' /\ RowsTyped' /\ SyncTyped' /\ FaultsTyped'
  BY <1>1, FaultStep DEF Typed, FillsTyped, StreamTyped, RowsTyped, SyncTyped
<1> QED
  BY <1>1, <1>2, <1>3 DEF Typed

LEMMA NoSyncTyped == /\ NoSync \in Syncs /\ NoSync.pc = "idle" /\ NoSync.page = <<>>
                     /\ NoSync.ok
BY Bounds, EmptySeq DEF NoSync, Syncs, SyncPcs

LEMMA CrashTyped ==
  ASSUME Typed, Crash
  PROVE  Typed' /\ sync' = NoSync /\ UNCHANGED <<fills, rows, book, claim, logged, trade>>
<1>1. /\ UNCHANGED <<fills, rows, book, claim, logged, trade>> /\ Fails
      /\ stream' = <<>> /\ sync' = NoSync
      /\ engine' \in {"crashed", engine}
  BY DEF Crash, ledger
<1>2. StreamTyped'
  BY <1>1, EmptySeq DEF StreamTyped
<1>3. SyncTyped'
  BY <1>1, NoSyncTyped DEF SyncTyped
<1>4. FillsTyped' /\ RowsTyped' /\ LocalTyped' /\ FaultsTyped'
  BY <1>1, FaultStep DEF Typed, FillsTyped, RowsTyped, LocalTyped, EnginePcs
<1> QED
  BY <1>1, <1>2, <1>3, <1>4 DEF Typed

\* one transaction adds the fill, if it is not there, and nothing else
LEMMA IngestTyped ==
  ASSUME Typed, NEW i \in 1..Len(fills), NEW named, Ingest(i, named), UNCHANGED fills
  PROVE  /\ RowsTyped' /\ Ingested(i)'
         /\ \A j : Ingested(j) => Ingested(j)'
         /\ \A r : r \in ToSet(rows') =>
              r \in ToSet(rows) \/ r = [fill |-> i, owner |-> Owner(i, named)]
<1>1. CASE Ingested(i)
  <2>1. rows' = rows
    BY <1>1 DEF Ingest, ledger
  <2> QED
    BY <1>1, <2>1 DEF Typed, RowsTyped, Ingested
<1>2. CASE ~Ingested(i)
  <2> DEFINE r == [fill |-> i, owner |-> Owner(i, named)]
  <2>1. rows' = Append(rows, r)
    BY <1>2 DEF Ingest
  <2>2. r \in Rows /\ r.fill = i
    BY Bounds DEF Rows, Owner, Owners, Typed, FillsTyped
  <2> HIDE DEF r
  <2>3. /\ rows' \in Seq(Rows) /\ Len(rows') = Len(rows) + 1 /\ rows'[Len(rows) + 1] = r
        /\ \A k \in 1..Len(rows) : rows'[k] = rows[k]
        /\ DOMAIN rows' = 1..(Len(rows) + 1)
    BY <2>1, <2>2 DEF Typed, RowsTyped
  <2>4. RowsTyped'
    BY <2>2, <2>3, Elements DEF RowsTyped
  <2>5. \A j : Ingested(j) => Ingested(j)'
    BY <2>3, IngestedRow, Elements DEF Ingested, ToSet
  <2>6. Ingested(i)'
    <3>1. r \in ToSet(rows')
      <4>1. Len(rows) + 1 \in DOMAIN rows'
        BY <2>3, Elements
      <4> QED
        BY <2>3, <4>1 DEF ToSet
    <3> QED
      BY <2>2, <3>1 DEF Ingested
  <2>7. \A q : q \in ToSet(rows') => q \in ToSet(rows) \/ q = r
    BY <2>3, Elements DEF ToSet
  <2> QED
    BY <2>4, <2>5, <2>6, <2>7 DEF r
<1> QED
  BY <1>1, <1>2

LEMMA StreamStepTyped ==
  ASSUME Typed, StreamIngest \/ StreamDrops
  PROVE  Typed' /\ UNCHANGED <<fills, claim, logged, trade, engine, sync>>
         /\ (\A j : Ingested(j) => Ingested(j)')
<1>1. /\ UNCHANGED <<fills, claim, logged, trade, engine, sync>> /\ (Fails \/ Answers)
      /\ stream # <<>> /\ stream' = Tail(stream)
  BY DEF StreamIngest, StreamDrops, local, Answers
<1>2. /\ Len(stream) \in Nat \ {0} /\ Head(stream) = stream[1] /\ Len(stream') = Len(stream) - 1
      /\ stream' \in Seq(1..MaxFills)
      /\ \A k \in 1..Len(stream') : stream'[k] = stream[k + 1]
  BY <1>1 DEF Typed, StreamTyped
<1>3. StreamTyped'
  BY <1>1, <1>2, Elements DEF StreamTyped
<1>4. Head(stream) \in 1..Len(fills)
  BY <1>2, Elements
<1>5. RowsTyped' /\ (\A j : Ingested(j) => Ingested(j)')
  <2>1. CASE StreamIngest
    BY <1>1, <1>4, <2>1, IngestTyped DEF StreamIngest
  <2>2. CASE StreamDrops
    BY <1>1, <2>2 DEF StreamDrops, ledger, Typed, RowsTyped, Ingested
  <2> QED
    BY <2>1, <2>2
<1>6. FillsTyped' /\ SyncTyped' /\ LocalTyped' /\ FaultsTyped'
  BY <1>1, FaultStep DEF Typed, FillsTyped, SyncTyped, LocalTyped
<1> QED
  BY <1>1, <1>3, <1>5, <1>6 DEF Typed

\* the watermark is a moment of the run
LEMMA WatermarkTyped ==
  ASSUME Typed
  PROVE  Watermark \in 0..MaxTime
<1> DEFINE S == {0} \cup {TimeOf(r.fill) : r \in ToSet(rows)}
<1>1. MaxTime \in Nat
  BY Bounds
<1>2. \A r \in ToSet(rows) : r.fill \in 1..MaxFills
  BY Elements DEF ToSet, Rows
<1>3. S \in SUBSET (0..MaxTime) /\ S # {}
  BY <1>2, Bounds DEF TimeOf
<1> HIDE DEF S
<1>4. Max(S) \in S
  BY <1>1, <1>3, MaxIsGreatest
<1> QED
  BY <1>3, <1>4 DEF Watermark, S

LEMMA SinceTyped ==
  ASSUME Typed
  PROVE  /\ Since \in Int
         /\ Watermark # 0 => Since = IF Watermark >= Overlap THEN Watermark - Overlap ELSE 0
<1>1. Watermark \in Int /\ Overlap \in Int /\ Fallback \in Int /\ Now \in Int
  BY WatermarkTyped, NowTyped, Bounds
<1>2. Max({0, Watermark - Overlap}) = IF 0 >= Watermark - Overlap THEN 0 ELSE Watermark - Overlap
  BY <1>1, MaxOfTwo
<1> QED
  BY <1>1, <1>2 DEF Since

\* the fills from a time on are those from FirstSince on
LEMMA FirstSinceIsFirst ==
  ASSUME Typed, NEW time \in Int
  PROVE  /\ FirstSince(time) \in 1..(Len(fills) + 1)
         /\ \A j \in 1..Len(fills) : TimeOf(j) >= time <=> FirstSince(time) <= j
<1> DEFINE n == Len(fills)
           S == {j \in 1..n : 2 * j >= time} \cup {n + 1}
<1>1. n \in Nat /\ DOMAIN fills = 1..n
  BY Elements
<1>2. S \in SUBSET Nat /\ S # {}
  BY <1>1
<1>3. PICK i \in S : \A m \in S : i <= m
  BY <1>2, LeastNumber
<1>4. i \in 1..(n + 1) /\ \A j \in 1..n : 2 * j >= time => i <= j
  BY <1>1, <1>3
<1>5. \A j \in 1..n : i <= j => 2 * j >= time
  BY <1>1, <1>3, <1>4
<1>6. \E k \in 1..(n + 1) : \A j \in DOMAIN fills : TimeOf(j) >= time <=> k <= j
  BY <1>1, <1>4, <1>5 DEF TimeOf
<1> QED
  BY <1>1, <1>6 DEF FirstSince

LEMMA SubSeqElements ==
  ASSUME NEW S, NEW s, NEW m \in Int, NEW n \in Int, \A i \in m..n : s[i] \in S,
         NEW k \in 1..(n - m + 1)
  PROVE  SubSeq(s, m, n)[k] = s[m + k - 1]
BY SubSeqProperties

\* what one answer of the exchange holds
LEMMA PageTyped ==
  ASSUME Typed, NEW first \in 1..(Len(fills) + 1),
         NEW last, last = Min({Len(fills), first + Page - 1}),
         NEW page, page = SubSeq([i \in DOMAIN fills |-> i], first, last)
  PROVE  /\ page \in Seq(1..MaxFills) /\ Len(page) = last - first + 1
         /\ last \in Nat /\ last <= Len(fills) /\ first <= last + 1
         /\ last < Len(fills) => last = first + Page - 1
         /\ \A k \in 1..Len(page) : page[k] = first + k - 1
<1>1. Len(fills) \in Nat /\ Len(fills) <= MaxFills /\ DOMAIN fills = 1..Len(fills)
  BY Elements DEF Typed, FillsTyped
<1>2. last = IF Len(fills) <= first + Page - 1 THEN Len(fills) ELSE first + Page - 1
  BY <1>1, Bounds, MinOfTwo
<1>3. /\ last \in Nat /\ last <= Len(fills) /\ first <= last + 1
      /\ last < Len(fills) => last = first + Page - 1
  BY <1>1, <1>2, Bounds
<1> DEFINE all == [i \in DOMAIN fills |-> i]
<1>4. \A i \in first..last : all[i] = i /\ all[i] \in 1..MaxFills
  BY <1>1, <1>3, Bounds
<1> HIDE DEF all
<1>5. /\ page \in Seq(1..MaxFills)
      /\ Len(page) = IF first <= last THEN last - first + 1 ELSE 0
      /\ \A k \in 1..(last - first + 1) : page[k] = all[first + k - 1]
  <2>1. page = SubSeq(all, first, last) /\ first \in Int /\ last \in Int
    BY <1>3 DEF all
  <2>2. \A i \in first..last : all[i] \in 1..MaxFills
    BY <1>4
  <2>3. SubSeq(all, first, last) \in Seq(1..MaxFills)
    BY <2>1, <2>2, SubSeqProperties
  <2>4. Len(SubSeq(all, first, last)) = IF first <= last THEN last - first + 1 ELSE 0
    BY <2>1, <2>2, SubSeqProperties
  <2>5. \A k \in 1..(last - first + 1) : SubSeq(all, first, last)[k] = all[first + k - 1]
    BY <2>1, <2>2, SubSeqElements
  <2> QED
    BY <2>1, <2>3, <2>4, <2>5
<1>6. Len(page) = last - first + 1
  BY <1>3, <1>5
<1>7. \A k \in 1..Len(page) : first + k - 1 \in first..last
  BY <1>3, <1>6
<1>8. \A k \in 1..Len(page) : page[k] = first + k - 1
  BY <1>4, <1>5, <1>6, <1>7
<1> QED
  BY <1>3, <1>5, <1>6, <1>8

\* a step of the compensation: its place, and what it leaves alone
LEMMA SyncFrame ==
  ASSUME Typed, SyncStep, sync' \in Syncs, RowsTyped',
         \A k \in 1..Len(sync'.page) : sync'.page[k] <= Len(fills),
         sync'.pc = "page" => sync'.page # <<>>
  PROVE  Typed'
<1>1. UNCHANGED <<fills, stream, claim, logged, trade, engine>> /\ (Fails \/ Answers)
  BY DEF SyncStep, SyncBegin, SyncFetch, SyncIngest, SyncFails, SyncResolve, exchange, local,
         Answers
<1>2. SyncTyped'
  BY <1>1 DEF SyncTyped
<1>3. FillsTyped' /\ StreamTyped' /\ LocalTyped' /\ FaultsTyped'
  BY <1>1, FaultStep DEF Typed, FillsTyped, StreamTyped, LocalTyped
<1> QED
  BY <1>2, <1>3 DEF Typed

\* Fill i is one the compensation must have found: it was made before it
\* began and within Overlap of the newest fill of the ledger.
Due(i) == i \in 1..sync.upto /\ sync.mark # 0 /\ TimeOf(i) >= sync.mark - Overlap

\* A due fill is in the ledger, in the page at hand or on a later page.
Window ==
  /\ sync.upto <= Len(fills)
  /\ sync.ok /\ sync.pc = "fetch" =>
       \A i : Due(i) => Ingested(i) \/ TimeOf(i) >= sync.since
  /\ sync.ok /\ sync.pc = "page" =>
       /\ \A k \in 1..Len(sync.page) : sync.page[k] = sync.page[1] + k - 1
       /\ \A i : Due(i) => \/ Ingested(i)
                           \/ /\ i >= sync.page[1]
                              /\ sync.more \/ i <= sync.page[Len(sync.page)]
  /\ sync.ok /\ sync.pc = "resolve" => \A i : Due(i) => Ingested(i)

\* the window survives what leaves the compensation alone and the ledger whole
LEMMA WindowKept ==
  ASSUME Typed, Window, sync' = sync, Len(fills') >= Len(fills),
         Len(fills) \in Int, Len(fills') \in Int,
         \A j : Ingested(j) => Ingested(j)'
  PROVE  Window'
<1>1. \A i : Due(i)' <=> Due(i)
  BY DEF Due, TimeOf
<1>2. sync.upto \in Int
  BY Bounds DEF Typed, SyncTyped, Syncs
<1> QED
  BY <1>1, <1>2 DEF Window, TimeOf

LEMMA BeginKeeps ==
  ASSUME Typed, SyncBegin
  PROVE  Typed' /\ Window' /\ UNCHANGED <<fills, rows, book, claim, logged, trade, engine>>
<1>1. /\ UNCHANGED <<fills, rows, book, claim, logged, trade, engine>>
      /\ sync' = [NoSync EXCEPT !.pc = "fetch", !.mark = Watermark,
                                !.upto = Len(fills), !.since = Since]
  BY DEF SyncBegin, exchange, ledger, local
<1>2. /\ Watermark \in 0..MaxTime /\ Len(fills) \in 0..MaxFills /\ Since \in Int
      /\ Watermark # 0 => Since = IF Watermark >= Overlap THEN Watermark - Overlap ELSE 0
  BY WatermarkTyped, SinceTyped, NowTyped
<1>3. /\ sync' \in Syncs /\ sync'.pc = "fetch" /\ sync'.page = <<>>
      /\ sync'.mark = Watermark /\ sync'.upto = Len(fills) /\ sync'.since = Since
  BY <1>1, <1>2, NoSyncTyped DEF Syncs, SyncPcs
<1>4. Typed'
  <2>1. RowsTyped'
    BY <1>1 DEF Typed, RowsTyped
  <2> QED
    BY <1>3, <2>1, EmptySeq, SyncFrame DEF SyncStep
<1>5. Window'
  <2>1. \A i : Due(i)' => TimeOf(i) >= Since
    BY <1>2, <1>3, Bounds DEF Due, TimeOf
  <2> QED
    BY <1>1, <1>2, <1>3, <2>1 DEF Window, TimeOf
<1> QED
  BY <1>1, <1>4, <1>5

LEMMA FetchKeeps ==
  ASSUME Typed, Window, SyncFetch
  PROVE  Typed' /\ Window' /\ UNCHANGED <<fills, rows, book, claim, logged, trade, engine>>
<1> DEFINE first == FirstSince(sync.since)
           last == Min({Len(fills), first + Page - 1})
           page == SubSeq([i \in DOMAIN fills |-> i], first, last)
           more == Len(page) = Page /\ TimeOf(Last(page)) > sync.since
<1>1. /\ UNCHANGED <<fills, rows, book, claim, logged, trade, engine>>
      /\ sync.pc = "fetch"
      /\ sync' = [sync EXCEPT !.pc = IF page = <<>> THEN "resolve" ELSE "page",
                              !.page = page, !.more = more]
  BY DEF SyncFetch, exchange, ledger, local
<1>2. /\ sync.since \in Int /\ sync \in Syncs /\ Len(fills) \in Nat
  BY Elements DEF Typed, SyncTyped, Syncs
<1>3. /\ first \in 1..(Len(fills) + 1)
      /\ \A j \in 1..Len(fills) : TimeOf(j) >= sync.since <=> first <= j
  BY <1>2, FirstSinceIsFirst
<1>4. /\ page \in Seq(1..MaxFills) /\ Len(page) = last - first + 1
      /\ last \in Nat /\ last <= Len(fills) /\ first <= last + 1
      /\ last < Len(fills) => last = first + Page - 1
      /\ \A k \in 1..Len(page) : page[k] = first + k - 1
  BY <1>3, PageTyped
<1>5. more \in BOOLEAN
  OBVIOUS
<1> HIDE DEF first, last, page
<1>6. page = <<>> <=> last = first - 1
  <2>1. page = <<>> <=> Len(page) = 0
    BY <1>4
  <2> QED
    BY <1>2, <1>3, <1>4, <2>1
<1>7. last < Len(fills) => more /\ page # <<>>
  <2> SUFFICES ASSUME last < Len(fills) PROVE more /\ page # <<>>
    OBVIOUS
  <2>1. Len(page) = Page /\ last > first
    BY <1>3, <1>4, Bounds
  <2>2. page[Len(page)] = last
    <3>1. Len(page) \in 1..Len(page) /\ first + Len(page) - 1 = last
      BY <1>3, <1>4, <2>1, Bounds
    <3> QED
      BY <1>4, <3>1
  <2>3. TimeOf(first) >= sync.since
    BY <1>3, <1>4, <2>1
  <2> QED
    <3>1. TimeOf(page[Len(page)]) > sync.since
      BY <1>2, <1>3, <1>4, <2>1, <2>2, <2>3 DEF TimeOf
    <3>2. page # <<>>
      BY <1>3, <1>4, <1>6, <2>1
    <3> QED
      BY <2>1, <3>1, <3>2 DEF Last
<1> HIDE DEF more
<1>8. /\ sync' \in Syncs /\ sync'.pc = (IF page = <<>> THEN "resolve" ELSE "page")
      /\ sync'.page = page /\ sync'.more = more
      /\ sync'.mark = sync.mark /\ sync'.upto = sync.upto /\ sync'.ok = sync.ok
  BY <1>1, <1>2, <1>4, <1>5 DEF Syncs, SyncPcs
<1>9. Typed'
  <2>1. RowsTyped'
    BY <1>1 DEF Typed, RowsTyped
  <2>2. \A k \in 1..Len(page) : page[k] <= Len(fills)
    BY <1>2, <1>3, <1>4
  <2> QED
    BY <1>8, <2>1, <2>2, SyncFrame DEF SyncStep
<1>10. Window'
  <2>1. /\ \A i : Due(i)' <=> Due(i)
        /\ \A i : Ingested(i)' <=> Ingested(i)
    BY <1>1, <1>8 DEF Due, Ingested, TimeOf
  <2>2. \A i : Due(i) => i \in 1..Len(fills)
    BY <1>2 DEF Window, Due, Syncs
  <2>3. sync.ok => \A i : Due(i) => Ingested(i) \/ first <= i
    BY <1>1, <1>3, <2>2 DEF Window
  <2>4. CASE page = <<>>
    <3>1. last = Len(fills) /\ first = Len(fills) + 1
      BY <1>2, <1>3, <1>4, <1>6, <1>7, <2>4
    <3> QED
      BY <1>1, <1>2, <1>8, <2>1, <2>2, <2>3, <2>4, <3>1 DEF Window
  <2>5. CASE page # <<>>
    <3>1. Len(page) \in Nat \ {0} /\ page[1] = first /\ page[Len(page)] = last
      BY <1>2, <1>3, <1>4, <1>6, <2>5
    <3>2. \A i : Due(i) => more \/ i <= last
      BY <1>2, <1>4, <1>7, <2>2
    <3>3. \A k \in 1..Len(page) : page[k] = page[1] + k - 1
      BY <1>4, <3>1
    <3> QED
      BY <1>1, <1>8, <2>1, <2>3, <2>5, <3>1, <3>2, <3>3 DEF Window
  <2> QED
    BY <2>4, <2>5
<1> QED
  BY <1>1, <1>9, <1>10

LEMMA HeadAndTail ==
  ASSUME NEW S, NEW s \in Seq(S), s # <<>>
  PROVE  /\ Len(s) \in Nat \ {0} /\ Head(s) = s[1]
         /\ Tail(s) \in Seq(S) /\ Len(Tail(s)) = Len(s) - 1
         /\ \A k \in 1..(Len(s) - 1) : Tail(s)[k] = s[k + 1]
         /\ Tail(s) = <<>> <=> Len(s) = 1
<1>1. /\ Len(s) \in Nat \ {0} /\ Head(s) = s[1]
      /\ Tail(s) \in Seq(S) /\ Len(Tail(s)) = Len(s) - 1
  OBVIOUS
<1>2. \A k \in 1..(Len(s) - 1) : Tail(s)[k] = s[k + 1]
  OBVIOUS
<1>3. Tail(s) = <<>> <=> Len(Tail(s)) = 0
  BY <1>1, EmptySeq
<1> QED
  BY <1>1, <1>2, <1>3

LEMMA SyncIngestKeeps ==
  ASSUME Typed, Window, SyncIngest
  PROVE  Typed' /\ Window' /\ UNCHANGED <<fills, claim, logged, trade, engine>>
<1>0. PICK page, h : page = sync.page /\ h = Head(page)
  OBVIOUS
<1>1. /\ UNCHANGED <<fills, claim, logged, trade, engine>> /\ sync.pc = "page"
      /\ Ingest(h, FALSE)
      /\ sync' = IF Len(page) > 1 THEN [sync EXCEPT !.page = Tail(@)]
                 ELSE [sync EXCEPT !.page = <<>>,
                                   !.pc = IF sync.more THEN "fetch" ELSE "resolve",
                                   !.since = IF sync.more THEN NextSince(h) ELSE @]
  BY <1>0 DEF SyncIngest, exchange, local
<1>2. /\ sync \in Syncs /\ page \in Seq(1..MaxFills) /\ page # <<>> /\ Len(fills) \in Nat
      /\ \A k \in 1..Len(page) : page[k] \in 1..Len(fills)
  BY <1>0, <1>1, Elements DEF Typed, SyncTyped
<1>3. /\ Len(page) \in Nat \ {0} /\ h = page[1] /\ h \in 1..Len(fills)
      /\ Tail(page) \in Seq(1..MaxFills) /\ Len(Tail(page)) = Len(page) - 1
      /\ \A k \in 1..(Len(page) - 1) : Tail(page)[k] = page[k + 1]
      /\ Tail(page) = <<>> <=> Len(page) = 1
  <2>1. /\ Len(page) \in Nat \ {0} /\ Head(page) = page[1]
        /\ Tail(page) \in Seq(1..MaxFills) /\ Len(Tail(page)) = Len(page) - 1
        /\ \A k \in 1..(Len(page) - 1) : Tail(page)[k] = page[k + 1]
        /\ Tail(page) = <<>> <=> Len(page) = 1
    BY <1>2, HeadAndTail
  <2>2. h \in 1..Len(fills)
    BY <1>0, <1>2, <2>1
  <2> QED
    BY <1>0, <2>1, <2>2
<1>4. RowsTyped' /\ Ingested(h)' /\ (\A j : Ingested(j) => Ingested(j)')
  <2>1. h \in 1..Len(fills) /\ Ingest(h, FALSE) /\ UNCHANGED fills
    BY <1>1, <1>3
  <2> QED
    BY <2>1, IngestTyped
<1>5. CASE Len(page) > 1
  <2>1. /\ sync' \in Syncs /\ sync'.page = Tail(page) /\ sync'.pc = "page"
        /\ sync'.mark = sync.mark /\ sync'.upto = sync.upto /\ sync'.ok = sync.ok
        /\ sync'.more = sync.more
    BY <1>0, <1>1, <1>2, <1>3, <1>5 DEF Syncs
  <2>2. Typed'
    <3>1. \A k \in 1..Len(Tail(page)) : Tail(page)[k] <= Len(fills)
      BY <1>2, <1>3
    <3>2. Tail(page) # <<>>
      BY <1>3, <1>5, <1>2
    <3> QED
      BY <1>4, <2>1, <3>1, <3>2, SyncFrame DEF SyncStep
  <2>3. Window'
    <3>1. \A i : Due(i)' <=> Due(i)
      BY <2>1 DEF Due, TimeOf
    <3>2. CASE ~sync.ok
      BY <1>1, <2>1, <3>2 DEF Window
    <3>3. CASE sync.ok
      <4>1. /\ \A k \in 1..Len(page) : page[k] = h + k - 1
            /\ \A i : Due(i) => \/ Ingested(i)
                                \/ i >= h /\ (sync.more \/ i <= page[Len(page)])
        <5>1. /\ \A k \in 1..Len(sync.page) : sync.page[k] = sync.page[1] + k - 1
              /\ \A i : Due(i) =>
                   \/ Ingested(i)
                   \/ i >= sync.page[1] /\ (sync.more \/ i <= sync.page[Len(sync.page)])
          BY <1>1, <3>3 DEF Window
        <5>2. sync.page = page /\ page[1] = h
          BY <1>0, <1>3
        <5>3. /\ \A k \in 1..Len(page) : page[k] = page[1] + k - 1
              /\ \A i : Due(i) => \/ Ingested(i)
                                  \/ i >= page[1] /\ (sync.more \/ i <= page[Len(page)])
          BY <5>1, <5>2
        <5> QED
          BY <5>2, <5>3
      <4>2. \A k \in 1..Len(Tail(page)) : Tail(page)[k] = h + k
        BY <1>2, <1>3, <4>1
      <4>3. Tail(page)[1] = h + 1 /\ Tail(page)[Len(Tail(page))] = page[Len(page)]
        BY <1>2, <1>3, <1>5, <4>1, <4>2
      <4>4. \A i : Due(i) => i \in Nat
        BY <1>2 DEF Due, Syncs
      <4>5. \A i : Due(i) => \/ Ingested(i)'
                             \/ i >= h + 1 /\ (sync.more \/ i <= page[Len(page)])
        BY <1>2, <1>3, <1>4, <4>1, <4>4
      <4>6. \A k \in 1..Len(Tail(page)) : Tail(page)[k] = Tail(page)[1] + k - 1
        BY <1>3, <4>2, <4>3
      <4>7. \A i : Due(i)' =>
              \/ Ingested(i)'
              \/ /\ i >= Tail(page)[1]
                 /\ sync.more \/ i <= Tail(page)[Len(Tail(page))]
        BY <3>1, <4>3, <4>5
      <4>8. sync'.upto <= Len(fills')
        BY <1>1, <2>1 DEF Window
      <4> QED
        BY <2>1, <4>6, <4>7, <4>8 DEF Window
    <3> QED
      BY <3>2, <3>3
  <2> QED
    BY <1>1, <2>2, <2>3
<1>6. CASE ~(Len(page) > 1)
  <2>1. sync' = [sync EXCEPT !.page = <<>>,
                             !.pc = IF sync.more THEN "fetch" ELSE "resolve",
                             !.since = IF sync.more THEN NextSince(h) ELSE @]
    BY <1>1, <1>6
  <2>2. NextSince(h) \in Int /\ <<>> \in Seq(1..MaxFills)
    BY <1>2, <1>3, EmptySeq DEF NextSince, TimeOf
  <2>3. /\ sync' \in Syncs /\ sync'.page = <<>>
        /\ sync'.pc = (IF sync.more THEN "fetch" ELSE "resolve")
        /\ sync'.mark = sync.mark /\ sync'.upto = sync.upto /\ sync'.ok = sync.ok
        /\ sync.more => sync'.since = NextSince(h)
    BY <1>2, <2>1, <2>2 DEF Syncs, SyncPcs
  <2>4. Typed'
    BY <1>4, <2>3, EmptySeq, SyncFrame DEF SyncStep
  <2>5. Window'
    <3>1. \A i : Due(i)' <=> Due(i)
      BY <2>3 DEF Due, TimeOf
    <3>2. CASE ~sync.ok
      BY <1>1, <2>3, <3>2 DEF Window
    <3>3. CASE sync.ok
      <4>1. \A i : Due(i) => Ingested(i) \/ (i >= h /\ (sync.more \/ i <= h))
        BY <1>0, <1>1, <1>3, <1>6, <3>3 DEF Window
      <4>2. \A i : Due(i) => i \in Nat
        BY <1>2 DEF Due, Syncs
      <4>3. \A i : Due(i) => Ingested(i)' \/ (sync.more /\ i >= h + 1)
        BY <1>2, <1>3, <1>4, <4>1, <4>2
      <4>4. \A i : Due(i) => Ingested(i)' \/ (sync.more /\ TimeOf(i) >= NextSince(h))
        BY <1>2, <1>3, <4>2, <4>3 DEF NextSince, TimeOf
      <4> QED
        BY <1>1, <2>3, <3>1, <4>4 DEF Window, TimeOf
    <3> QED
      BY <3>2, <3>3
  <2> QED
    BY <1>1, <2>4, <2>5
<1> QED
  BY <1>5, <1>6

LEMMA SyncFailsKeeps ==
  ASSUME Typed, Window, SyncFails
  PROVE  Typed' /\ Window' /\ UNCHANGED <<fills, rows, book, claim, logged, trade, engine>>
<1>1. /\ UNCHANGED <<fills, rows, book, claim, logged, trade, engine>>
      /\ sync' = [sync EXCEPT !.pc = "resolve", !.ok = FALSE, !.page = <<>>, !.more = FALSE]
  BY DEF SyncFails, exchange, ledger, local
<1>2. /\ sync' \in Syncs /\ sync'.page = <<>> /\ sync'.pc = "resolve" /\ ~sync'.ok
      /\ sync'.upto = sync.upto
  BY <1>1, EmptySeq DEF Typed, SyncTyped, Syncs, SyncPcs
<1>3. Typed'
  <2>1. RowsTyped'
    BY <1>1 DEF Typed, RowsTyped
  <2> QED
    BY <1>2, <2>1, EmptySeq, SyncFrame DEF SyncStep
<1> QED
  BY <1>1, <1>2, <1>3 DEF Window

\* classifying again changes owners only, and only those that are unknown
LEMMA ReclassifiedTyped ==
  ASSUME Typed
  PROVE  /\ Reclassified \in Seq(Rows) /\ Len(Reclassified) = Len(rows)
         /\ DOMAIN Reclassified = DOMAIN rows
         /\ \A k \in 1..Len(rows) :
              /\ Reclassified[k].fill = rows[k].fill
              /\ \/ Reclassified[k] = rows[k]
                 \/ Reclassified[k].owner = Owner(rows[k].fill, FALSE)
<1>1. /\ \A k \in 1..Len(rows) : rows[k] \in Rows
      /\ DOMAIN rows = 1..Len(rows) /\ Len(rows) \in Nat
  BY Elements
<1> DEFINE again(k) == IF rows[k].owner # "unknown" THEN rows[k]
                       ELSE [rows[k] EXCEPT !.owner = Owner(rows[k].fill, FALSE)]
<1>2. \A k \in 1..Len(rows) :
        /\ again(k) \in Rows /\ again(k).fill = rows[k].fill
        /\ again(k) = rows[k] \/ again(k).owner = Owner(rows[k].fill, FALSE)
  <2> SUFFICES ASSUME NEW k \in 1..Len(rows)
               PROVE  /\ again(k) \in Rows /\ again(k).fill = rows[k].fill
                      /\ again(k) = rows[k] \/ again(k).owner = Owner(rows[k].fill, FALSE)
    OBVIOUS
  <2>1. Owner(rows[k].fill, FALSE) \in Owners /\ rows[k] \in Rows
    BY <1>1 DEF Owner, Owners
  <2> QED
    BY <2>1 DEF Rows
<1>3. Reclassified = [k \in 1..Len(rows) |-> again(k)]
  BY <1>1 DEF Reclassified
<1> HIDE DEF again
<1>4. Reclassified \in [1..Len(rows) -> Rows]
  BY <1>2, <1>3
<1>5. Reclassified \in Seq(Rows) /\ Len(Reclassified) = Len(rows)
  BY <1>1, <1>4
<1> QED
  BY <1>1, <1>2, <1>3, <1>5

LEMMA SyncResolveKeeps ==
  ASSUME Typed, SyncResolve
  PROVE  /\ Typed' /\ Window' /\ UNCHANGED <<fills, claim, logged, trade, engine>>
         /\ rows' = rows \/ rows' = Reclassified
<1>1. /\ UNCHANGED <<fills, claim, logged, trade, engine>> /\ sync' = NoSync
      /\ rows' = rows \/ rows' = Reclassified
  BY DEF SyncResolve, exchange, local, ledger
<1>2. RowsTyped'
  <2>1. CASE rows' = rows
    BY <1>1, <2>1 DEF Typed, RowsTyped
  <2>2. CASE rows' = Reclassified
    <3>1. rows' \in Seq(Rows) /\ Len(rows') = Len(rows) /\ fills' = fills
      BY <1>1, <2>2, ReclassifiedTyped
    <3>2. \A k \in 1..Len(rows) : rows'[k].fill = rows[k].fill
      BY <2>2, ReclassifiedTyped
    <3> QED
      BY <3>1, <3>2, Elements DEF RowsTyped
  <2> QED
    BY <1>1, <2>1, <2>2
<1>3. Typed'
  BY <1>1, <1>2, NoSyncTyped, EmptySeq, SyncFrame DEF SyncStep
<1>4. Window'
  BY <1>1, Elements DEF Window, NoSync
<1> QED
  BY <1>1, <1>3, <1>4

-----------------------------------------------------------------------------
(* The compensation leaves no hole in its window                            *)

LEMMA TypedInit == Init => Typed /\ Window
<1> SUFFICES ASSUME Init PROVE Typed /\ Window
  OBVIOUS
<1>1. FillsTyped /\ StreamTyped /\ RowsTyped
  BY Bounds, EmptySeq DEF Init, FillsTyped, StreamTyped, RowsTyped
<1>2. LocalTyped
  BY Bounds DEF Init, LocalTyped, EnginePcs
<1>3. SyncTyped /\ Window
  BY NoSyncTyped, EmptySeq DEF Init, SyncTyped, Window, NoSync
<1>4. FaultsTyped
  BY Bounds DEF Init, FaultsTyped
<1> QED
  BY <1>1, <1>2, <1>3, <1>4 DEF Typed

LEMMA TypedStep == Typed /\ Window /\ [Next]_vars => Typed' /\ Window'
<1> SUFFICES ASSUME Typed, Window, [Next]_vars PROVE Typed' /\ Window'
  OBVIOUS
<1>1. CASE EngineFill \/ ManualFill
  <2>1. PICK f \in Fills : Trade(f)
    BY <1>1, FillStep
  <2>2. /\ Typed' /\ sync' = sync /\ rows' = rows /\ Len(fills') = Len(fills) + 1
        /\ Len(fills) \in Nat
    BY <2>1, TradeTyped, Elements
  <2>3. Window'
    BY <2>2, WindowKept DEF Ingested
  <2> QED
    BY <2>2, <2>3
<1>2. CASE EngineStep
  <2>1. Typed' /\ sync' = sync /\ rows' = rows /\ fills' = fills
    BY <1>2, EngineTyped
  <2>2. Window'
    BY <2>1, WindowKept, Elements DEF Ingested
  <2> QED
    BY <2>1, <2>2
<1>3. CASE Crash
  <2>1. Typed' /\ sync' = NoSync /\ fills' = fills
    BY <1>3, CrashTyped
  <2>2. Window'
    BY <2>1, Elements DEF Window, NoSync
  <2> QED
    BY <2>1, <2>2
<1>4. CASE StreamIngest \/ StreamDrops
  <2>1. Typed' /\ sync' = sync /\ fills' = fills /\ (\A j : Ingested(j) => Ingested(j)')
    BY <1>4, StreamStepTyped
  <2>2. Window'
    BY <2>1, WindowKept, Elements
  <2> QED
    BY <2>1, <2>2
<1>5. CASE SyncStep
  BY <1>5, BeginKeeps, FetchKeeps, SyncIngestKeeps, SyncFailsKeeps, SyncResolveKeeps DEF SyncStep
<1>6. CASE UNCHANGED vars
  <2>1. Typed'
    BY <1>6 DEF vars, Typed, FillsTyped, StreamTyped, RowsTyped, LocalTyped, SyncTyped, FaultsTyped
  <2>2. Window'
    BY <1>6, WindowKept, Elements DEF vars, Ingested
  <2> QED
    BY <2>1, <2>2
<1> QED
  BY <1>1, <1>2, <1>3, <1>4, <1>5, <1>6 DEF Next

\* A sync that met no failure has every fill of its window, whatever the stream
\* adds meanwhile, however many pages it takes and wherever a page ends
\* (_sync_exchange_fills).
THEOREM SyncLeavesNoHole == Spec => []SyncCoversWindow
<1>1. Typed /\ Window => SyncCoversWindow
  BY DEF Window, Due, SyncCoversWindow
<1> QED
  BY <1>1, TypedInit, TypedStep, PTL DEF Spec

-----------------------------------------------------------------------------
(* Engine fills that are taken for somebody else's                          *)

\* what the engine's rows say at each place of its calls
Calls == /\ engine = "idle" => /\ claim.status = "none" /\ logged = {}
                               /\ trade.opened = 0 /\ trade.closed = 0
                               /\ \A i \in 1..Len(fills) : ~OfEngine(i)
         /\ engine = "opening" => /\ claim.status = "opening" /\ logged = {}
                                  /\ trade.opened = 0 /\ trade.closed = 0
         /\ engine \in {"logged", "protecting"} => trade.closed = 0 /\ trade.opened <= Now
         /\ engine \in {"protecting", "holding", "closing"} =>
              trade.closed = 0 /\ trade.opened # 0 /\ trade.opened <= Now
         /\ claim.from <= Now

\* The engine's fills come after its claim, its exits while its trade is open.
Times == \A i \in 1..Len(fills) :
           /\ OfEngine(i) => Claimed(i)
           /\ fills[i].order \in Exits => Managed(i)

\* An engine fill that is filed as external: no call has reported its entry,
\* and the claim no longer holds such a fill back.
Escaped(i) == /\ engine \notin {"idle", "opening"}
              /\ fills[i].order \in Entries \ logged

Filed == \A r \in ToSet(rows) : r.owner = "external" /\ OfEngine(r.fill) => Escaped(r.fill)

Known == Calls /\ Times /\ Filed

\* an engine fill is filed as external in such a case only
LEMMA ExternalEscapes ==
  ASSUME Typed, Calls, Times, NEW i \in 1..Len(fills), NEW named,
         OfEngine(i), Owner(i, named) = "external"
  PROVE  Escaped(i)
<1>1. ~Matched(i) /\ ~(claim.status \in ActiveClaim /\ Claimed(i)) /\ ~Managed(i)
  BY DEF Owner
<1>2. engine \notin {"idle", "opening"}
  BY <1>1 DEF Calls, Times, ActiveClaim
<1>3. fills[i].order \in Entries
  BY <1>1 DEF Times, OfEngine, EngineOrders
<1> QED
  BY <1>1, <1>2, <1>3 DEF Escaped, Matched

\* what holds of the rows, the fills and the calls for new rows
LEMMA FiledKept ==
  ASSUME Typed, Known, UNCHANGED <<fills, claim, logged, trade, engine>>,
         \A r : r \in ToSet(rows') =>
           \/ r \in ToSet(rows)
           \/ r.fill \in 1..Len(fills) /\ \E named : r.owner = Owner(r.fill, named)
  PROVE  Known'
<1>1. Calls' /\ Times'
  BY DEF Known, Calls, Times, Now, OfEngine, Claimed, Managed
<1>2. \A r \in ToSet(rows') : r.owner = "external" /\ OfEngine(r.fill) => Escaped(r.fill)
  BY ExternalEscapes DEF Known, Filed
<1>3. Filed'
  BY <1>2 DEF Filed, Escaped, OfEngine
<1> QED
  BY <1>1, <1>3 DEF Known

\* a row names a fill that was made
LEMMA RowFill ==
  ASSUME Typed, NEW r \in ToSet(rows)
  PROVE  r.fill \in 1..Len(fills)
BY Elements DEF ToSet

LEMMA TradeKnown ==
  ASSUME Typed, Known, EngineFill \/ ManualFill
  PROVE  Known'
<1>0. PICK n : n = Len(fills)
  OBVIOUS
<1>1. PICK f \in Fills : /\ Trade(f)
                         /\ f.order \in Entries => engine = "opening"
                         /\ f.order \in Exits => engine \in {"closing", "holding"}
  BY FillStep
<1>2. /\ Len(fills') = n + 1 /\ fills'[n + 1] = f /\ \A i \in 1..n : fills'[i] = fills[i]
      /\ UNCHANGED <<rows, claim, logged, trade, engine>>
      /\ n \in Nat
  BY <1>0, <1>1, TradeTyped, Elements
<1>3. /\ \A i \in 1..n : /\ OfEngine(i)' <=> OfEngine(i)
                         /\ Claimed(i)' <=> Claimed(i)
                         /\ Managed(i)' <=> Managed(i)
      /\ Now' = Now + 2 /\ Now = 2 * n + 1
  BY <1>0, <1>2 DEF OfEngine, Claimed, Managed, TimeOf, Now
<1>4. f.order \in EngineOrders => engine # "idle"
  BY <1>1 DEF EngineOrders
<1>5. /\ claim.from \in Int /\ trade.opened \in Int /\ trade.closed \in Int
  BY Bounds DEF Typed, LocalTyped
<1>6. Calls'
  <2>1. engine = "idle" => \A i \in 1..(n + 1) : ~OfEngine(i)'
    BY <1>0, <1>2, <1>3, <1>4 DEF Known, Calls, OfEngine
  <2> QED
    BY <1>2, <1>3, <1>5, <2>1 DEF Known, Calls
<1>7. Times'
  <2>1. \A i \in 1..n : /\ OfEngine(i)' => Claimed(i)'
                        /\ fills'[i].order \in Exits => Managed(i)'
    BY <1>0, <1>2, <1>3 DEF Known, Times
  <2>2. Claimed(n + 1)'
    BY <1>2, <1>3, <1>5 DEF Known, Calls, Claimed, TimeOf
  <2>3. f.order \in Exits => Managed(n + 1)'
    BY <1>1, <1>2, <1>3, <1>5 DEF Known, Calls, Managed, TimeOf
  <2> QED
    BY <1>2, <2>1, <2>2, <2>3 DEF Times
<1>8. Filed'
  <2>1. \A r \in ToSet(rows) : r.fill \in 1..n
    BY <1>0, RowFill
  <2>2. \A i \in 1..n : Escaped(i)' <=> Escaped(i)
    BY <1>2 DEF Escaped
  <2> QED
    BY <1>2, <1>3, <2>1, <2>2 DEF Known, Filed
<1> QED
  BY <1>6, <1>7, <1>8 DEF Known

LEMMA EngineKnown ==
  ASSUME Typed, Known, EngineStep
  PROVE  Known'
<1>1. /\ UNCHANGED <<fills, rows>> /\ Now' = Now /\ \A i : OfEngine(i)' <=> OfEngine(i)
      /\ Now \in 1..MaxTime /\ \A i \in 1..Len(fills) : TimeOf(i) < Now /\ TimeOf(i) \in Nat
      /\ \A r \in ToSet(rows) : r.fill \in 1..Len(fills)
  <2>1. UNCHANGED <<fills, rows>>
    BY EngineTyped
  <2>2. Len(fills) \in Nat
    BY Elements
  <2> QED
    BY <2>1, <2>2, NowTyped, RowFill DEF Now, OfEngine, TimeOf
<1>2. claim.from \in Int /\ trade.opened \in Int /\ trade.closed \in Int /\ Now \in Int
  BY <1>1, Bounds DEF Typed, LocalTyped
<1>3. CASE BeginClaim
  <2>1. /\ engine = "idle" /\ engine' = "opening" /\ UNCHANGED <<logged, trade>>
        /\ claim' = [status |-> "opening", from |-> Now]
    BY <1>3 DEF BeginClaim
  <2>2. \A i \in 1..Len(fills) : ~OfEngine(i) /\ fills[i].order \notin Exits
    BY <2>1 DEF Known, Calls, OfEngine, EngineOrders
  <2>3. Calls'
    BY <1>1, <1>2, <2>1 DEF Known, Calls
  <2> QED
    BY <1>1, <2>2, <2>3 DEF Known, Times, Filed
<1>4. CASE LogOpen
  <2>1. /\ engine = "opening" /\ engine' = "logged" /\ claim' = claim
        /\ trade' = trade \/ trade' = [trade EXCEPT !.opened = Now]
    BY <1>4 DEF LogOpen
  <2>2. trade'.closed = trade.closed /\ trade'.opened <= Now
    BY <1>2, <2>1, NowTyped DEF Known, Calls, Typed, LocalTyped
  <2>3. Calls'
    BY <1>1, <1>2, <2>1, <2>2 DEF Known, Calls
  <2>4. Times'
    BY <1>1, <1>2, <2>1 DEF Known, Calls, Times, Claimed, Managed, TimeOf
  <2>5. Filed'
    BY <1>1, <2>1 DEF Known, Filed, Escaped
  <2> QED
    BY <2>3, <2>4, <2>5 DEF Known
<1>5. CASE MarkClaim \/ FinishClaim \/ OpenRaises \/ BeginClose
  <2>1. /\ UNCHANGED <<logged, trade>> /\ claim'.from = claim.from
        /\ engine \in {"opening", "logged", "protecting", "holding"}
        /\ engine' \in {"over", "protecting", "holding", "closing"}
        /\ engine' \in {"protecting", "holding", "closing"} => trade.opened # 0 /\ trade.closed = 0
        /\ engine' \in {"protecting", "holding", "closing"} => trade.opened <= Now
    BY <1>5 DEF MarkClaim, FinishClaim, OpenRaises, BeginClose, Known, Calls, Typed, LocalTyped
  <2>2. Calls'
    BY <1>1, <1>2, <2>1 DEF Known, Calls
  <2>3. Times'
    BY <1>1, <2>1 DEF Known, Times, Claimed, Managed, TimeOf
  <2>4. Filed'
    BY <1>1, <2>1 DEF Known, Filed, Escaped
  <2> QED
    BY <2>2, <2>3, <2>4 DEF Known
<1>6. CASE LogClose \/ BookStop
  <2>1. /\ engine \in {"closing", "holding"} /\ engine' = "over" /\ claim' = claim
        /\ trade' = [trade EXCEPT !.closed = Now]
        /\ logged' \in {logged, logged \cup {"close"}}
    BY <1>6 DEF LogClose, BookStop
  <2>2. trade'.opened = trade.opened /\ trade'.closed = Now
    BY <2>1 DEF Typed, LocalTyped
  <2>3. Calls'
    BY <1>1, <1>2, <2>1 DEF Known, Calls
  <2>4. Times'
    BY <1>1, <1>2, <2>1, <2>2 DEF Known, Times, Claimed, Managed, TimeOf
  <2>5. \A i : Escaped(i) => Escaped(i)'
    BY <1>1, <2>1 DEF Escaped, Entries
  <2>6. Filed'
    BY <1>1, <2>5 DEF Known, Filed
  <2> QED
    BY <2>3, <2>4, <2>6 DEF Known
<1> QED
  BY <1>3, <1>4, <1>5, <1>6 DEF EngineStep

LEMMA CrashKnown ==
  ASSUME Typed, Known, Crash
  PROVE  Known'
<1>1. UNCHANGED <<fills, rows, claim, logged, trade>>
  BY CrashTyped
<1>2. engine' = "crashed" \/ engine' = engine
  BY DEF Crash
<1>3. Calls'
  BY <1>1, <1>2 DEF Known, Calls, Now, OfEngine
<1>4. Times'
  BY <1>1 DEF Known, Times, OfEngine, Claimed, Managed, TimeOf
<1>5. Filed'
  BY <1>1, <1>2 DEF Known, Filed, Escaped, OfEngine
<1> QED
  BY <1>3, <1>4, <1>5 DEF Known

LEMMA StreamKnown ==
  ASSUME Typed, Known, StreamIngest \/ StreamDrops
  PROVE  Known'
<1>1. UNCHANGED <<fills, claim, logged, trade, engine>>
  BY StreamStepTyped
<1>2. CASE StreamIngest
  <2>1. PICK i : i = Head(stream)
    OBVIOUS
  <2>2. Ingest(i, TRUE)
    BY <1>2, <2>1 DEF StreamIngest
  <2>3. i \in 1..Len(fills)
    <3>1. Len(stream) \in Nat \ {0} /\ Head(stream) = stream[1]
      BY <1>2 DEF StreamIngest, Typed, StreamTyped
    <3> QED
      BY <2>1, <3>1, Elements
  <2>4. \A r : r \in ToSet(rows') =>
          r \in ToSet(rows) \/ r = [fill |-> i, owner |-> Owner(i, TRUE)]
    BY <1>1, <2>2, <2>3, IngestTyped
  <2>5. \A r : r \in ToSet(rows') =>
          \/ r \in ToSet(rows)
          \/ r.fill \in 1..Len(fills) /\ r.owner = Owner(r.fill, TRUE)
    <3> TAKE r
    <3> HAVE r \in ToSet(rows')
    <3>1. CASE r \in ToSet(rows)
      BY <3>1
    <3>2. CASE r = [fill |-> i, owner |-> Owner(i, TRUE)]
      <4>1. r.fill = i /\ r.owner = Owner(i, TRUE)
        BY <3>2
      <4> QED
        BY <2>3, <4>1
    <3> QED
      BY <2>4, <3>1, <3>2
  <2> QED
    BY <1>1, <2>5, FiledKept
<1>3. CASE StreamDrops
  <2>1. rows' = rows
    BY <1>3 DEF StreamDrops, ledger
  <2> QED
    BY <1>1, <2>1, FiledKept
<1> QED
  BY <1>2, <1>3

LEMMA SyncKnown ==
  ASSUME Typed, Window, Known, SyncStep
  PROVE  Known'
<1>1. UNCHANGED <<fills, claim, logged, trade, engine>>
  BY DEF SyncStep, SyncBegin, SyncFetch, SyncIngest, SyncFails, SyncResolve, exchange, local
<1>2. CASE SyncBegin \/ SyncFetch \/ SyncFails
  <2>1. rows' = rows
    BY <1>2 DEF SyncBegin, SyncFetch, SyncFails, ledger
  <2> QED
    BY <1>1, <2>1, FiledKept
<1>3. CASE SyncIngest
  <2>1. PICK i : i = Head(sync.page)
    OBVIOUS
  <2>2. Ingest(i, FALSE)
    BY <1>3, <2>1 DEF SyncIngest
  <2>3. i \in 1..Len(fills)
    <3>1. sync.page # <<>>
      BY <1>3 DEF SyncIngest, Typed, SyncTyped
    <3>2. Len(sync.page) \in Nat \ {0} /\ Head(sync.page) = sync.page[1]
      BY <3>1, Elements, HeadAndTail
    <3> QED
      BY <2>1, <3>2, Elements
  <2>4. \A r : r \in ToSet(rows') =>
          r \in ToSet(rows) \/ r = [fill |-> i, owner |-> Owner(i, FALSE)]
    BY <1>1, <2>2, <2>3, IngestTyped
  <2>5. \A r : r \in ToSet(rows') =>
          \/ r \in ToSet(rows)
          \/ r.fill \in 1..Len(fills) /\ r.owner = Owner(r.fill, FALSE)
    <3> TAKE r
    <3> HAVE r \in ToSet(rows')
    <3>1. CASE r \in ToSet(rows)
      BY <3>1
    <3>2. CASE r = [fill |-> i, owner |-> Owner(i, FALSE)]
      <4>1. r.fill = i /\ r.owner = Owner(i, FALSE)
        BY <3>2
      <4> QED
        BY <2>3, <4>1
    <3> QED
      BY <2>4, <3>1, <3>2
  <2> QED
    BY <1>1, <2>5, FiledKept
<1>4. CASE SyncResolve
  <2>1. CASE rows' = rows
    BY <1>1, <2>1, FiledKept
  <2>2. CASE rows' = Reclassified
    <3>1. \A r : r \in ToSet(rows') =>
            \/ r \in ToSet(rows)
            \/ r.fill \in 1..Len(fills) /\ r.owner = Owner(r.fill, FALSE)
      <4> SUFFICES ASSUME NEW r \in ToSet(rows')
                   PROVE  \/ r \in ToSet(rows)
                          \/ r.fill \in 1..Len(fills) /\ r.owner = Owner(r.fill, FALSE)
        OBVIOUS
      <4>1. PICK k \in 1..Len(rows) : r = Reclassified[k]
        BY <2>2, ReclassifiedTyped, Elements DEF ToSet
      <4>2. rows[k] \in ToSet(rows) /\ rows[k].fill \in 1..Len(fills)
        BY Elements DEF ToSet
      <4> QED
        BY <4>1, <4>2, ReclassifiedTyped
    <3> QED
      BY <1>1, <3>1, FiledKept
  <2> QED
    BY <1>4, <2>1, <2>2, SyncResolveKeeps
<1> QED
  BY <1>2, <1>3, <1>4 DEF SyncStep

\* The engine's rows reach the ledger in time: only a fill of an entry order
\* that the open call did not report is taken for somebody else's trade, in
\* whatever order the stream, the REST sync and the engine's writes come
\* (_classify_exchange_fill, resolve_unknown_exchange_fills, log_order).
THEOREM OnlyUnreportedEscape == Spec => []OnlyUnreportedEntriesEscape
<1>1. Init => Known
  BY DEF Init, Known, Calls, Times, Filed, Now, ToSet
<1>2. Typed /\ Window /\ Known /\ [Next]_vars => Known'
  <2> SUFFICES ASSUME Typed, Window, Known, [Next]_vars PROVE Known'
    OBVIOUS
  <2>1. CASE UNCHANGED vars
    BY <2>1, FiledKept DEF vars
  <2> QED
    BY <2>1, TradeKnown, EngineKnown, CrashKnown, StreamKnown, SyncKnown DEF Next
<1>3. Known => OnlyUnreportedEntriesEscape
  BY DEF Known, Filed, Escaped, OnlyUnreportedEntriesEscape
<1> QED
  BY <1>1, <1>2, <1>3, TypedInit, TypedStep, PTL DEF Spec

-----------------------------------------------------------------------------
(* Recursion over the numbers                                               *)

\* g follows the recursion up to n
Follows(g, n, b, step) ==
  g[0] = b /\ \A k \in 1..n : g[k] = step[<<k, g[k - 1]>>]

\* f follows it for ever
Follow(f, b, step) == f[0] = b /\ \A n \in Nat \ {0} : f[n] = step[<<n, f[n - 1]>>]

LEMMA FollowsExists ==
  ASSUME NEW S, NEW b \in S, NEW step \in [Nat \X S -> S]
  PROVE  \A n \in Nat : \E g \in [0..n -> S] : Follows(g, n, b, step)
<1> DEFINE Bad == {n \in Nat : ~\E g \in [0..n -> S] : Follows(g, n, b, step)}
<1>1. SUFFICES ASSUME Bad # {} PROVE FALSE
  OBVIOUS
<1>2. PICK m \in Bad : \A n \in Bad : m <= n
  BY <1>1, LeastNumber
<1>3. CASE m = 0
  <2>1. [k \in 0..0 |-> b] \in [0..0 -> S] /\ Follows([k \in 0..0 |-> b], 0, b, step)
    BY DEF Follows
  <2> QED
    BY <1>2, <1>3, <2>1
<1>4. CASE m # 0
  <2>1. m \in Nat /\ m - 1 \in Nat /\ m - 1 \notin Bad
    BY <1>2, <1>4
  <2>2. PICK g \in [0..(m - 1) -> S] : Follows(g, m - 1, b, step)
    BY <2>1
  <2> DEFINE h == [k \in 0..m |-> IF k = m THEN step[<<m, g[m - 1]>>] ELSE g[k]]
  <2>3. g[m - 1] \in S /\ step[<<m, g[m - 1]>>] \in S
    BY <2>1, <2>2
  <2>4. h \in [0..m -> S]
    BY <2>1, <2>2, <2>3
  <2>5. \A k \in 0..(m - 1) : h[k] = g[k]
    BY <2>1
  <2>6. h[m] = step[<<m, g[m - 1]>>]
    BY <2>1
  <2> HIDE DEF h
  <2>7. Follows(h, m, b, step)
    <3>1. h[0] = b
      BY <1>4, <2>1, <2>2, <2>5 DEF Follows
    <3>2. ASSUME NEW k \in 1..m PROVE h[k] = step[<<k, h[k - 1]>>]
      <4>1. CASE k = m
        <5>1. h[m - 1] = g[m - 1]
          BY <1>4, <2>1, <2>5
        <5> QED
          BY <2>6, <4>1, <5>1
      <4>2. CASE k # m
        <5>1. k \in 1..(m - 1) /\ k - 1 \in 0..(m - 1) /\ k \in 0..(m - 1)
          BY <2>1, <4>2
        <5> QED
          BY <2>2, <2>5, <5>1 DEF Follows
      <4> QED
        BY <4>1, <4>2
    <3> QED
      BY <3>1, <3>2 DEF Follows
  <2> QED
    BY <1>2, <2>4, <2>7
<1> QED
  BY <1>3, <1>4

LEMMA FollowsUnique ==
  ASSUME NEW b, NEW step, NEW n \in Nat, NEW m \in Nat, NEW g, NEW h,
         Follows(g, n, b, step), Follows(h, m, b, step)
  PROVE  \A k \in Nat : k <= n /\ k <= m => g[k] = h[k]
<1> DEFINE Bad == {k \in Nat : k <= n /\ k <= m /\ g[k] # h[k]}
<1>1. SUFFICES ASSUME Bad # {} PROVE FALSE
  OBVIOUS
<1>2. PICK k \in Bad : \A j \in Bad : k <= j
  BY <1>1, LeastNumber
<1>3. k # 0
  BY <1>2 DEF Follows
<1>4. k \in Nat /\ k - 1 \in Nat /\ k - 1 \notin Bad /\ k \in 1..n /\ k \in 1..m
  BY <1>2, <1>3
<1>5. g[k - 1] = h[k - 1]
  BY <1>4
<1>6. g[k] = h[k]
  BY <1>4, <1>5 DEF Follows
<1> QED
  BY <1>2, <1>6

\* a function of the numbers can be defined by its first value and a step
LEMMA Recursion ==
  ASSUME NEW S, NEW b \in S, NEW step \in [Nat \X S -> S]
  PROVE  \E f \in [Nat -> S] : Follow(f, b, step)
<1> DEFINE G(n) == CHOOSE g \in [0..n -> S] : Follows(g, n, b, step)
           F == [n \in Nat |-> G(n)[n]]
<1>1. \A n \in Nat : G(n) \in [0..n -> S] /\ Follows(G(n), n, b, step)
  BY FollowsExists
<1> HIDE DEF G
<1>2. F \in [Nat -> S]
  BY <1>1
<1>3. F[0] = b
  BY <1>1 DEF Follows
<1>4. ASSUME NEW n \in Nat \ {0}
      PROVE  F[n] = step[<<n, F[n - 1]>>]
  <2>1. n \in Nat /\ n - 1 \in Nat /\ n \in 1..n
    OBVIOUS
  <2>2. F[n] = step[<<n, G(n)[n - 1]>>]
    BY <1>1, <2>1 DEF Follows
  <2>3. G(n)[n - 1] = G(n - 1)[n - 1]
    BY <1>1, <2>1, FollowsUnique
  <2> QED
    BY <2>1, <2>2, <2>3
<1> HIDE DEF F
<1> QED
  BY <1>2, <1>3, <1>4 DEF Follow

-----------------------------------------------------------------------------
(* The archive                                                              *)

Sound(t) == t.closed <= t.opened /\ (t.status = "closed" <=> t.closed = t.opened)
SoundTrades == {t \in ExternalTrades : Sound(t)}
Books == [trades : Seq(SoundTrades), alloc : SUBSET Allocations]

\* a book is kept by an added trade, a changed trade and an added allocation
LEMMA BookEdits ==
  ASSUME NEW b \in Books, NEW t \in SoundTrades, NEW a \in Allocations
  PROVE  /\ [trades |-> Append(b.trades, t), alloc |-> b.alloc \cup {a}] \in Books
         /\ \A u \in DOMAIN b.trades :
              [trades |-> [b.trades EXCEPT ![u] = t], alloc |-> b.alloc \cup {a}] \in Books
<1>1. b.trades \in Seq(SoundTrades) /\ b.alloc \in SUBSET Allocations
  BY DEF Books
<1>2. Append(b.trades, t) \in Seq(SoundTrades)
  BY <1>1
<1>3. b.alloc \cup {a} \in SUBSET Allocations
  BY <1>1
<1>4. ASSUME NEW u \in DOMAIN b.trades
      PROVE  [b.trades EXCEPT ![u] = t] \in Seq(SoundTrades)
  BY <1>1, <1>4
<1> QED
  BY <1>2, <1>3, <1>4 DEF Books

LEMMA BookElements ==
  ASSUME NEW b \in Books
  PROVE  /\ Len(b.trades) \in Nat /\ DOMAIN b.trades = 1..Len(b.trades)
         /\ \A t \in DOMAIN b.trades : b.trades[t] \in SoundTrades
<1>1. b.trades \in Seq(SoundTrades)
  BY DEF Books
<1> QED
  BY <1>1, ElementOfSeq, LenProperties

\* the newest open trade is one of them
LEMMA CurrentIsOpen ==
  ASSUME NEW b \in Books, OpenTrades(b) # {}
  PROVE  Current(b) \in OpenTrades(b)
<1>1. /\ OpenTrades(b) \in SUBSET (0..Len(b.trades)) /\ Len(b.trades) \in Nat
      /\ \A t \in OpenTrades(b) : b.trades[t].at \in 0..MaxTime
  BY BookElements, Bounds DEF OpenTrades, SoundTrades, ExternalTrades
<1> DEFINE Times_ == {b.trades[t].at : t \in OpenTrades(b)}
<1>2. PICK late \in Times_ : \A m \in Times_ : late >= m
  <2>1. Times_ \in SUBSET (0..MaxTime) /\ Times_ # {} /\ MaxTime \in Nat
    BY <1>1, Bounds
  <2> QED
    BY <2>1, GreatestNumber
<1> DEFINE Last_ == {t \in OpenTrades(b) : b.trades[t].at = late}
<1>3. PICK t \in Last_ : \A m \in Last_ : t >= m
  <2>1. Last_ \in SUBSET (0..Len(b.trades)) /\ Last_ # {}
    BY <1>1, <1>2
  <2> QED
    BY <1>1, <2>1, GreatestNumber
<1>4. \A u \in OpenTrades(b) : \/ b.trades[u].at < b.trades[t].at
                               \/ b.trades[u].at = b.trades[t].at /\ u <= t
  <2> SUFFICES ASSUME NEW u \in OpenTrades(b)
               PROVE  \/ b.trades[u].at < b.trades[t].at
                      \/ b.trades[u].at = b.trades[t].at /\ u <= t
    OBVIOUS
  <2>1. b.trades[t].at = late /\ late >= b.trades[u].at
    BY <1>2, <1>3
  <2>2. CASE b.trades[u].at = late
    BY <1>1, <1>3, <2>1, <2>2
  <2>3. CASE b.trades[u].at # late
    <3>1. b.trades[u].at \in 0..MaxTime /\ late \in 0..MaxTime /\ MaxTime \in Nat
      BY <1>1, <1>2, Bounds
    <3> QED
      BY <2>1, <2>3, <3>1
  <2> QED
    BY <2>2, <2>3
<1>5. t \in OpenTrades(b)
  BY <1>3
<1> QED
  BY <1>4, <1>5 DEF Current

\* a trade by its fields
LEMMA TradeFields ==
  ASSUME NEW t \in ExternalTrades, NEW opened \in Nat \ {0}, NEW closed \in Nat,
         NEW status \in {"open", "partial", "closed"}, NEW carry \in BOOLEAN,
         closed <= opened, status = "closed" <=> closed = opened
  PROVE  [t EXCEPT !.opened = opened, !.closed = closed, !.status = status, !.carry = carry]
           \in SoundTrades
<1> DEFINE u == [t EXCEPT !.opened = opened, !.closed = closed, !.status = status,
                          !.carry = carry]
<1>1. u.opened = opened /\ u.closed = closed /\ u.status = status /\ u \in ExternalTrades
  BY DEF ExternalTrades
<1> QED
  BY <1>1 DEF SoundTrades, Sound

\* an external fill leaves the archive well formed, whatever it meets there
LEMMA ApplyExternalTyped ==
  ASSUME FillsTyped, NEW b \in Books, NEW i \in 1..Len(fills)
  PROVE  ApplyExternal(b, i) \in Books
<1> DEFINE q == fills[i].qty
           n == Len(b.trades) + 1
<1>1. /\ fills[i] \in Fills /\ i \in 1..MaxFills /\ TimeOf(i) \in 1..MaxTime
  <2>1. fills \in Seq(Fills) /\ Len(fills) <= MaxFills
    BY DEF FillsTyped
  <2>2. fills[i] \in Fills /\ Len(fills) \in Nat
    BY <2>1, ElementOfSeq, LenProperties
  <2> QED
    BY <2>1, <2>2, Bounds DEF TimeOf
<1>2. q \in Nat \ {0}
  BY <1>1, LedgerAssumption DEF Fills
<1>3. n \in Nat \ {0} /\ \A t \in DOMAIN b.trades : t \in Nat \ {0} /\ b.trades[t] \in SoundTrades
  BY BookElements
<1>4. /\ Direction(fills[i]) \in {"long", "short"} /\ Opposite(fills[i]) \in {"long", "short"}
  BY DEF Direction, Opposite
<1>5. ASSUME NEW t \in Nat \ {0}, NEW r \in {"ENTRY", "EXIT", "REVERSAL_ENTRY"}, NEW k \in Nat \ {0}
      PROVE  Allocation(t, i, r, k) \in Allocations
  BY <1>1 DEF Allocation, Allocations
<1>6. ASSUME NEW d \in {"long", "short"}, NEW k \in Nat \ {0}
      PROVE  NewTrade(i, d, k) \in SoundTrades
  BY <1>1 DEF NewTrade, SoundTrades, ExternalTrades, Sound
<1>7. CASE OpenTrades(b) = {} /\ Closing(i)
  <2> DEFINE t == [NewTrade(i, Opposite(fills[i]), q) EXCEPT
                     !.closed = q, !.status = "closed", !.carry = TRUE]
  <2>1. t \in SoundTrades
    <3>1. NewTrade(i, Opposite(fills[i]), q) \in ExternalTrades
      BY <1>2, <1>4, <1>6 DEF SoundTrades
    <3> PICK new : new = NewTrade(i, Opposite(fills[i]), q)
      OBVIOUS
    <3>2. new \in ExternalTrades /\ new.opened = q
      BY <3>1 DEF NewTrade
    <3> HIDE DEF q
    <3>3. /\ t.opened = q /\ t.closed = q /\ t.status = "closed"
          /\ t = [new EXCEPT !.closed = q, !.status = "closed", !.carry = TRUE]
      BY <3>2 DEF ExternalTrades
    <3>4. t \in ExternalTrades
      BY <1>2, <3>2, <3>3 DEF ExternalTrades
    <3> HIDE DEF t
    <3>5. q \in Nat /\ q <= q
      BY <1>2
    <3> QED
      BY <3>3, <3>4, <3>5 DEF SoundTrades, Sound
  <2>2. ApplyExternal(b, i) = [trades |-> Append(b.trades, t),
                               alloc |-> b.alloc \cup {Allocation(n, i, "EXIT", q)}]
    BY <1>7 DEF ApplyExternal, CarryIn, WithTrade
  <2>3. Allocation(n, i, "EXIT", q) \in Allocations
    BY <1>2, <1>3, <1>5
  <2> HIDE DEF t
  <2> QED
    BY <2>1, <2>2, <2>3, BookEdits
<1>8. CASE OpenTrades(b) = {} /\ ~Closing(i)
  <2>1. ApplyExternal(b, i) = [trades |-> Append(b.trades, NewTrade(i, Direction(fills[i]), q)),
                               alloc |-> b.alloc \cup {Allocation(n, i, "ENTRY", q)}]
    BY <1>8 DEF ApplyExternal, WithTrade
  <2>2. /\ NewTrade(i, Direction(fills[i]), q) \in SoundTrades
        /\ Allocation(n, i, "ENTRY", q) \in Allocations
    BY <1>2, <1>3, <1>4, <1>5, <1>6
  <2> QED
    BY <2>1, <2>2, BookEdits
<1>9. CASE OpenTrades(b) # {}
  <2>1. PICK t \in DOMAIN b.trades : t = Current(b) /\ b.trades[t].status # "closed"
    BY <1>9, CurrentIsOpen DEF OpenTrades
  <2>2. /\ t \in Nat \ {0} /\ b.trades[t] \in SoundTrades
        /\ b.trades[t].opened \in Nat \ {0} /\ b.trades[t].closed \in Nat
        /\ b.trades[t].closed < b.trades[t].opened
    BY <1>3, <2>1 DEF SoundTrades, ExternalTrades, Sound
  <2>3. CASE b.trades[t].dir = Direction(fills[i])
    <3> DEFINE u == [b.trades[t] EXCEPT !.opened = @ + q,
                                        !.status = IF b.trades[t].closed = 0 THEN "open" ELSE "partial"]
    <3>1. u \in SoundTrades
      <4>1. b.trades[t] \in ExternalTrades /\ b.trades[t].carry \in BOOLEAN
        BY <2>2 DEF SoundTrades, ExternalTrades
      <4> DEFINE s == IF b.trades[t].closed = 0 THEN "open" ELSE "partial"
      <4>2. u = [b.trades[t] EXCEPT !.opened = b.trades[t].opened + q,
                                    !.closed = b.trades[t].closed,
                                    !.status = s, !.carry = b.trades[t].carry]
        BY <4>1 DEF ExternalTrades
      <4>3. /\ b.trades[t].opened + q \in Nat \ {0}
            /\ b.trades[t].closed < b.trades[t].opened + q
            /\ s \in {"open", "partial", "closed"} /\ s # "closed"
        BY <1>2, <2>2
      <4> HIDE DEF s, u
      <4>4. /\ b.trades[t].closed <= b.trades[t].opened + q
            /\ s = "closed" <=> b.trades[t].closed = b.trades[t].opened + q
        BY <1>2, <2>2, <4>3
      <4>5. [b.trades[t] EXCEPT !.opened = b.trades[t].opened + q,
                                !.closed = b.trades[t].closed,
                                !.status = s, !.carry = b.trades[t].carry] \in SoundTrades
        BY <2>2, <4>1, <4>3, <4>4, TradeFields
      <4> QED
        BY <4>2, <4>5
    <3>2. ApplyExternal(b, i) = [trades |-> [b.trades EXCEPT ![t] = u],
                                 alloc |-> b.alloc \cup {Allocation(t, i, "ENTRY", q)}]
      BY <1>9, <2>1, <2>3 DEF ApplyExternal, AddTo
    <3>3. Allocation(t, i, "ENTRY", q) \in Allocations
      BY <1>2, <2>2, <1>5
    <3> HIDE DEF u
    <3> PICK v : v = u
      OBVIOUS
    <3>4. [trades |-> [b.trades EXCEPT ![t] = v], alloc |-> b.alloc \cup {Allocation(t, i, "ENTRY", q)}] \in Books
      BY <2>1, <3>1, <3>3, BookEdits, Zenon
    <3> QED
      BY <3>2, <3>4
  <2>4. CASE b.trades[t].dir # Direction(fills[i])
    <3> DEFINE left == b.trades[t].opened - b.trades[t].closed
               k == IF left <= q THEN left ELSE q
               u == Reduced(b.trades[t], k)
               after == [trades |-> [b.trades EXCEPT ![t] = u],
                         alloc |-> b.alloc \cup {Allocation(t, i, "EXIT", k)}]
    <3>1. Min({left, q}) = k
      BY <1>2, <2>2, MinOfTwo
    <3>2. k \in Nat \ {0} /\ k <= left /\ k <= q
      BY <1>2, <2>2
    <3>3. u \in SoundTrades
      <4>1. b.trades[t] \in ExternalTrades /\ b.trades[t].carry \in BOOLEAN
        BY <2>2 DEF SoundTrades, ExternalTrades
      <4> DEFINE s == IF left = k THEN "closed" ELSE "partial"
      <4>2. u = [b.trades[t] EXCEPT !.opened = b.trades[t].opened,
                                    !.closed = b.trades[t].closed + k,
                                    !.status = s, !.carry = b.trades[t].carry]
        BY <4>1 DEF ExternalTrades, Reduced
      <4>3. /\ b.trades[t].closed + k \in Nat
            /\ b.trades[t].closed + k <= b.trades[t].opened
            /\ b.trades[t].closed + k = b.trades[t].opened <=> left = k
            /\ s \in {"open", "partial", "closed"} /\ (s = "closed" <=> left = k)
        BY <2>2, <3>2
      <4> HIDE DEF s, u, k, left
      <4>4. /\ b.trades[t].closed + k <= b.trades[t].opened
            /\ s = "closed" <=> b.trades[t].closed + k = b.trades[t].opened
        BY <4>3
      <4>5. [b.trades[t] EXCEPT !.opened = b.trades[t].opened,
                                !.closed = b.trades[t].closed + k,
                                !.status = s, !.carry = b.trades[t].carry] \in SoundTrades
        BY <2>2, <4>1, <4>3, <4>4, TradeFields
      <4> QED
        BY <4>2, <4>5
    <3>4. after \in Books
      <4>1. Allocation(t, i, "EXIT", k) \in Allocations
        BY <2>2, <3>2, <1>5
      <4> HIDE DEF u, k
      <4> QED
        BY <2>1, <3>3, <4>1, BookEdits
    <3>5. ApplyExternal(b, i) = IF q = k THEN after
                                ELSE WithTrade(after, NewTrade(i, Direction(fills[i]), q - k), i,
                                               "REVERSAL_ENTRY", q - k)
      BY <1>9, <2>1, <2>4, <3>1 DEF ApplyExternal, CloseWith
    <3> HIDE DEF after, k
    <3>6. CASE q # k
      <4>1. q - k \in Nat \ {0} /\ Len(after.trades) + 1 \in Nat \ {0}
        BY <1>2, <3>2, <3>4, <3>6, BookElements
      <4>2. /\ NewTrade(i, Direction(fills[i]), q - k) \in SoundTrades
            /\ Allocation(Len(after.trades) + 1, i, "REVERSAL_ENTRY", q - k) \in Allocations
        BY <4>1, <1>4, <1>5, <1>6
      <4> QED
        BY <3>4, <3>5, <3>6, <4>2, BookEdits DEF WithTrade
    <3> QED
      BY <3>4, <3>5, <3>6
  <2> QED
    BY <2>3, <2>4
<1> QED
  BY <1>7, <1>8, <1>9

\* f holds the books after each of the fills of a replay
Replays(f, b, external) ==
  /\ f[0] = b
  /\ \A n \in Nat \ {0} : f[n] = IF n \in external THEN ApplyExternal(f[n - 1], n) ELSE f[n - 1]

LEMMA ReplayFunction ==
  ASSUME FillsTyped, NEW b \in Books, NEW external \in SUBSET (1..Len(fills))
  PROVE  \E f \in [Nat -> Books] : Replays(f, b, external)
<1>1. PICK step : step = [p \in Nat \X Books |->
                            IF p[1] \in external THEN ApplyExternal(p[2], p[1]) ELSE p[2]]
  OBVIOUS
<1>2. PICK S : S = Books
  OBVIOUS
<1>3. step \in [Nat \X S -> S] /\ b \in S
  <2>1. ASSUME NEW p \in Nat \X S
        PROVE  (IF p[1] \in external THEN ApplyExternal(p[2], p[1]) ELSE p[2]) \in S
    <3>1. p[2] \in Books
      BY <1>2
    <3>2. CASE p[1] \in external
      BY <1>2, <3>1, <3>2, ApplyExternalTyped
    <3> QED
      BY <1>2, <3>1, <3>2
  <2> QED
    BY <1>1, <1>2, <2>1
<1>4. \A n \in Nat, c \in S :
        step[<<n, c>>] = IF n \in external THEN ApplyExternal(c, n) ELSE c
  BY <1>1, <1>2
<1>5. PICK f \in [Nat -> S] : Follow(f, b, step)
  BY <1>3, Recursion
<1>6. \A n \in Nat \ {0} : n \in Nat /\ n - 1 \in Nat /\ f[n - 1] \in S
  BY <1>5
<1>7. \A n \in Nat \ {0} : f[n] = IF n \in external THEN ApplyExternal(f[n - 1], n) ELSE f[n - 1]
  BY <1>4, <1>5, <1>6 DEF Follow
<1> QED
  BY <1>2, <1>5, <1>7 DEF Replays, Follow

\* a replay goes through such books
External(rs) == {r.fill : r \in {s \in ToSet(rs) : s.owner = "external"}}

LEMMA ReplayBooks ==
  ASSUME FillsTyped, NEW b \in Books, NEW rs,
         \A r \in ToSet(rs) : r.fill \in 1..Len(fills)
  PROVE  \E f \in [Nat -> Books] :
           Replays(f, b, External(rs)) /\ ReplayFrom(b, rs) = f[Len(fills)]
<1> DEFINE external == External(rs)
           upto[n \in Nat] == IF n = 0 THEN b
                              ELSE IF n \in external THEN ApplyExternal(upto[n - 1], n)
                              ELSE upto[n - 1]
<1>1. external \in SUBSET (1..Len(fills))
  BY DEF External
<1>2. ReplayFrom(b, rs) = upto[Len(fills)]
  BY DEF ReplayFrom, External
<1> HIDE DEF external
<1>5. PICK f \in [Nat -> Books] : Replays(f, b, external)
  BY <1>1, ReplayFunction
<1>7. upto = [n \in Nat |-> IF n = 0 THEN b
                            ELSE IF n \in external THEN ApplyExternal(upto[n - 1], n)
                            ELSE upto[n - 1]]
  <2> SUFFICES \E g : g = [n \in Nat |-> IF n = 0 THEN b
                                         ELSE IF n \in external THEN ApplyExternal(g[n - 1], n)
                                         ELSE g[n - 1]]
    OBVIOUS
  <2>1. ASSUME NEW n \in Nat
        PROVE  f[n] = IF n = 0 THEN b
                      ELSE IF n \in external THEN ApplyExternal(f[n - 1], n) ELSE f[n - 1]
    BY <1>5 DEF Replays
  <2> QED
    BY <1>5, <2>1
<1> HIDE DEF upto
<1>8. \A n \in Nat : upto[n] \in Books
  <2> DEFINE Bad == {n \in Nat : upto[n] \notin Books}
  <2>1. SUFFICES ASSUME Bad # {} PROVE FALSE
    OBVIOUS
  <2>2. PICK n \in Bad : \A m \in Bad : n <= m
    BY <2>1, LeastNumber
  <2>3. CASE n = 0
    BY <1>7, <2>2, <2>3
  <2>4. CASE n # 0
    <3>1. n \in Nat /\ n - 1 \in Nat /\ upto[n - 1] \in Books
      BY <2>2, <2>4
    <3>2. upto[n] = IF n \in external THEN ApplyExternal(upto[n - 1], n) ELSE upto[n - 1]
      BY <1>7, <2>4, <3>1
    <3> QED
      BY <1>1, <2>2, <3>1, <3>2, ApplyExternalTyped
  <2> QED
    BY <2>3, <2>4
<1>9. \A n \in Nat \ {0} :
        upto[n] = IF n \in external THEN ApplyExternal(upto[n - 1], n) ELSE upto[n - 1]
  BY <1>7
<1>10. upto \in [Nat -> Books] /\ upto[0] = b
  BY <1>7, <1>8
<1> QED
  BY <1>2, <1>9, <1>10 DEF Replays, external

\* the replay of all of them leaves it well formed too
LEMMA ReplayTyped ==
  ASSUME FillsTyped, NEW b \in Books, NEW rs,
         \A r \in ToSet(rs) : r.fill \in 1..Len(fills)
  PROVE  ReplayFrom(b, rs) \in Books
<1>1. Len(fills) \in Nat
  BY LenProperties DEF FillsTyped
<1> QED
  BY <1>1, ReplayBooks

LEMMA BookStep ==
  ASSUME Typed, book \in Books, [Next]_vars
  PROVE  book' \in Books
<1>1. CASE book' = book
  BY <1>1
<1>2. ASSUME NEW i \in 1..Len(fills), NEW named, Ingest(i, named)
      PROVE  book' \in Books
  BY <1>2, ApplyExternalTyped DEF Ingest, ledger, Typed
<1>3. CASE StreamIngest
  <2>1. stream # <<>> /\ stream \in Seq(1..MaxFills) /\ Ingest(Head(stream), TRUE)
    BY <1>3 DEF StreamIngest, Typed, StreamTyped
  <2>2. Head(stream) = stream[1] /\ Len(stream) \in Nat \ {0}
    BY <2>1
  <2>3. Head(stream) \in 1..Len(fills)
    BY <2>2, Elements
  <2> QED
    BY <1>2, <2>1, <2>3
<1>4. CASE SyncIngest
  <2>1. sync.page # <<>> /\ sync.page \in Seq(1..MaxFills) /\ Ingest(Head(sync.page), FALSE)
    BY <1>4 DEF SyncIngest, Typed, SyncTyped, Syncs
  <2>2. Head(sync.page) = sync.page[1] /\ Len(sync.page) \in Nat \ {0}
    BY <2>1
  <2>3. Head(sync.page) \in 1..Len(fills)
    BY <2>2, Elements
  <2> QED
    BY <1>2, <2>1, <2>3
<1>5. CASE SyncResolve
  <2>1. \A r \in ToSet(Reclassified) : r.fill \in 1..Len(fills)
    BY ReclassifiedTyped, Elements DEF ToSet
  <2>2. NoBook \in Books
    BY EmptySeq DEF NoBook, Books
  <2>3. Replay(Reclassified) \in Books
    BY <2>1, <2>2, ReplayTyped DEF Replay, Typed
  <2> QED
    BY <1>5, <2>3 DEF SyncResolve, ledger
<1>6. CASE EngineFill \/ ManualFill \/ EngineStep \/ Crash
  BY <1>1, <1>6, FillStep, TradeTyped, EngineTyped, CrashTyped
<1>7. CASE StreamDrops \/ SyncBegin \/ SyncFetch \/ SyncFails \/ UNCHANGED vars
  BY <1>1, <1>7 DEF StreamDrops, SyncBegin, SyncFetch, SyncFails, ledger, vars
<1> QED
  BY <1>3, <1>4, <1>5, <1>6, <1>7 DEF Next, SyncStep

\* The ledger, the archive and the compensation keep their types: in particular
\* a trade of the archive is never closed for more than was opened, and is closed
\* exactly when nothing of it is left, whatever fills are applied in whatever
\* order and however often the archive is rebuilt (_apply_external_fill).
THEOREM TypeCorrect == Spec => []TypeOK
<1>1. Init => book \in Books
  BY EmptySeq DEF Init, NoBook, Books
<1>2. Typed /\ book \in Books /\ [Next]_vars => (book \in Books)'
  BY BookStep DEF Books, SoundTrades, Sound, ExternalTrades, Allocations
<1>3. Typed /\ book \in Books => TypeOK
  <2> SUFFICES ASSUME Typed, book \in Books PROVE TypeOK
    OBVIOUS
  <2>1. stream \in Seq(DOMAIN fills) /\ sync.page \in Seq(DOMAIN fills) /\ DOMAIN fills = 1..Len(fills)
    <3>1. /\ stream \in Seq(1..MaxFills) /\ sync.page \in Seq(1..MaxFills)
      BY DEF Typed, StreamTyped, SyncTyped, Syncs
    <3>2. stream \in [1..Len(stream) -> 1..Len(fills)] /\ sync.page \in [1..Len(sync.page) -> 1..Len(fills)]
      BY <3>1, Elements
    <3> QED
      <4> DEFINE D == 1..Len(fills)
      <4>1. DOMAIN fills = D /\ Len(stream) \in Nat /\ Len(sync.page) \in Nat
        BY Elements
      <4>2. stream \in [1..Len(stream) -> D] /\ sync.page \in [1..Len(sync.page) -> D]
        BY <3>2
      <4> HIDE DEF D
      <4>3. stream \in Seq(D)
        BY <4>1, <4>2
      <4>4. sync.page \in Seq(D)
        BY <4>1, <4>2
      <4> QED
        BY <4>1, <4>3, <4>4 DEF D
  <2>2. /\ book.trades \in Seq(ExternalTrades) /\ book.alloc \subseteq Allocations
        /\ \A t \in DOMAIN book.trades :
             /\ book.trades[t].closed <= book.trades[t].opened
             /\ (book.trades[t].status = "closed") <=> (book.trades[t].closed = book.trades[t].opened)
    <3>1. \A t \in DOMAIN book.trades : book.trades[t] \in ExternalTrades /\ Sound(book.trades[t])
      BY BookElements DEF SoundTrades
    <3>2. book.trades \in [1..Len(book.trades) -> ExternalTrades] /\ Len(book.trades) \in Nat
      <4>1. book.trades \in Seq(SoundTrades) /\ book.alloc \in SUBSET Allocations
        BY DEF Books
      <4> QED
        BY <3>1, <4>1, BookElements
    <3> QED
      BY <3>1, <3>2 DEF Sound, Books
  <2>3. /\ sync.pc \in SyncPcs /\ sync.mark \in 0..MaxTime /\ sync.upto \in 0..MaxFills
        /\ sync.since \in Int /\ sync.more \in BOOLEAN /\ sync.ok \in BOOLEAN
    BY DEF Typed, SyncTyped, Syncs
  <2> QED
    BY <2>1, <2>2, <2>3 DEF TypeOK, Typed, FillsTyped, RowsTyped, LocalTyped, FaultsTyped,
                            SyncPcs, EnginePcs
<1> QED
  BY <1>1, <1>2, <1>3, TypedInit, TypedStep, PTL DEF Spec

-----------------------------------------------------------------------------
(* The lots of a set of allocations                                         *)

AllocSets == {S \in SUBSET Allocations : IsFiniteSet(S)}
Some(S) == CHOOSE a \in S : TRUE

\* f sums the lots of every part of S
Sums(f, S) == f = [T \in SUBSET S |-> IF T = {} THEN 0
                                      ELSE Some(T).qty + f[T \ {Some(T)}]]

LEMMA LotsIsSum ==
  ASSUME NEW S
  PROVE  Lots(S) = (CHOOSE f : Sums(f, S))[S]
BY DEF Lots, MapThenSumSet, MapThenFoldSet, Sums, Some

\* a part is finite too, and without one of its members it is smaller
LEMMA PartOf ==
  ASSUME NEW S \in AllocSets
  PROVE  /\ Cardinality(S) \in Nat
         /\ S # {} => Some(S) \in S /\ Some(S) \in Allocations
         /\ \A T \in SUBSET S : T \in AllocSets
         /\ \A a \in S : /\ S \ {a} \in AllocSets /\ a.qty \in Nat
                         /\ Cardinality(S \ {a}) = Cardinality(S) - 1
<1>1. IsFiniteSet(S) /\ S \subseteq Allocations
  BY DEF AllocSets
<1>2. \A T \in SUBSET S : T \in AllocSets
  BY <1>1, FS_Subset DEF AllocSets
<1>3. \A a \in S : Cardinality(S \ {a}) = Cardinality(S) - 1
  BY <1>1, FS_RemoveElement
<1>4. \A a \in S : a.qty \in Nat
  BY <1>1 DEF Allocations
<1> QED
  BY <1>1, <1>2, <1>3, <1>4, FS_CardinalityType DEF Some

\* of sets of allocations that have a property one is smallest
LEMMA SmallestSet ==
  ASSUME NEW Bad \in SUBSET AllocSets, Bad # {}
  PROVE  \E S \in Bad : \A T \in AllocSets : Cardinality(T) < Cardinality(S) => T \notin Bad
<1>1. PICK n \in {Cardinality(S) : S \in Bad} : \A m \in {Cardinality(S) : S \in Bad} : n <= m
  <2>1. \A S \in Bad : Cardinality(S) \in Nat
    BY PartOf
  <2>2. {Cardinality(S) : S \in Bad} \in SUBSET Nat /\ {Cardinality(S) : S \in Bad} # {}
    BY <2>1
  <2> QED
    BY <2>2, LeastNumber
<1>2. PICK S \in Bad : n = Cardinality(S)
  BY <1>1
<1>3. ASSUME NEW T \in Bad, Cardinality(T) < Cardinality(S)
      PROVE  FALSE
  <2>1. Cardinality(T) \in Nat /\ Cardinality(S) \in Nat
    BY PartOf
  <2>2. Cardinality(S) <= Cardinality(T)
    BY <1>1, <1>2
  <2> QED
    BY <1>3, <2>1, <2>2
<1> QED
  BY <1>3

LEMMA SumsUnique ==
  ASSUME NEW A, NEW B, NEW f, NEW g, Sums(f, A), Sums(g, B)
  PROVE  \A S \in AllocSets : S \subseteq A /\ S \subseteq B => f[S] = g[S]
<1> DEFINE Bad == {S \in AllocSets : S \subseteq A /\ S \subseteq B /\ f[S] # g[S]}
<1>1. SUFFICES ASSUME Bad # {} PROVE FALSE
  OBVIOUS
<1>2. PICK S \in Bad : \A T \in AllocSets : Cardinality(T) < Cardinality(S) => T \notin Bad
  BY <1>1, SmallestSet
<1>3. /\ f[S] = IF S = {} THEN 0 ELSE Some(S).qty + f[S \ {Some(S)}]
      /\ g[S] = IF S = {} THEN 0 ELSE Some(S).qty + g[S \ {Some(S)}]
  <2>1. S \in SUBSET A /\ S \in SUBSET B
    BY <1>2
  <2> QED
    BY <2>1, Zenon DEF Sums
<1>4. S # {}
  BY <1>2, <1>3
<1>5. S \ {Some(S)} \in AllocSets /\ Cardinality(S \ {Some(S)}) < Cardinality(S)
  <2>1. Some(S) \in S /\ S \ {Some(S)} \in AllocSets
        /\ Cardinality(S \ {Some(S)}) = Cardinality(S) - 1 /\ Cardinality(S) \in Nat
    BY <1>2, <1>4, PartOf
  <2> QED
    BY <2>1
<1>6. f[S \ {Some(S)}] = g[S \ {Some(S)}]
  BY <1>2, <1>5
<1> QED
  BY <1>2, <1>3, <1>4, <1>6

LEMMA SumsExists ==
  \A S \in AllocSets : \E f \in [SUBSET S -> Nat] : Sums(f, S)
<1> DEFINE Bad == {S \in AllocSets : ~\E f \in [SUBSET S -> Nat] : Sums(f, S)}
<1>1. SUFFICES ASSUME Bad # {} PROVE FALSE
  OBVIOUS
<1>2. PICK S \in Bad : \A T \in AllocSets : Cardinality(T) < Cardinality(S) => T \notin Bad
  BY <1>1, SmallestSet
<1> DEFINE G(T) == CHOOSE f \in [SUBSET T -> Nat] : Sums(f, T)
           F(T) == IF T = {} THEN 0 ELSE Some(T).qty + G(T \ {Some(T)})[T \ {Some(T)}]
           h == [T \in SUBSET S |-> F(T)]
<1>3. ASSUME NEW T \in AllocSets, Cardinality(T) < Cardinality(S)
      PROVE  G(T) \in [SUBSET T -> Nat] /\ Sums(G(T), T)
  BY <1>2, <1>3
<1> HIDE DEF G
<1>4. ASSUME NEW T \in SUBSET S, T # {}
      PROVE  /\ Some(T) \in T /\ Some(T).qty \in Nat
             /\ T \ {Some(T)} \in AllocSets /\ T \in AllocSets
             /\ Cardinality(T \ {Some(T)}) < Cardinality(S)
  <2>1. T \in AllocSets /\ S \in AllocSets
    BY <1>2, PartOf
  <2>2. Some(T) \in T /\ Some(T).qty \in Nat /\ T \ {Some(T)} \in AllocSets
    BY <2>1, <1>4, PartOf
  <2>3. T \ {Some(T)} \in SUBSET (S \ {Some(T)})
    OBVIOUS
  <2>4. Cardinality(S \ {Some(T)}) = Cardinality(S) - 1 /\ S \ {Some(T)} \in AllocSets
        /\ Cardinality(S) \in Nat
    BY <2>1, <2>2, PartOf
  <2>5. Cardinality(T \ {Some(T)}) <= Cardinality(S \ {Some(T)})
    BY <2>3, <2>4, FS_Subset DEF AllocSets
  <2>6. Cardinality(T \ {Some(T)}) \in Nat
    BY <2>2, PartOf
  <2> QED
    BY <2>1, <2>2, <2>4, <2>5, <2>6
<1>5. h \in [SUBSET S -> Nat]
  <2>1. ASSUME NEW T \in SUBSET S PROVE F(T) \in Nat
    <3>1. CASE T = {}
      BY <3>1
    <3>2. CASE T # {}
      <4>1. G(T \ {Some(T)})[T \ {Some(T)}] \in Nat
        <5> PICK U : U = T \ {Some(T)}
          OBVIOUS
        <5>1. U \in AllocSets /\ Cardinality(U) < Cardinality(S)
          BY <3>2, <1>4
        <5>2. G(U) \in [SUBSET U -> Nat] /\ U \in SUBSET U
          BY <5>1, <1>3
        <5>3. G(U)[U] \in Nat
          BY <5>2
        <5> QED
          BY <5>3
      <4> QED
        BY <3>2, <4>1, <1>4
    <3> QED
      BY <3>1, <3>2
  <2> QED
    BY <2>1
<1>6. \A T \in AllocSets : T \subseteq S /\ Cardinality(T) < Cardinality(S) => F(T) = G(T)[T]
  <2> SUFFICES ASSUME NEW T \in AllocSets, T \subseteq S, Cardinality(T) < Cardinality(S)
               PROVE  F(T) = G(T)[T]
    OBVIOUS
  <2>1. Sums(G(T), T)
    BY <1>3
  <2>2. G(T)[T] = IF T = {} THEN 0 ELSE Some(T).qty + G(T)[T \ {Some(T)}]
    <3>1. T \in SUBSET T
      OBVIOUS
    <3> QED
      BY <2>1, <3>1, Zenon DEF Sums
  <2>3. CASE T # {}
    <3>1. T \ {Some(T)} \in AllocSets /\ Cardinality(T \ {Some(T)}) < Cardinality(S)
      BY <2>3, <1>4
    <3>2. G(T)[T \ {Some(T)}] = G(T \ {Some(T)})[T \ {Some(T)}]
      <4> PICK U : U = T \ {Some(T)}
        OBVIOUS
      <4>1. U \in AllocSets /\ U \subseteq T /\ U \subseteq U /\ Sums(G(U), U)
        BY <3>1, <1>3
      <4>2. G(T)[U] = G(U)[U]
        BY <2>1, <4>1, SumsUnique
      <4> QED
        BY <4>2
    <3> QED
      BY <2>2, <2>3, <3>2
  <2> QED
    BY <2>2, <2>3
<1>7. Sums(h, S)
  <2>1. ASSUME NEW T \in SUBSET S
        PROVE  F(T) = IF T = {} THEN 0 ELSE Some(T).qty + h[T \ {Some(T)}]
    <3>1. CASE T # {}
      <4>1. h[T \ {Some(T)}] = F(T \ {Some(T)})
        OBVIOUS
      <4>2. F(T \ {Some(T)}) = G(T \ {Some(T)})[T \ {Some(T)}]
        BY <1>4, <1>6, <3>1
      <4> HIDE DEF h
      <4> QED
        BY <3>1, <4>1, <4>2
    <3> QED
      BY <3>1
  <2> HIDE DEF F
  <2>2. h = [T \in SUBSET S |-> IF T = {} THEN 0 ELSE Some(T).qty + h[T \ {Some(T)}]]
    BY <2>1, Zenon
  <2> QED
    BY <2>2 DEF Sums
<1> HIDE DEF h
<1> QED
  BY <1>2, <1>5, <1>7

\* the sum by its members, whichever is taken first
LEMMA LotsByChoice ==
  ASSUME NEW S \in AllocSets
  PROVE  /\ Lots(S) \in Nat
         /\ S = {} => Lots(S) = 0
         /\ S # {} => Lots(S) = Some(S).qty + Lots(S \ {Some(S)})
<1> DEFINE G(T) == CHOOSE f : Sums(f, T)
<1>1. \A T \in AllocSets : \E f : Sums(f, T) /\ f \in [SUBSET T -> Nat]
  BY SumsExists
<1>2. \A T \in AllocSets : Sums(G(T), T) /\ Lots(T) = G(T)[T]
  BY <1>1, LotsIsSum
<1> HIDE DEF G
<1>3. \A T \in AllocSets : G(T)[T] \in Nat
  <2> SUFFICES ASSUME NEW T \in AllocSets PROVE G(T)[T] \in Nat
    OBVIOUS
  <2>1. PICK f \in [SUBSET T -> Nat] : Sums(f, T)
    BY SumsExists
  <2>2. f[T] = G(T)[T]
    BY <1>2, <2>1, SumsUnique
  <2> QED
    BY <2>1, <2>2
<1>4. G(S)[S] = IF S = {} THEN 0 ELSE Some(S).qty + G(S)[S \ {Some(S)}]
  <2>1. S \in SUBSET S /\ Sums(G(S), S)
    BY <1>2
  <2> QED
    BY <2>1, Zenon DEF Sums
<1>5. CASE S # {}
  <2>1. S \ {Some(S)} \in AllocSets
    BY <1>5, PartOf
  <2>2. G(S)[S \ {Some(S)}] = G(S \ {Some(S)})[S \ {Some(S)}]
    BY <1>2, <2>1, SumsUnique
  <2> QED
    BY <1>2, <1>3, <1>4, <1>5, <2>1, <2>2
<1> QED
  BY <1>2, <1>3, <1>4, <1>5

LEMMA LotsByMember ==
  \A S \in AllocSets : \A a \in S : Lots(S) = a.qty + Lots(S \ {a})
<1> DEFINE Bad == {S \in AllocSets : \E a \in S : Lots(S) # a.qty + Lots(S \ {a})}
<1>1. SUFFICES ASSUME Bad # {} PROVE FALSE
  OBVIOUS
<1>2. PICK S \in Bad : \A T \in AllocSets : Cardinality(T) < Cardinality(S) => T \notin Bad
  BY <1>1, SmallestSet
<1>3. PICK a \in S : Lots(S) # a.qty + Lots(S \ {a})
  BY <1>2
<1> DEFINE c == Some(S)
<1>4. c \in S /\ Lots(S) = c.qty + Lots(S \ {c})
  BY <1>2, <1>3, LotsByChoice, PartOf
<1> HIDE DEF c
<1>5. a # c
  BY <1>3, <1>4
<1>6. /\ S \ {a} \in AllocSets /\ S \ {c} \in AllocSets
      /\ Cardinality(S \ {a}) = Cardinality(S) - 1 /\ Cardinality(S \ {c}) = Cardinality(S) - 1
      /\ Cardinality(S) \in Nat /\ a.qty \in Nat /\ c.qty \in Nat
  BY <1>2, <1>3, <1>4, PartOf
<1>7. S \ {a} \notin Bad /\ S \ {c} \notin Bad
  <2>1. Cardinality(S \ {a}) < Cardinality(S) /\ Cardinality(S \ {c}) < Cardinality(S)
    BY <1>6
  <2> QED
    BY <1>2, <1>6, <2>1
<1>8. /\ Lots(S \ {c}) = a.qty + Lots((S \ {c}) \ {a})
      /\ Lots(S \ {a}) = c.qty + Lots((S \ {a}) \ {c})
  BY <1>3, <1>4, <1>5, <1>6, <1>7
<1>9. (S \ {c}) \ {a} = (S \ {a}) \ {c} /\ (S \ {a}) \ {c} \in AllocSets
  <2>1. (S \ {a}) \ {c} \in AllocSets
    BY <1>6, PartOf
  <2> QED
    BY <2>1
<1>10. Lots((S \ {a}) \ {c}) \in Nat
  BY <1>9, LotsByChoice
<1>11. PICK n \in Nat, i \in Nat, j \in Nat :
          n = Lots((S \ {a}) \ {c}) /\ i = a.qty /\ j = c.qty
  BY <1>6, <1>10
<1>12. Lots(S \ {c}) = i + n /\ Lots(S \ {a}) = j + n
  BY <1>8, <1>9, <1>11, Zenon
<1>13. Lots(S) = j + (i + n) /\ Lots(S) # i + (j + n)
  BY <1>3, <1>4, <1>11, <1>12, Zenon
<1> QED
  BY <1>13

\* a new allocation adds its lots
LEMMA LotsAdd ==
  ASSUME NEW S \in AllocSets, NEW a \in Allocations, a \notin S
  PROVE  S \cup {a} \in AllocSets /\ Lots(S \cup {a}) = Lots(S) + a.qty /\ Lots(S) \in Nat
<1>1. S \cup {a} \in AllocSets
  BY FS_AddElement DEF AllocSets
<1>2. (S \cup {a}) \ {a} = S
  OBVIOUS
<1>3. Lots(S \cup {a}) = a.qty + Lots(S)
  <2>1. a \in S \cup {a}
    OBVIOUS
  <2> QED
    BY <1>1, <1>2, <2>1, LotsByMember, Zenon
<1>4. Lots(S) \in Nat /\ a.qty \in Nat
  BY LotsByChoice DEF Allocations
<1>5. a.qty + Lots(S) = Lots(S) + a.qty
  BY <1>4
<1> QED
  BY <1>1, <1>3, <1>4, <1>5

LEMMA LotsOfNone == {} \in AllocSets /\ Lots({}) = 0
<1>1. {} \in AllocSets
  BY FS_EmptySet DEF AllocSets
<1> QED
  BY <1>1, LotsByChoice

-----------------------------------------------------------------------------
(* What the archive says of a fill and of a trade                           *)

OfFill(S, i) == {a \in S : a.fill = i}
Out(S, t) == {a \in S : a.trade = t /\ a.role = "EXIT"}
Into(S, t) == {a \in S : a.trade = t /\ a.role # "EXIT"}

Owned(t) == IF t.carry THEN 0 ELSE t.opened

\* w[i] lots of each fill i are in the book, and each trade has the lots it was
\* opened and closed with.
Archived(b, w) ==
  /\ b.alloc \in AllocSets
  /\ \A a \in b.alloc : a.trade \in DOMAIN b.trades /\ w[a.fill] # 0
  /\ \A i \in Nat : Lots(OfFill(b.alloc, i)) = w[i]
  /\ \A t \in DOMAIN b.trades : /\ Lots(Out(b.alloc, t)) = b.trades[t].closed
                                /\ Lots(Into(b.alloc, t)) = Owned(b.trades[t])
                                /\ b.trades[t].carry => b.trades[t].status = "closed"

\* a part chosen by a property, and the same with one allocation more
LEMMA PartAdd ==
  ASSUME NEW S \in AllocSets, NEW x \in Allocations, x \notin S,
         NEW P \in SUBSET Allocations
  PROVE  /\ Lots((S \cup {x}) \cap P) = Lots(S \cap P) + IF x \in P THEN x.qty ELSE 0
         /\ Lots(S \cap P) \in Nat
<1>1. S \cap P \in AllocSets /\ x \notin S \cap P
  BY PartOf
<1>2. Lots(S \cap P) \in Nat
  BY <1>1, LotsByChoice
<1>3. CASE x \in P
  <2>1. (S \cup {x}) \cap P = (S \cap P) \cup {x}
    BY <1>3
  <2> QED
    BY <1>1, <1>2, <1>3, <2>1, LotsAdd
<1>4. CASE x \notin P
  <2>1. (S \cup {x}) \cap P = S \cap P
    BY <1>4
  <2> QED
    BY <1>2, <1>4, <2>1
<1> QED
  BY <1>2, <1>3, <1>4

\* T has the lots of S and those of one allocation
Adds(S, T, t, i, role, qty) ==
  /\ \A j : /\ Lots(OfFill(S, j)) \in Nat
            /\ Lots(OfFill(T, j)) = Lots(OfFill(S, j)) + IF j = i THEN qty ELSE 0
  /\ \A u : /\ Lots(Out(S, u)) \in Nat /\ Lots(Into(S, u)) \in Nat
            /\ Lots(Out(T, u)) = Lots(Out(S, u)) + IF u = t /\ role = "EXIT" THEN qty ELSE 0
            /\ Lots(Into(T, u)) = Lots(Into(S, u)) + IF u = t /\ role # "EXIT" THEN qty ELSE 0

LEMMA AllocationAdds ==
  ASSUME NEW S \in AllocSets, NEW x \in Allocations, x \notin S
  PROVE  S \cup {x} \in AllocSets /\ Adds(S, S \cup {x}, x.trade, x.fill, x.role, x.qty)
<1> PICK t, i, role, qty : t = x.trade /\ i = x.fill /\ role = x.role /\ qty = x.qty
  OBVIOUS
<1>1. S \in SUBSET Allocations /\ qty \in Nat
  BY DEF Allocations, AllocSets
<1>2. S \cup {x} \in AllocSets
  BY <1>1, LotsAdd
<1>3. ASSUME NEW j
      PROVE  /\ Lots(OfFill(S, j)) \in Nat
             /\ Lots(OfFill(S \cup {x}, j)) = Lots(OfFill(S, j)) + IF j = i THEN qty ELSE 0
  <2> PICK P \in SUBSET Allocations : P = OfFill(Allocations, j)
    BY DEF OfFill
  <2>1. OfFill(S, j) = S \cap P /\ OfFill(S \cup {x}, j) = (S \cup {x}) \cap P
        /\ (x \in P <=> j = i)
    BY <1>1 DEF OfFill
  <2>2. /\ Lots((S \cup {x}) \cap P) = Lots(S \cap P) + IF x \in P THEN x.qty ELSE 0
        /\ Lots(S \cap P) \in Nat
    BY <1>1, PartAdd
  <2>3. (IF x \in P THEN x.qty ELSE 0) = IF j = i THEN qty ELSE 0
    BY <1>1, <2>1
  <2> QED
    BY <2>1, <2>2, <2>3, Zenon
<1>4. ASSUME NEW u
      PROVE  /\ Lots(Out(S, u)) \in Nat
             /\ Lots(Out(S \cup {x}, u)) = Lots(Out(S, u)) + IF u = t /\ role = "EXIT" THEN qty ELSE 0
  <2> PICK P \in SUBSET Allocations : P = Out(Allocations, u)
    BY DEF Out
  <2>1. Out(S, u) = S \cap P /\ Out(S \cup {x}, u) = (S \cup {x}) \cap P
        /\ (x \in P <=> u = t /\ role = "EXIT")
    BY <1>1 DEF Out
  <2>2. /\ Lots((S \cup {x}) \cap P) = Lots(S \cap P) + IF x \in P THEN x.qty ELSE 0
        /\ Lots(S \cap P) \in Nat
    BY <1>1, PartAdd
  <2>3. (IF x \in P THEN x.qty ELSE 0) = IF u = t /\ role = "EXIT" THEN qty ELSE 0
    BY <1>1, <2>1
  <2> QED
    BY <2>1, <2>2, <2>3, Zenon
<1>5. ASSUME NEW u
      PROVE  /\ Lots(Into(S, u)) \in Nat
             /\ Lots(Into(S \cup {x}, u)) = Lots(Into(S, u)) + IF u = t /\ role # "EXIT" THEN qty ELSE 0
  <2> PICK P \in SUBSET Allocations : P = Into(Allocations, u)
    BY DEF Into
  <2>1. Into(S, u) = S \cap P /\ Into(S \cup {x}, u) = (S \cup {x}) \cap P
        /\ (x \in P <=> u = t /\ role # "EXIT")
    BY <1>1 DEF Into
  <2>2. /\ Lots((S \cup {x}) \cap P) = Lots(S \cap P) + IF x \in P THEN x.qty ELSE 0
        /\ Lots(S \cap P) \in Nat
    BY <1>1, PartAdd
  <2>3. (IF x \in P THEN x.qty ELSE 0) = IF u = t /\ role # "EXIT" THEN qty ELSE 0
    BY <1>1, <2>1
  <2> QED
    BY <2>1, <2>2, <2>3, Zenon
<1> QED
  BY <1>2, <1>3, <1>4, <1>5, Zenon DEF Adds

\* t is a trade of which some lots were closed and opened, after one more allocation
Grows(t, closed, owned, role, qty) ==
  /\ t.closed = closed + IF role = "EXIT" THEN qty ELSE 0
  /\ Owned(t) = owned + IF role # "EXIT" THEN qty ELSE 0
  /\ t.carry => t.status = "closed"

\* w with some lots of fill i more
With(w, i, qty) == [j \in Nat |-> IF j = i THEN w[j] + qty ELSE w[j]]

\* c is b with one allocation more, and its trade changed by as much
Succeeds(b, c, w, t, i, role, qty) ==
  /\ b \in Books /\ c \in Books /\ w \in [Nat -> Nat] /\ Archived(b, w)
  /\ t \in Nat \ {0} /\ i \in 1..MaxFills
  /\ role \in {"ENTRY", "EXIT", "REVERSAL_ENTRY"} /\ qty \in Nat \ {0}
  /\ Allocation(t, i, role, qty) \notin b.alloc
  /\ c.alloc = b.alloc \cup {Allocation(t, i, role, qty)}
  /\ t \in DOMAIN c.trades /\ DOMAIN b.trades \cup {t} = DOMAIN c.trades
  /\ \A u \in DOMAIN b.trades \ {t} : c.trades[u] = b.trades[u]
  /\ Grows(c.trades[t], Lots(Out(b.alloc, t)), Lots(Into(b.alloc, t)), role, qty)

LEMMA ArchiveAdds ==
  ASSUME NEW b, NEW c, NEW w, NEW t, NEW i, NEW role, NEW qty,
         Succeeds(b, c, w, t, i, role, qty)
  PROVE  Archived(c, With(w, i, qty)) /\ With(w, i, qty) \in [Nat -> Nat]
<1> USE DEF Succeeds
<1>1. b.alloc \in AllocSets /\ MaxFills \in Nat
  BY Bounds DEF Archived
<1> PICK x : x = Allocation(t, i, role, qty)
  OBVIOUS
<1> PICK v : v = With(w, i, qty)
  OBVIOUS
<1>2. /\ c.alloc \in AllocSets /\ c.alloc = b.alloc \cup {x}
      /\ x.trade = t /\ x.fill = i
      /\ Adds(b.alloc, c.alloc, t, i, role, qty)
  <2>1. b.alloc \in AllocSets /\ x \notin b.alloc /\ c.alloc = b.alloc \cup {x}
    BY <1>1
  <2>2. /\ b.alloc \cup {x} \in AllocSets /\ x.trade = t /\ x.fill = i
        /\ Adds(b.alloc, b.alloc \cup {x}, t, i, role, qty)
    <3>1. /\ x \in Allocations /\ x.trade = t /\ x.fill = i /\ x.role = role
          /\ x.qty = qty
      BY DEF Allocation, Allocations
    <3>2. /\ b.alloc \cup {x} \in AllocSets
          /\ Adds(b.alloc, b.alloc \cup {x}, x.trade, x.fill, x.role, x.qty)
      BY <2>1, <3>1, AllocationAdds
    <3> QED
      BY <3>1, <3>2, Zenon
  <2> QED
    BY <2>1, <2>2, Zenon
<1>3. /\ v \in [Nat -> Nat] /\ i \in Nat
      /\ \A j \in Nat : v[j] = w[j] + IF j = i THEN qty ELSE 0
      /\ \A j \in Nat : w[j] # 0 \/ j = i => v[j] # 0
  BY <1>1 DEF With
<1>4. ASSUME NEW a \in c.alloc PROVE a.trade \in DOMAIN c.trades /\ v[a.fill] # 0
  <2>1. CASE a = x
    BY <1>2, <1>3, <2>1
  <2>2. CASE a \in b.alloc
    <3>1. a.fill \in Nat
      BY <1>1, <2>2 DEF AllocSets, Allocations
    <3> QED
      BY <1>3, <2>2, <3>1 DEF Archived
  <2> QED
    BY <1>2, <2>1, <2>2
<1>5. ASSUME NEW j \in Nat PROVE Lots(OfFill(c.alloc, j)) = v[j]
  <2>1. Lots(OfFill(b.alloc, j)) = w[j]
    BY DEF Archived
  <2>2. Lots(OfFill(c.alloc, j)) = w[j] + IF j = i THEN qty ELSE 0
    BY <1>2, <2>1, Zenon DEF Adds
  <2> QED
    BY <1>3, <2>2, Zenon
<1>6. ASSUME NEW u \in DOMAIN c.trades
      PROVE  /\ Lots(Out(c.alloc, u)) = c.trades[u].closed
             /\ Lots(Into(c.alloc, u)) = Owned(c.trades[u])
             /\ c.trades[u].carry => c.trades[u].status = "closed"
  <2>1. CASE u = t
    BY <1>2, <2>1, Zenon DEF Adds, Grows
  <2>2. CASE u # t
    <3>1. u \in DOMAIN b.trades /\ c.trades[u] = b.trades[u]
      BY <2>2
    <3>2. Lots(Out(c.alloc, u)) = Lots(Out(b.alloc, u)) /\ Lots(Into(c.alloc, u)) = Lots(Into(b.alloc, u))
      <4> PICK m \in Nat, n \in Nat : m = Lots(Out(b.alloc, u)) /\ n = Lots(Into(b.alloc, u))
        BY <1>2, Zenon DEF Adds
      <4>1. /\ Lots(Out(c.alloc, u)) = m + IF u = t /\ role = "EXIT" THEN qty ELSE 0
            /\ Lots(Into(c.alloc, u)) = n + IF u = t /\ role # "EXIT" THEN qty ELSE 0
        BY <1>2, Zenon DEF Adds
      <4>2. m + 0 = m /\ n + 0 = n
        OBVIOUS
      <4>3. Lots(Out(c.alloc, u)) = m /\ Lots(Into(c.alloc, u)) = n
        BY <2>2, <4>1, <4>2
      <4> QED
        BY <4>3
    <3> QED
      BY <3>1, <3>2 DEF Archived
  <2> QED
    BY <2>1, <2>2
<1> QED
  BY <1>2, <1>3, <1>4, <1>5, <1>6 DEF Archived

LEMMA NextNumber ==
  ASSUME NEW n \in Nat
  PROVE  /\ n + 1 \in Nat \ {0} /\ n + 1 \in 1..(n + 1) /\ n + 1 \notin 1..n
         /\ (1..n) \cup {n + 1} = 1..(n + 1) /\ \A t \in 1..n : t \in Nat \ {0}
OBVIOUS

\* a trade that a fill made
LEMMA ArchiveOpens ==
  ASSUME NEW b \in Books, NEW w \in [Nat -> Nat], Archived(b, w),
         NEW i \in 1..MaxFills, NEW role \in {"ENTRY", "EXIT", "REVERSAL_ENTRY"},
         NEW qty \in Nat \ {0}, NEW tr \in SoundTrades, Grows(tr, 0, 0, role, qty)
  PROVE  Archived(WithTrade(b, tr, i, role, qty), With(w, i, qty))
<1> PICK n \in Nat : n = Len(b.trades)
  BY BookElements
<1> PICK t \in Nat \ {0} : t = n + 1
  BY NextNumber, Zenon
<1> PICK c : c = WithTrade(b, tr, i, role, qty)
  OBVIOUS
<1>1. /\ DOMAIN b.trades = 1..n /\ t \notin DOMAIN b.trades
      /\ b.trades \in Seq(SoundTrades)
  <2>1. b.trades \in Seq(SoundTrades)
    BY DEF Books
  <2>2. DOMAIN b.trades = 1..n
    BY BookElements, Zenon
  <2>3. t \notin 1..n
    BY NextNumber, Zenon
  <2> QED
    BY <2>1, <2>2, <2>3, Zenon
<1>2. /\ c.trades = Append(b.trades, tr)
      /\ c.alloc = b.alloc \cup {Allocation(t, i, role, qty)}
      /\ c = [trades |-> Append(b.trades, tr), alloc |-> b.alloc \cup {Allocation(t, i, role, qty)}]
  BY DEF WithTrade
<1>3. /\ DOMAIN c.trades = 1..t /\ c.trades[t] = tr
      /\ \A u \in DOMAIN b.trades : c.trades[u] = b.trades[u]
  <2>1. /\ Len(Append(b.trades, tr)) = n + 1 /\ Append(b.trades, tr)[n + 1] = tr
        /\ \A u \in 1..n : Append(b.trades, tr)[u] = b.trades[u]
        /\ DOMAIN Append(b.trades, tr) = 1..(n + 1)
    BY <1>1, AppendProperties
  <2> QED
    BY <1>1, <1>2, <2>1
<1>4. Allocation(t, i, role, qty) \in Allocations /\ Allocation(t, i, role, qty).trade = t
  BY DEF Allocation, Allocations
<1>5. c \in Books
  <2>1. [trades |-> Append(b.trades, tr), alloc |-> b.alloc \cup {Allocation(t, i, role, qty)}]
          \in Books
    BY <1>4, BookEdits, Zenon
  <2> QED
    BY <1>2, <2>1, Zenon
<1>6. \A a \in b.alloc : a.trade # t
  BY <1>1 DEF Archived
<1>7. Lots(Out(b.alloc, t)) = 0 /\ Lots(Into(b.alloc, t)) = 0
  <2>1. Out(b.alloc, t) = {} /\ Into(b.alloc, t) = {}
    BY <1>6 DEF Out, Into
  <2> QED
    BY <2>1, LotsOfNone, Zenon
<1>8. Allocation(t, i, role, qty) \notin b.alloc
  BY <1>4, <1>6
<1>9. Grows(c.trades[t], Lots(Out(b.alloc, t)), Lots(Into(b.alloc, t)), role, qty)
  BY <1>3, <1>7, Zenon
<1>10. /\ t \in DOMAIN c.trades /\ DOMAIN b.trades \cup {t} = DOMAIN c.trades
       /\ \A u \in DOMAIN b.trades \ {t} : c.trades[u] = b.trades[u]
  <2>1. (1..n) \cup {t} = 1..t /\ t \in 1..t
    BY NextNumber, Zenon
  <2> QED
    BY <1>1, <1>3, <2>1, Zenon
<1>11. Succeeds(b, c, w, t, i, role, qty)
  BY <1>2, <1>5, <1>8, <1>9, <1>10, Zenon DEF Succeeds
<1> QED
  BY <1>11, ArchiveAdds, Zenon

\* a trade that a fill changed, before which the book had nothing of the fill
LEMMA ArchiveEdits ==
  ASSUME NEW b \in Books, NEW w \in [Nat -> Nat], Archived(b, w),
         NEW i \in 1..MaxFills, NEW role \in {"ENTRY", "EXIT", "REVERSAL_ENTRY"},
         NEW qty \in Nat \ {0}, w[i] = 0,
         NEW t \in DOMAIN b.trades, NEW tr \in SoundTrades, ~b.trades[t].carry,
         Grows(tr, b.trades[t].closed, b.trades[t].opened, role, qty),
         NEW c, c = [trades |-> [b.trades EXCEPT ![t] = tr],
                     alloc |-> b.alloc \cup {Allocation(t, i, role, qty)}]
  PROVE  Archived(c, With(w, i, qty)) /\ c \in Books
<1>1. /\ t \in Nat \ {0}
      /\ c.trades = [b.trades EXCEPT ![t] = tr]
      /\ c.alloc = b.alloc \cup {Allocation(t, i, role, qty)}
  <2>1. Len(b.trades) \in Nat /\ t \in 1..Len(b.trades)
    BY BookElements, Zenon
  <2>2. t \in Nat \ {0}
    BY <2>1, NextNumber, Zenon
  <2> QED
    BY <2>2
<1>2. /\ DOMAIN c.trades = DOMAIN b.trades /\ c.trades[t] = tr
      /\ \A u \in DOMAIN b.trades \ {t} : c.trades[u] = b.trades[u]
  BY <1>1
<1>3. Allocation(t, i, role, qty) \in Allocations /\ Allocation(t, i, role, qty).fill = i
  BY <1>1 DEF Allocation, Allocations
<1>4. c \in Books
  BY <1>3, BookEdits, Zenon
<1>5. Allocation(t, i, role, qty) \notin b.alloc
  BY <1>3 DEF Archived
<1>6. /\ Lots(Out(b.alloc, t)) = b.trades[t].closed
      /\ Lots(Into(b.alloc, t)) = b.trades[t].opened
  BY DEF Archived, Owned
<1>7. Grows(c.trades[t], Lots(Out(b.alloc, t)), Lots(Into(b.alloc, t)), role, qty)
  BY <1>2, <1>6, Zenon
<1>8. t \in DOMAIN c.trades /\ DOMAIN b.trades \cup {t} = DOMAIN c.trades
  BY <1>2
<1>9. Succeeds(b, c, w, t, i, role, qty)
  BY <1>1, <1>2, <1>4, <1>5, <1>7, <1>8, Zenon DEF Succeeds
<1> QED
  BY <1>4, <1>9, ArchiveAdds, Zenon

\* what an external fill says
LEMMA FillTyped ==
  ASSUME FillsTyped, NEW i \in 1..Len(fills)
  PROVE  /\ fills[i] \in Fills /\ i \in 1..MaxFills /\ TimeOf(i) \in 1..MaxTime
         /\ fills[i].qty \in Nat \ {0}
         /\ Direction(fills[i]) \in {"long", "short"}
         /\ Opposite(fills[i]) \in {"long", "short"}
<1>1. /\ fills[i] \in Fills /\ i \in 1..MaxFills /\ TimeOf(i) \in 1..MaxTime
  <2>1. fills \in Seq(Fills) /\ Len(fills) <= MaxFills
    BY DEF FillsTyped
  <2>2. fills[i] \in Fills /\ Len(fills) \in Nat
    BY <2>1, ElementOfSeq, LenProperties
  <2> QED
    BY <2>1, <2>2, Bounds DEF TimeOf
<1>2. fills[i].qty \in Nat \ {0}
  BY <1>1, LedgerAssumption DEF Fills
<1> QED
  BY <1>1, <1>2 DEF Direction, Opposite

\* the trades that a fill makes and changes
LEMMA NewTradeGrows ==
  ASSUME NEW i, TimeOf(i) \in 1..MaxTime, NEW d \in {"long", "short"}, NEW k \in Nat \ {0},
         NEW role \in {"ENTRY", "REVERSAL_ENTRY"}
  PROVE  NewTrade(i, d, k) \in SoundTrades /\ Grows(NewTrade(i, d, k), 0, 0, role, k)
<1> DEFINE t == NewTrade(i, d, k)
<1>1. t \in ExternalTrades /\ t.opened = k /\ t.closed = 0 /\ t.status = "open" /\ ~t.carry
  BY DEF NewTrade, ExternalTrades
<1> HIDE DEF t
<1>2. t \in SoundTrades
  BY <1>1 DEF SoundTrades, Sound
<1>3. Grows(t, 0, 0, role, k)
  BY <1>1 DEF Grows, Owned
<1> QED
  BY <1>2, <1>3 DEF t

LEMMA CarriedGrows ==
  ASSUME NEW i, TimeOf(i) \in 1..MaxTime, NEW d \in {"long", "short"}, NEW k \in Nat \ {0},
         NEW t, t = [NewTrade(i, d, k) EXCEPT !.closed = k, !.status = "closed", !.carry = TRUE]
  PROVE  t \in SoundTrades /\ Grows(t, 0, 0, "EXIT", k)
<1>1. t \in ExternalTrades /\ t.opened = k /\ t.closed = k /\ t.status = "closed" /\ t.carry
  BY DEF NewTrade, ExternalTrades
<1>2. t \in SoundTrades
  <2>1. k <= k
    OBVIOUS
  <2> QED
    BY <1>1, <2>1, Zenon DEF SoundTrades, Sound
<1>3. Grows(t, 0, 0, "EXIT", k)
  BY <1>1 DEF Grows, Owned
<1> QED
  BY <1>2, <1>3

\* a trade that is not closed
Going(t) == t \in SoundTrades /\ t.status # "closed" /\ ~t.carry

\* what is open of it, what a fill closes, and what is left of the fill
Split(t, q, left, k) == /\ left = t.opened - t.closed /\ k <= t.opened - t.closed
                        /\ k = Min({left, q})
                        /\ q # k => q - k \in Nat \ {0} /\ k + (q - k) = q

LEMMA LeftOver ==
  ASSUME NEW t, Going(t), NEW q \in Nat \ {0}
  PROVE  \E left, k \in Nat \ {0} : Split(t, q, left, k)
<1>1. t.opened \in Nat /\ t.closed \in Nat /\ t.closed < t.opened
  BY DEF Going, SoundTrades, ExternalTrades, Sound
<1>2. PICK left \in Nat \ {0} : left = t.opened - t.closed
  BY <1>1
<1>3. PICK k \in Nat \ {0} : k = (IF left <= q THEN left ELSE q) /\ k <= left /\ k <= q
  OBVIOUS
<1>4. Min({left, q}) = k
  BY <1>3, MinOfTwo
<1>5. q # k => q - k \in Nat \ {0} /\ k + (q - k) = q
  BY <1>3
<1> QED
  BY <1>2, <1>3, <1>4, <1>5 DEF Split

Twice(w, i, k, d) == /\ With(w, i, k) \in [Nat -> Nat]
                     /\ With(With(w, i, k), i, d) = With(w, i, k + d)

LEMMA WithTwice ==
  ASSUME NEW w \in [Nat -> Nat], NEW i, NEW k \in Nat, NEW d \in Nat
  PROVE  Twice(w, i, k, d)
<1>1. With(w, i, k) \in [Nat -> Nat]
  BY DEF With
<1>2. \A j \in Nat : (w[j] + k) + d = w[j] + (k + d)
  OBVIOUS
<1> QED
  BY <1>1, <1>2 DEF With, Twice

LEMMA AddedGrows ==
  ASSUME NEW t, Going(t), NEW k \in Nat \ {0},
         NEW u, u = [t EXCEPT !.opened = @ + k,
                              !.status = IF t.closed = 0 THEN "open" ELSE "partial"]
  PROVE  u \in SoundTrades /\ Grows(u, t.closed, t.opened, "ENTRY", k)
<1>1. /\ t \in ExternalTrades /\ t.opened \in Nat /\ t.closed \in Nat /\ t.closed <= t.opened
      /\ ~t.carry /\ t.carry \in BOOLEAN
  BY DEF Going, SoundTrades, ExternalTrades, Sound
<1> PICK s : s = IF t.closed = 0 THEN "open" ELSE "partial"
  OBVIOUS
<1> PICK opened : opened = t.opened + k
  OBVIOUS
<1>2. u = [t EXCEPT !.opened = opened, !.closed = t.closed, !.status = s, !.carry = t.carry]
  BY <1>1 DEF ExternalTrades
<1>3. /\ opened \in Nat \ {0} /\ t.closed <= opened /\ s \in {"open", "partial", "closed"}
      /\ s = "closed" <=> t.closed = opened
  BY <1>1
<1>4. u \in SoundTrades
  <2>1. [t EXCEPT !.opened = opened, !.closed = t.closed, !.status = s, !.carry = t.carry]
          \in SoundTrades
    BY <1>1, <1>3, TradeFields
  <2> QED
    BY <1>2, <2>1, Zenon
<1>5. u.opened = opened /\ u.closed = t.closed /\ ~u.carry
  BY <1>1, <1>2 DEF ExternalTrades
<1>6. t.closed + 0 = t.closed
  BY <1>1
<1> QED
  BY <1>4, <1>5, <1>6 DEF Grows, Owned

LEMMA ReducedGrows ==
  ASSUME NEW t, Going(t), NEW k \in Nat \ {0}, k <= t.opened - t.closed
  PROVE  Reduced(t, k) \in SoundTrades /\ Grows(Reduced(t, k), t.closed, t.opened, "EXIT", k)
<1> PICK u : u = Reduced(t, k)
  OBVIOUS
<1>1. /\ t \in ExternalTrades /\ t.opened \in Nat \ {0} /\ t.closed \in Nat
      /\ t.closed <= t.opened /\ ~t.carry /\ t.carry \in BOOLEAN
  BY DEF Going, SoundTrades, ExternalTrades, Sound
<1> PICK s : s = IF t.opened - t.closed = k THEN "closed" ELSE "partial"
  OBVIOUS
<1> PICK closed : closed = t.closed + k
  OBVIOUS
<1>2. u = [t EXCEPT !.opened = t.opened, !.closed = closed, !.status = s, !.carry = t.carry]
  BY <1>1 DEF ExternalTrades, Reduced
<1>3. /\ closed \in Nat /\ closed <= t.opened /\ s \in {"open", "partial", "closed"}
      /\ s = "closed" <=> closed = t.opened
  BY <1>1
<1>4. u \in SoundTrades
  <2>1. [t EXCEPT !.opened = t.opened, !.closed = closed, !.status = s, !.carry = t.carry]
          \in SoundTrades
    BY <1>1, <1>3, TradeFields
  <2> QED
    BY <1>2, <2>1, Zenon
<1>5. u.opened = t.opened /\ u.closed = closed /\ ~u.carry
  BY <1>1, <1>2 DEF ExternalTrades
<1>6. t.opened + 0 = t.opened
  BY <1>1
<1>7. Grows(u, t.closed, t.opened, "EXIT", k)
  BY <1>5, <1>6 DEF Grows, Owned
<1> QED
  BY <1>4, <1>7

\* an external fill is added with all its lots, once
LEMMA ApplyExternalArchived ==
  ASSUME FillsTyped, NEW b \in Books, NEW i \in 1..Len(fills),
         NEW w \in [Nat -> Nat], Archived(b, w), w[i] = 0
  PROVE  Archived(ApplyExternal(b, i), With(w, i, fills[i].qty))
<1> PICK f, q : f = fills[i] /\ q = fills[i].qty
  OBVIOUS
<1>1. /\ i \in 1..MaxFills /\ TimeOf(i) \in 1..MaxTime /\ q \in Nat \ {0} /\ f.qty = q
      /\ Direction(f) \in {"long", "short"} /\ Opposite(f) \in {"long", "short"}
  BY FillTyped, Zenon
<1>2. CASE OpenTrades(b) = {} /\ Closing(i)
  <2> PICK t : t = [NewTrade(i, Opposite(f), q) EXCEPT
                      !.closed = q, !.status = "closed", !.carry = TRUE]
    OBVIOUS
  <2>1. t \in SoundTrades /\ Grows(t, 0, 0, "EXIT", q)
    BY <1>1, CarriedGrows, Zenon
  <2>2. ApplyExternal(b, i) = WithTrade(b, t, i, "EXIT", q)
    BY <1>1, <1>2 DEF ApplyExternal, CarryIn
  <2> QED
    BY <1>1, <2>1, <2>2, ArchiveOpens
<1>3. CASE OpenTrades(b) = {} /\ ~Closing(i)
  <2> PICK t : t = NewTrade(i, Direction(f), q)
    OBVIOUS
  <2>1. t \in SoundTrades /\ Grows(t, 0, 0, "ENTRY", q)
    BY <1>1, NewTradeGrows
  <2>2. ApplyExternal(b, i) = WithTrade(b, t, i, "ENTRY", q)
    BY <1>1, <1>3 DEF ApplyExternal
  <2> QED
    BY <1>1, <2>1, <2>2, ArchiveOpens
<1>4. CASE OpenTrades(b) # {}
  <2>1. PICK t \in DOMAIN b.trades : t = Current(b) /\ b.trades[t].status # "closed"
    BY <1>4, CurrentIsOpen DEF OpenTrades
  <2> PICK old : old = b.trades[t]
    OBVIOUS
  <2>2. Going(old) /\ ~old.carry
    BY <2>1, BookElements DEF Going, Archived
  <2>3. CASE old.dir = Direction(f)
    <3> PICK u : u = [old EXCEPT !.opened = @ + q,
                                 !.status = IF old.closed = 0 THEN "open" ELSE "partial"]
      OBVIOUS
    <3> PICK c : c = [trades |-> [b.trades EXCEPT ![t] = u],
                      alloc |-> b.alloc \cup {Allocation(t, i, "ENTRY", q)}]
      OBVIOUS
    <3>1. u \in SoundTrades /\ Grows(u, old.closed, old.opened, "ENTRY", q)
      BY <1>1, <2>2, AddedGrows
    <3>2. Archived(c, With(w, i, q))
      BY <1>1, <2>2, <3>1, ArchiveEdits
    <3>3. ApplyExternal(b, i) = c
      BY <1>4, <2>1, <2>3 DEF ApplyExternal, AddTo
    <3> QED
      BY <3>2, <3>3
  <2>4. CASE old.dir # Direction(f)
    <3>3. PICK left, k \in Nat \ {0} : Split(old, q, left, k)
      <4>1. Going(old) /\ q \in Nat \ {0}
        BY <1>1, <2>2
      <4> QED
        BY <4>1, LeftOver
    <3> PICK c : c = [trades |-> [b.trades EXCEPT ![t] = Reduced(old, k)],
                      alloc |-> b.alloc \cup {Allocation(t, i, "EXIT", k)}]
      OBVIOUS
    <3>1. /\ Reduced(old, k) \in SoundTrades
          /\ Grows(Reduced(old, k), old.closed, old.opened, "EXIT", k)
      BY <2>2, <3>3, ReducedGrows, Zenon DEF Split
    <3>2. Archived(c, With(w, i, k)) /\ c \in Books
      BY <1>1, <2>2, <3>1, ArchiveEdits
    <3>4. ApplyExternal(b, i) = IF q = k THEN c
                                ELSE WithTrade(c, NewTrade(i, Direction(f), q - k), i,
                                               "REVERSAL_ENTRY", q - k)
      BY <1>1, <1>4, <2>1, <2>4, <3>3 DEF ApplyExternal, CloseWith, Split
    <3>5. CASE q # k
      <4> PICK d : d = q - k
        OBVIOUS
      <4>1. d \in Nat \ {0} /\ k + d = q
        BY <3>3, <3>5, Zenon DEF Split
      <4>2. /\ NewTrade(i, Direction(f), d) \in SoundTrades
            /\ Grows(NewTrade(i, Direction(f), d), 0, 0, "REVERSAL_ENTRY", d)
        BY <1>1, <4>1, NewTradeGrows
      <4>3. With(w, i, k) \in [Nat -> Nat] /\ With(With(w, i, k), i, d) = With(w, i, q)
        <5>1. k \in Nat /\ d \in Nat
          BY <4>1
        <5>2. Twice(w, i, k, d)
          BY <5>1, WithTwice
        <5> QED
          BY <4>1, <5>2, Zenon DEF Twice
      <4>4. Archived(WithTrade(c, NewTrade(i, Direction(f), d), i, "REVERSAL_ENTRY", d),
                     With(With(w, i, k), i, d))
        BY <1>1, <3>2, <4>1, <4>2, <4>3, ArchiveOpens
      <4> QED
        BY <3>4, <3>5, <4>3, <4>4, Zenon
    <3> QED
      BY <3>2, <3>4, <3>5
  <2> QED
    BY <2>3, <2>4
<1> QED
  BY <1>2, <1>3, <1>4

\* at most one trade is open
Single(b) == \A t, u \in OpenTrades(b) : t = u

\* a trade more, after no open one
LEMMA SingleOpens ==
  ASSUME NEW b, NEW T, b.trades \in Seq(T), OpenTrades(b) = {}, NEW tr, NEW i, NEW role, NEW qty
  PROVE  Single(WithTrade(b, tr, i, role, qty))
<1> PICK n \in Nat : n = Len(b.trades) /\ DOMAIN b.trades = 1..n
  BY LenProperties
<1> PICK c : c = WithTrade(b, tr, i, role, qty)
  OBVIOUS
<1>2. c.trades = Append(b.trades, tr)
  BY DEF WithTrade
<1>3. /\ DOMAIN c.trades = 1..(n + 1)
      /\ \A u \in 1..n : c.trades[u] = b.trades[u]
  BY <1>2
<1>4. \A u \in OpenTrades(c) : u = n + 1
  <2> SUFFICES ASSUME NEW u \in OpenTrades(c), u # n + 1 PROVE FALSE
    OBVIOUS
  <2>1. u \in 1..n
    BY <1>3 DEF OpenTrades
  <2> QED
    BY <1>3, <2>1 DEF OpenTrades
<1> QED
  BY <1>4 DEF Single

\* one trade changed
LEMMA SingleEdits ==
  ASSUME NEW b \in Books, Single(b), NEW t \in OpenTrades(b), NEW tr, NEW al,
         NEW c, c = [trades |-> [b.trades EXCEPT ![t] = tr], alloc |-> al]
  PROVE  /\ Single(c)
         /\ tr.status = "closed" => OpenTrades(c) = {}
<1>1. /\ DOMAIN c.trades = DOMAIN b.trades /\ c.trades[t] = tr /\ t \in DOMAIN b.trades
      /\ \A u \in DOMAIN b.trades \ {t} : c.trades[u] = b.trades[u]
  BY DEF OpenTrades
<1>2. OpenTrades(c) \in SUBSET {t}
  BY <1>1 DEF OpenTrades, Single
<1> QED
  BY <1>1, <1>2 DEF OpenTrades, Single

\* a fill is added to the open trade, or closes it before it opens another
LEMMA ApplyExternalSingle ==
  ASSUME FillsTyped, NEW b \in Books, Single(b), NEW i \in 1..Len(fills)
  PROVE  Single(ApplyExternal(b, i))
<1> PICK f, q : f = fills[i] /\ q = fills[i].qty
  OBVIOUS
<1>1. /\ i \in 1..MaxFills /\ q \in Nat \ {0} /\ f.qty = q
  BY FillTyped, Zenon
<1> PICK T : T = SoundTrades /\ b.trades \in Seq(T)
  BY DEF Books
<1>2. CASE OpenTrades(b) = {}
  <2>1. CASE Closing(i)
    BY <1>2, <2>1, SingleOpens DEF ApplyExternal, CarryIn
  <2>2. CASE ~Closing(i)
    BY <1>2, <2>2, SingleOpens DEF ApplyExternal
  <2> QED
    BY <2>1, <2>2
<1>3. CASE OpenTrades(b) # {}
  <2>1. PICK t \in OpenTrades(b) : t = Current(b)
    BY <1>3, CurrentIsOpen
  <2> PICK old : old = b.trades[t]
    OBVIOUS
  <2>2. old \in SoundTrades /\ old.status # "closed" /\ t \in DOMAIN b.trades
    BY <2>1, BookElements DEF OpenTrades
  <2>3. CASE old.dir = Direction(f)
    <3>1. ApplyExternal(b, i) = AddTo(b, t, i)
      BY <1>3, <2>1, <2>3 DEF ApplyExternal
    <3>2. \E u, al : AddTo(b, t, i) = [trades |-> [b.trades EXCEPT ![t] = u], alloc |-> al]
      BY <2>2 DEF AddTo
    <3> QED
      BY <3>1, <3>2, <2>1, SingleEdits
  <2>4. CASE old.dir # Direction(f)
    <3>1. /\ old.opened \in Nat /\ old.closed \in Nat /\ old.closed < old.opened
      BY <2>2 DEF SoundTrades, ExternalTrades, Sound
    <3>2. PICK left \in Nat \ {0} : left = old.opened - old.closed
      BY <3>1
    <3>3. PICK k \in Nat \ {0} : k = (IF left <= q THEN left ELSE q) /\ (q # k => k = left)
                                 /\ k <= left
      BY <1>1
    <3>4. Min({left, q}) = k
      BY <1>1, <3>3, MinOfTwo
    <3> PICK c : c = [trades |-> [b.trades EXCEPT ![t] = Reduced(old, k)],
                      alloc |-> b.alloc \cup {Allocation(t, i, "EXIT", k)}]
      OBVIOUS
    <3>5. ApplyExternal(b, i) = IF q = k THEN c
                                ELSE WithTrade(c, NewTrade(i, Direction(f), q - k), i,
                                               "REVERSAL_ENTRY", q - k)
      BY <1>1, <1>3, <2>1, <2>4, <3>2, <3>4 DEF ApplyExternal, CloseWith
    <3>6. Single(c) /\ (Reduced(old, k).status = "closed" => OpenTrades(c) = {})
      BY <2>1, SingleEdits
    <3>7. CASE q # k
      <4>1. Reduced(old, k).status = "closed"
        BY <2>2, <3>2, <3>3, <3>7 DEF Reduced, SoundTrades, ExternalTrades
      <4>2. OpenTrades(c) = {}
        BY <3>6, <4>1
      <4>3. \A tr, qty : Single(WithTrade(c, tr, i, "REVERSAL_ENTRY", qty))
        <5> PICK T1 : T1 = T \cup {Reduced(old, k)}
          OBVIOUS
        <5>1. c.trades \in Seq(T1)
          BY <2>2
        <5> QED
          BY <4>2, <5>1, SingleOpens
      <4> QED
        BY <3>5, <3>7, <4>3
    <3> QED
      BY <3>5, <3>6, <3>7
  <2> QED
    BY <2>3, <2>4
<1> QED
  BY <1>2, <1>3

\* the archive has the lots of w, and one open trade at most
Kept(b, w) == Archived(b, w) /\ Single(b)

\* the lots of the fills of E
Weights(fs, E) == [i \in Nat |-> IF i \in E THEN fs[i].qty ELSE 0]

LEMMA WeightsType ==
  ASSUME FillsTyped, NEW E \in SUBSET (1..Len(fills))
  PROVE  /\ Weights(fills, E) \in [Nat -> Nat]
         /\ \A i \in E : i \in Nat /\ Weights(fills, E)[i] = fills[i].qty
         /\ \A i \in Nat \ E : Weights(fills, E)[i] = 0
         /\ \A i \in 1..Len(fills) : i \notin E =>
              With(Weights(fills, E), i, fills[i].qty) = Weights(fills, E \cup {i})
<1>1. \A i \in 1..Len(fills) : fills[i].qty \in Nat /\ i \in Nat
  BY FillTyped
<1>2. Weights(fills, E) \in [Nat -> Nat]
  BY <1>1 DEF Weights
<1>3. /\ \A i \in E : i \in Nat /\ Weights(fills, E)[i] = fills[i].qty
      /\ \A i \in Nat \ E : Weights(fills, E)[i] = 0
  BY <1>1 DEF Weights
<1>4. ASSUME NEW i \in 1..Len(fills), i \notin E
      PROVE  With(Weights(fills, E), i, fills[i].qty) = Weights(fills, E \cup {i})
  <2>1. \A j \in Nat : (IF j = i THEN Weights(fills, E)[j] + fills[i].qty ELSE Weights(fills, E)[j])
                         = IF j \in E \cup {i} THEN fills[j].qty ELSE 0
    <3> SUFFICES ASSUME NEW j \in Nat
                 PROVE  (IF j = i THEN Weights(fills, E)[j] + fills[i].qty ELSE Weights(fills, E)[j])
                          = IF j \in E \cup {i} THEN fills[j].qty ELSE 0
      OBVIOUS
    <3>1. CASE j = i
      <4>1. Weights(fills, E)[j] = 0 /\ 0 + fills[i].qty = fills[i].qty
        BY <1>1, <1>3, <1>4, <3>1
      <4> QED
        BY <3>1, <4>1
    <3>2. CASE j # i
      BY <1>3, <3>2
    <3> QED
      BY <3>1, <3>2
  <2> QED
    BY <2>1, Zenon DEF With, Weights
<1> QED
  BY <1>2, <1>3, <1>4

LEMMA EmptyArchived ==
  ASSUME FillsTyped
  PROVE  NoBook \in Books /\ Kept(NoBook, Weights(fills, {}))
<1>1. NoBook.trades = <<>> /\ NoBook.alloc = {} /\ NoBook \in Books
  BY EmptySeq DEF NoBook, Books
<1>2. \A i \in Nat : Lots(OfFill({}, i)) = Weights(fills, {})[i]
  <2>1. \A i : OfFill({}, i) = {}
    BY DEF OfFill
  <2> QED
    BY <2>1, LotsOfNone DEF Weights
<1> QED
  BY <1>1, <1>2, LotsOfNone DEF Archived, Kept, Single, OpenTrades

\* one more fill of a replay
LEMMA ArchivedNext ==
  ASSUME FillsTyped, NEW b \in Books, NEW E \in SUBSET (1..Len(fills)),
         Kept(b, Weights(fills, E)), NEW i \in 1..Len(fills), i \notin E
  PROVE  /\ ApplyExternal(b, i) \in Books
         /\ Kept(ApplyExternal(b, i), Weights(fills, E \cup {i}))
<1>1. /\ Weights(fills, E) \in [Nat -> Nat] /\ Weights(fills, E)[i] = 0
      /\ With(Weights(fills, E), i, fills[i].qty) = Weights(fills, E \cup {i})
  BY WeightsType
<1>2. Archived(b, Weights(fills, E)) /\ Single(b)
  BY DEF Kept
<1>3. Archived(ApplyExternal(b, i), With(Weights(fills, E), i, fills[i].qty))
  BY <1>1, <1>2, ApplyExternalArchived
<1>4. Single(ApplyExternal(b, i))
  BY <1>2, ApplyExternalSingle
<1>5. Archived(ApplyExternal(b, i), Weights(fills, E \cup {i}))
  BY <1>1, <1>3, Zenon
<1> QED
  BY <1>4, <1>5, ApplyExternalTyped, Zenon DEF Kept

LEMMA ReplayArchived ==
  ASSUME FillsTyped, NEW rs, \A r \in ToSet(rs) : r.fill \in 1..Len(fills)
  PROVE  /\ ReplayFrom(NoBook, rs) \in Books
         /\ Kept(ReplayFrom(NoBook, rs), Weights(fills, External(rs)))
<1> PICK E \in SUBSET (1..Len(fills)) : E = External(rs)
  BY DEF External
<1>1. PICK f \in [Nat -> Books] : Replays(f, NoBook, E) /\ ReplayFrom(NoBook, rs) = f[Len(fills)]
  BY EmptyArchived, ReplayBooks
<1> DEFINE Part(n) == {e \in E : e <= n}
           Bad == {n \in Nat : ~Kept(f[n], Weights(fills, Part(n)))}
<1>2. Bad = {}
  <2> SUFFICES ASSUME Bad # {} PROVE FALSE
    OBVIOUS
  <2>1. PICK n \in Bad : \A m \in Bad : n <= m
    BY LeastNumber
  <2>2. CASE n = 0
    <3>1. Part(0) = {} /\ f[0] = NoBook
      BY <1>1 DEF Replays
    <3> QED
      BY <2>1, <2>2, <3>1, EmptyArchived
  <2>3. CASE n # 0
    <3>1. n \in Nat \ {0} /\ n - 1 \in Nat /\ Kept(f[n - 1], Weights(fills, Part(n - 1)))
      BY <2>1, <2>3
    <3>2. f[n] = IF n \in E THEN ApplyExternal(f[n - 1], n) ELSE f[n - 1]
      BY <1>1, <3>1 DEF Replays
    <3>3. /\ Part(n) = IF n \in E THEN Part(n - 1) \cup {n} ELSE Part(n - 1)
          /\ n \notin Part(n - 1) /\ Part(n - 1) \in SUBSET (1..Len(fills))
      BY <3>1
    <3>4. ~Kept(f[n], Weights(fills, Part(n)))
      BY <2>1
    <3> HIDE DEF Part, Bad
    <3>5. f[n - 1] \in Books
      BY <3>1
    <3>6. CASE n \in E
      BY <3>1, <3>2, <3>3, <3>4, <3>5, <3>6, ArchivedNext
    <3> QED
      BY <3>1, <3>2, <3>3, <3>4, <3>6
  <2> QED
    BY <2>2, <2>3
<1>3. Len(fills) \in Nat
  BY LenProperties DEF FillsTyped
<1>4. Part(Len(fills)) = E
  BY <1>3
<1> QED
  BY <1>1, <1>2, <1>3, <1>4

\* A fill has one row, and the archive is what the external rows say.
Unique == \A k, l \in DOMAIN rows : rows[k].fill = rows[l].fill => k = l
ArchiveInv == book \in Books /\ Kept(book, Weights(fills, External(rows))) /\ Unique

LEMMA ExternalFills ==
  ASSUME Typed
  PROVE  /\ External(rows) \in SUBSET (1..Len(fills))
         /\ \A i \in External(rows) : Ingested(i)
BY Elements DEF External, ToSet, Ingested

LEMMA IngestArchives ==
  ASSUME Typed, ArchiveInv, NEW i \in 1..Len(fills), NEW named, Ingest(i, named),
         UNCHANGED fills
  PROVE  ArchiveInv'
<1>1. CASE Ingested(i)
  BY <1>1 DEF Ingest, ledger, ArchiveInv, Unique
<1>2. CASE ~Ingested(i)
  <2> PICK E \in SUBSET (1..Len(fills)) : E = External(rows)
    BY ExternalFills
  <2> PICK own : own = Owner(i, named)
    OBVIOUS
  <2>1. /\ rows' = Append(rows, [fill |-> i, owner |-> own])
        /\ book' = IF own = "external" THEN ApplyExternal(book, i) ELSE book
        /\ i \notin E
    BY <1>2, ExternalFills DEF Ingest
  <2>2. /\ DOMAIN rows = 1..Len(rows) /\ Len(rows) \in Nat
        /\ DOMAIN rows' = 1..(Len(rows) + 1)
        /\ \A k \in DOMAIN rows : rows'[k] = rows[k]
        /\ rows'[Len(rows) + 1] = [fill |-> i, owner |-> own]
    <3>1. rows \in Seq(Rows) /\ DOMAIN rows = 1..Len(rows) /\ Len(rows) \in Nat
      BY Elements DEF Typed, RowsTyped
    <3> QED
      BY <2>1, <3>1
  <2>3. Unique'
    <3>1. \A k \in DOMAIN rows : rows[k].fill # i
      BY <1>2, IngestedRow
    <3> QED
      BY <2>2, <3>1 DEF Unique, ArchiveInv
  <2>4. External(rows') = IF own = "external" THEN E \cup {i} ELSE E
    <3> PICK new : new = [fill |-> i, owner |-> own]
      OBVIOUS
    <3>1. ToSet(rows') = ToSet(rows) \cup {new}
      <4>1. ToSet(rows') = {rows'[k] : k \in 1..(Len(rows) + 1)}
            /\ ToSet(rows) = {rows[k] : k \in 1..Len(rows)}
        BY <2>2 DEF ToSet
      <4> QED
        BY <2>2, <4>1
    <3>2. new.fill = i /\ new.owner = own
      OBVIOUS
    <3>3. External(rows') = E \cup {r.fill : r \in {s \in {new} : s.owner = "external"}}
      BY <3>1 DEF External
    <3> QED
      BY <3>2, <3>3
  <2>5. book' \in Books /\ Kept(book', Weights(fills, External(rows')))
    <3>1. FillsTyped /\ book \in Books /\ Kept(book, Weights(fills, E))
      BY DEF Typed, ArchiveInv
    <3>2. CASE own = "external"
      <4>1. /\ ApplyExternal(book, i) \in Books
            /\ Kept(ApplyExternal(book, i), Weights(fills, E \cup {i}))
        BY <2>1, <3>1, ArchivedNext
      <4> QED
        BY <2>1, <2>4, <3>2, <4>1, Zenon
    <3>3. CASE own # "external"
      BY <2>1, <2>4, <3>1, <3>3, Zenon
    <3> QED
      BY <3>2, <3>3
  <2> QED
    BY <2>3, <2>5 DEF ArchiveInv
<1> QED
  BY <1>1, <1>2

LEMMA ResolveArchives ==
  ASSUME Typed, ArchiveInv, SyncResolve
  PROVE  ArchiveInv'
<1>1. fills' = fills
  BY DEF SyncResolve, exchange
<1>2. CASE UNCHANGED ledger
  BY <1>1, <1>2 DEF ledger, ArchiveInv, Unique
<1>3. CASE /\ rows' = Reclassified
           /\ book' = IF \E k \in DOMAIN rows : /\ rows[k].owner = "unknown"
                                                /\ Reclassified[k].owner = "external"
                      THEN Replay(Reclassified) ELSE book
  <2>1. /\ DOMAIN rows' = DOMAIN rows
        /\ \A k \in DOMAIN rows : /\ rows'[k].fill = rows[k].fill
                                  /\ rows[k].owner # "unknown" => rows'[k] = rows[k]
    <3>1. DOMAIN rows = 1..Len(rows)
      BY Elements
    <3> QED
      BY <1>3, <3>1, ReclassifiedTyped DEF Reclassified
  <2>2. Unique'
    BY <2>1 DEF Unique, ArchiveInv
  <2>3. CASE \E k \in DOMAIN rows : /\ rows[k].owner = "unknown"
                                    /\ Reclassified[k].owner = "external"
    <3>1. \A r \in ToSet(Reclassified) : r.fill \in 1..Len(fills)
      BY ReclassifiedTyped, Elements DEF ToSet
    <3>2. FillsTyped /\ book' = ReplayFrom(NoBook, Reclassified)
      BY <1>3, <2>3 DEF Replay, Typed
    <3>3. /\ ReplayFrom(NoBook, Reclassified) \in Books
          /\ Kept(ReplayFrom(NoBook, Reclassified), Weights(fills, External(Reclassified)))
      BY <3>1, <3>2, ReplayArchived
    <3>4. book' \in Books /\ Kept(book', Weights(fills', External(rows')))
      BY <1>1, <1>3, <3>2, <3>3, Zenon
    <3> QED
      BY <2>2, <3>4 DEF ArchiveInv
  <2>4. CASE ~\E k \in DOMAIN rows : /\ rows[k].owner = "unknown"
                                     /\ Reclassified[k].owner = "external"
    <3>1. \A k \in DOMAIN rows : rows'[k].owner = "external" <=> rows[k].owner = "external"
      BY <1>3, <2>1, <2>4
    <3>2. External(rows') = External(rows)
      BY <2>1, <3>1 DEF External, ToSet
    <3>3. book' = book
      BY <1>3, <2>4
    <3> QED
      BY <1>1, <2>2, <3>2, <3>3 DEF ArchiveInv
  <2> QED
    BY <2>3, <2>4
<1> QED
  BY <1>2, <1>3 DEF SyncResolve

LEMMA ArchiveStep == Typed /\ ArchiveInv /\ [Next]_vars => ArchiveInv'
<1> SUFFICES ASSUME Typed, ArchiveInv, [Next]_vars PROVE ArchiveInv'
  OBVIOUS
<1>1. CASE UNCHANGED <<fills, rows, book>>
  BY <1>1 DEF ArchiveInv, Unique
<1>2. CASE EngineFill \/ ManualFill
  <2>1. PICK f \in Fills : Trade(f)
    BY <1>2, FillStep
  <2>2. /\ UNCHANGED <<rows, book>>
        /\ \A i \in 1..Len(fills) : fills'[i] = fills[i]
    BY <2>1, TradeTyped
  <2>3. Weights(fills', External(rows)) = Weights(fills, External(rows))
    BY <2>2, ExternalFills DEF Weights
  <2> QED
    BY <2>2, <2>3 DEF ArchiveInv, Unique
<1>3. CASE EngineStep \/ Crash
  BY <1>1, <1>3, EngineTyped, CrashTyped
<1>4. CASE StreamIngest
  <2>1. stream # <<>> /\ stream \in Seq(1..MaxFills) /\ Ingest(Head(stream), TRUE)
        /\ UNCHANGED fills
    BY <1>4 DEF StreamIngest, Typed, StreamTyped
  <2>2. Head(stream) = stream[1] /\ Len(stream) \in Nat \ {0}
    BY <2>1
  <2>3. Head(stream) \in 1..Len(fills)
    BY <2>2, Elements
  <2> QED
    BY <2>1, <2>3, IngestArchives
<1>5. CASE SyncIngest
  <2>1. sync.page # <<>> /\ sync.page \in Seq(1..MaxFills) /\ Ingest(Head(sync.page), FALSE)
        /\ UNCHANGED fills
    BY <1>5 DEF SyncIngest, Typed, SyncTyped, Syncs, exchange
  <2>2. Head(sync.page) = sync.page[1] /\ Len(sync.page) \in Nat \ {0}
    BY <2>1
  <2>3. Head(sync.page) \in 1..Len(fills)
    BY <2>2, Elements
  <2> QED
    BY <2>1, <2>3, IngestArchives
<1>6. CASE SyncResolve
  BY <1>6, ResolveArchives
<1>7. CASE StreamDrops \/ SyncBegin \/ SyncFetch \/ SyncFails \/ UNCHANGED vars
  BY <1>1, <1>7 DEF StreamDrops, SyncBegin, SyncFetch, SyncFails, ledger, exchange, vars
<1> QED
  BY <1>2, <1>3, <1>4, <1>5, <1>6, <1>7 DEF Next, SyncStep

\* Every fill that is external is in the archive with all its lots, split over the
\* trade it closed and the one it opened, and no other fill is; each trade was opened
\* and closed with the lots that are there for it.  Whoever brings a fill first, and
\* however often the archive is rebuilt, it is booked once (ingest_exchange_fill,
\* _apply_external_fill, _rebuild_external_symbol).
THEOREM BookedOnce == Spec => []ArchivedOnce
<1>1. Init => Typed /\ Window /\ ArchiveInv
  <2> SUFFICES ASSUME Init PROVE Typed /\ Window /\ ArchiveInv
    OBVIOUS
  <2>1. Typed /\ Window
    BY TypedInit
  <2>2. rows = <<>> /\ book = NoBook
    BY DEF Init
  <2>3. DOMAIN rows = {} /\ External(rows) = {}
    BY <2>2 DEF External, ToSet
  <2> QED
    BY <2>1, <2>2, <2>3, EmptyArchived DEF ArchiveInv, Unique, Typed
<1>2. Typed /\ Window /\ ArchiveInv /\ [Next]_vars => (Typed /\ Window /\ ArchiveInv)'
  BY TypedStep, ArchiveStep
<1>3. Typed /\ ArchiveInv => ArchivedOnce
  <2> SUFFICES ASSUME Typed, ArchiveInv PROVE ArchivedOnce
    OBVIOUS
  <2>1. Archived(book, Weights(fills, External(rows))) /\ Single(book)
    BY DEF ArchiveInv, Kept
  <2>2. ASSUME NEW r \in ToSet(rows)
        PROVE  Lots({a \in book.alloc : a.fill = r.fill})
                 = IF r.owner = "external" THEN fills[r.fill].qty ELSE 0
    <3>1. PICK k \in DOMAIN rows : r = rows[k]
      BY DEF ToSet
    <3>2. r.fill \in Nat
      BY <3>1, Elements
    <3>3. r.fill \in External(rows) <=> r.owner = "external"
      BY <3>1 DEF External, ToSet, Unique, ArchiveInv
    <3>4. Lots({a \in book.alloc : a.fill = r.fill}) = Weights(fills, External(rows))[r.fill]
      BY <2>1, <3>2 DEF Archived, OfFill
    <3> QED
      BY <3>2, <3>3, <3>4 DEF Weights
  <2>3. ASSUME NEW t \in DOMAIN book.trades
        PROVE  /\ Lots({a \in {c \in book.alloc : c.trade = t} : a.role = "EXIT"})
                    = book.trades[t].closed
               /\ Lots({a \in {c \in book.alloc : c.trade = t} : a.role # "EXIT"})
                    = IF book.trades[t].carry THEN 0 ELSE book.trades[t].opened
    <3>1. /\ {a \in {c \in book.alloc : c.trade = t} : a.role = "EXIT"} = Out(book.alloc, t)
          /\ {a \in {c \in book.alloc : c.trade = t} : a.role # "EXIT"} = Into(book.alloc, t)
      BY DEF Out, Into
    <3> QED
      BY <2>1, <3>1 DEF Archived, Owned
  <2>4. Cardinality(OpenTrades(book)) <= 1
    <3>1. CASE OpenTrades(book) = {}
      BY <3>1, FS_EmptySet
    <3>2. CASE OpenTrades(book) # {}
      <4>1. PICK t : OpenTrades(book) = {t}
        BY <2>1, <3>2 DEF Single
      <4>2. Cardinality(OpenTrades(book)) = 1
        BY <4>1, FS_Singleton
      <4> QED
        BY <4>2
    <3> QED
      BY <3>1, <3>2
  <2> QED
    BY <2>2, <2>3, <2>4 DEF ArchivedOnce
<1> QED
  BY <1>1, <1>2, <1>3, PTL DEF Spec
=============================================================================
