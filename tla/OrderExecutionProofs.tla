------------------------ MODULE OrderExecutionProofs ------------------------
(***************************************************************************)
(* Proofs about OrderExecution, for every size of order, number of         *)
(* attempts and retries, and number of failing calls.                      *)
(***************************************************************************)
EXTENDS OrderExecution, TLAPS

(***************************************************************************)
(* The invariant.                                                          *)
(***************************************************************************)

\* While an entry sends orders it still misses something.
Room == /\ call.kind = "OPEN"
        /\ pc \in {"quote", "market", "create", "recover", "wait", "cancel", "trades"}
        => cum < Size

\* What the status of an order says of its fill; market orders do not rest.
Shape == \A i \in Ids :
  /\ orders[i].st = "open" => orders[i].filled < orders[i].amt /\ i[1] # Market
  /\ orders[i].st = "filled" => orders[i].filled > 0
  /\ orders[i].st = "none" => orders[i].filled = 0 /\ counted[i] = 0

\* The order in hand is one of the attempt, and what was seen of it is true.
Current ==
  /\ pc \in {"wait", "cancel", "trades"} =>
       /\ id \in Ids /\ id[1] = attempt
       /\ orders[id].st # "none"
       /\ seen.filled <= orders[id].filled
  /\ seen.st = "filled" => seen.filled > 0

\* The slots of orders not sent yet are empty.
Fresh ==
  /\ \A i \in Ids : orders[i].st # "none" => i[1] <= attempt
  /\ pc = "quote" => \A i \in Ids : i[1] = attempt => orders[i].st = "none"
  /\ pc = "create" => \A t \in try..Retries : orders[<<attempt, t>>].st = "none"
  /\ pc = "recover" => \A t \in (try + 1)..Retries : orders[<<attempt, t>>].st = "none"
  /\ pc \in {"quote", "market", "wait", "cancel", "wrapup"} => attempt # Market
  /\ pc = "residual" => attempt # Market

\* A post-only order is not counted for more than it traded.
Claims == \A i \in Ids : i[1] # Market => counted[i] <= orders[i].filled

IInv == TypeOK /\ Room /\ Shape /\ Current /\ Fresh /\ Claims


-----------------------------------------------------------------------------
(* Lemmas about the operators the actions are built from                    *)

\* the market order has the slot after the last attempt
LEMMA Slots == /\ Attempts \in Nat \ {0} /\ Market \in Nat \ {0}
               /\ Market = Attempts + 1
               /\ Retries \in Nat /\ Size \in Nat \ {0} /\ Requotes \in Nat
BY ExecutionAssumption DEF Attempts, Market

\* an order identifier is an attempt and a try
LEMMA IdParts ==
  /\ \A i \in Ids : i = <<i[1], i[2]>> /\ i[1] \in 1..Market /\ i[2] \in 0..Retries
  /\ \A a \in 1..Market, t \in 0..Retries : <<a, t>> \in Ids
BY DEF Ids

\* an entry that misses something, and a close, ask for at least one lot
LEMMA AmountRange ==
  ASSUME TypeOK, call.kind = "OPEN" => cum < Size
  PROVE  Amount \in 1..Size
BY Slots DEF TypeOK, Amount

\* after an answer the call waits, cancels or reads trades; a market order
\* has its trades read
LEMMA AfterRange ==
  ASSUME NEW s
  PROVE  /\ After(s) \in {"trades", "wait", "cancel"}
         /\ attempt = Market => After(s) = "trades"
BY DEF After

LEMMA ReportTyped ==
  ASSUME NEW o, o.st \in {"open", "filled", "canceled"}, o.filled \in 0..Size
  PROVE  Report(o) \in Answered /\ Report(o).st = o.st /\ Report(o).filled = o.filled
BY DEF Report, Answered

LEMMA UnseenTyped == Unseen \in Answered /\ Unseen.st = "open" /\ Unseen.filled = 0
BY Slots DEF Unseen, Answered

LEMMA LeftRange ==
  ASSUME NEW q \in Nat
  PROVE  Left(q) \in 0..Size /\ Status(q) \in {"partial", "filled"}
BY Slots DEF Left, Status

\* what an order is counted for is at most one order's quantity, and for a
\* post-only order at most what was read or seen of it
LEMMA TookRange ==
  ASSUME TypeOK, Current, pc = "trades", NEW n \in 0..orders[id].filled,
         call.kind = "OPEN" => cum < Size
  PROVE  /\ Took(n) \in 0..Size
         /\ attempt # Market => Took(n) <= orders[id].filled
<1>1. /\ seen.filled \in 0..Size /\ seen.filled <= orders[id].filled
      /\ orders[id].filled \in 0..Size
      /\ seen.st = "filled" => seen.filled > 0
      /\ seen.trades \in BOOLEAN
  BY DEF TypeOK, Current, Answered
<1>2. Amount \in 1..Size
  BY AmountRange
<1>3. ParsedFill(seen) = seen.filled
  BY <1>1, <1>2 DEF ParsedFill
<1> QED
  BY <1>1, <1>2, <1>3, Slots DEF Took

\* a slot keeps its type and shape when its order changes in a legal way
LEMMA OrderUpdate ==
  ASSUME TypeOK, NEW i \in Ids,
         NEW o \in [st : {"none", "open", "filled", "canceled"}, amt : 0..Size, filled : 0..Size],
         orders' = [orders EXCEPT ![i] = o]
  PROVE  /\ orders' \in [Ids -> [st : {"none", "open", "filled", "canceled"},
                                 amt : 0..Size, filled : 0..Size]]
         /\ orders'[i] = o
         /\ \A j \in Ids : j # i => orders'[j] = orders[j]
BY DEF TypeOK


-----------------------------------------------------------------------------
(* What TypeOK says of the parts                                            *)

Pcs == {"quote", "market", "create", "recover", "wait", "cancel", "trades",
        "wrapup", "residual", "returned", "raised"}

ControlTyped  == /\ call \in Calls /\ pc \in Pcs
                 /\ attempt \in 1..Market /\ try \in 0..Retries
                 /\ ids \subseteq Ids /\ unread \subseteq Ids
AnswerTyped   == id \in Ids \cup {NoId} /\ seen \in Answered
BooksTyped    == cum \in Nat /\ won \in BOOLEAN
ResultTyped   == result \in [status : {"none", "filled", "partial", "rejected", "canceled"},
                             qty : Nat, remaining : 0..Size]
OrdersTyped   == orders \in [Ids -> [st : {"none", "open", "filled", "canceled"},
                                     amt : 0..Size, filled : 0..Size]]
EnvTyped      == position \in Int /\ faults \in 0..Faults
GhostsTyped   == counted \in [Ids -> 0..Size] /\ stray \subseteq Ids /\ raced \in BOOLEAN

LEMMA TypeParts ==
  /\ TypeOK <=> /\ ControlTyped /\ AnswerTyped /\ BooksTyped /\ ResultTyped
                /\ OrdersTyped /\ EnvTyped /\ GhostsTyped
  /\ TypeOK' <=> /\ ControlTyped' /\ AnswerTyped' /\ BooksTyped' /\ ResultTyped'
                 /\ OrdersTyped' /\ EnvTyped' /\ GhostsTyped'
BY DEF TypeOK, ControlTyped, AnswerTyped, BooksTyped, ResultTyped, OrdersTyped,
       EnvTyped, GhostsTyped, Pcs

\* a result has its type
LEMMA ResultType ==
  ASSUME NEW status \in {"filled", "partial", "rejected", "canceled"}, NEW qty \in Nat,
         NEW remaining \in 0..Size, Returns(status, qty, remaining)
  PROVE  ResultTyped' /\ pc' = "returned"
BY DEF Returns, ResultTyped

\* a failing call is one fewer to come
LEMMA FaultsType ==
  ASSUME EnvTyped, Fails \/ Answers, position' \in Int
  PROVE  EnvTyped'
BY ExecutionAssumption DEF EnvTyped, Fails, Answers

\* what the exchange accepts in an empty slot is an order of the right size
LEMMA AcceptUpdate ==
  ASSUME IInv, pc = "create", NEW c \in Ids, NEW n \in 0..Size, c[1] = attempt, Accept(c, n)
  PROVE  /\ OrdersTyped' /\ position' \in Int
         /\ orders'[c].st \in {"open", "filled", "canceled"}
         /\ orders'[c].st = "open" => orders'[c].filled < orders'[c].amt /\ attempt # Market
         /\ orders'[c].st = "filled" => orders'[c].filled > 0
         /\ orders'[c].filled \in 0..Size
         /\ \A j \in Ids : j # c => orders'[j] = orders[j]
<1> DEFINE o == [st |-> IF attempt # Market THEN "open"
                        ELSE IF n = Amount THEN "filled" ELSE "canceled",
                 amt |-> Amount, filled |-> n]
<1>1. orders' = [orders EXCEPT ![c] = o] /\ position' = Moved(n)
  BY DEF Accept
<1>2. Amount \in 1..Size
  BY AmountRange DEF IInv, Room
<1>3. /\ o.st = "open" => n < Amount /\ attempt # Market
      /\ o.st = "filled" => n > 0
      /\ o.st \in {"open", "filled", "canceled"}
  BY <1>2 DEF Accept
<1>4. o \in [st : {"none", "open", "filled", "canceled"}, amt : 0..Size, filled : 0..Size]
  BY <1>2
<1>5. o.amt = Amount /\ o.filled = n
  OBVIOUS
<1>6. position' \in Int
  BY <1>1 DEF Moved, IInv, TypeOK
<1> HIDE DEF o
<1>7. orders'[c] = o /\ \A j \in Ids : j # c => orders'[j] = orders[j]
  BY <1>1, <1>4, OrderUpdate DEF IInv
<1>8. OrdersTyped'
  BY <1>1, <1>4, OrderUpdate DEF IInv, OrdersTyped
<1> QED
  BY <1>3, <1>5, <1>6, <1>7, <1>8

-----------------------------------------------------------------------------
(* Every step keeps the invariant                                           *)

LEMMA InitInv == Init => IInv
<1> SUFFICES ASSUME Init PROVE IInv
  OBVIOUS
<1>1. TypeOK
  <2>1. ControlTyped
    BY Slots DEF Init, ControlTyped, Pcs
  <2>2. AnswerTyped /\ BooksTyped
    BY UnseenTyped DEF Init, AnswerTyped, BooksTyped
  <2>3. ResultTyped
    BY Slots DEF Init, ResultTyped, NoResult
  <2>4. OrdersTyped
    BY Slots DEF Init, OrdersTyped, NoOrder
  <2>5. EnvTyped
    BY Slots, ExecutionAssumption DEF Init, EnvTyped
  <2>6. GhostsTyped
    <3>1. counted \in [Ids -> 0..Size]
      BY Slots DEF Init
    <3>2. stray \subseteq Ids /\ raced \in BOOLEAN
      BY DEF Init
    <3> QED
      BY <3>1, <3>2 DEF GhostsTyped
  <2> QED
    BY <2>1, <2>2, <2>3, <2>4, <2>5, <2>6, TypeParts
<1>2. Room /\ Shape /\ Current /\ Fresh /\ Claims
  BY Slots, IdParts, UnseenTyped
     DEF Init, Room, Shape, Current, Fresh, Claims, NoOrder, Calls, Modes
<1> QED
  BY <1>1, <1>2 DEF IInv

LEMMA FillInv ==
  ASSUME IInv, NEW i \in Ids, Fill(i)
  PROVE  IInv'
<1> DEFINE o == Traded(orders[i])
<1> USE DEF IInv
<1>1. orders[i].st = "open" /\ orders[i].filled < orders[i].amt /\ i[1] # Market
  BY DEF Fill, Shape
<1>2. /\ o \in [st : {"none", "open", "filled", "canceled"}, amt : 0..Size, filled : 0..Size]
      /\ o.filled = orders[i].filled + 1 /\ o.amt = orders[i].amt
      /\ o.st = IF orders[i].filled + 1 = orders[i].amt THEN "filled" ELSE "open"
  <2>1. orders[i].filled \in 0..Size /\ orders[i].amt \in 0..Size
    BY DEF TypeOK
  <2> QED
    BY <1>1, <2>1, Slots DEF Traded
<1>3. orders' = [orders EXCEPT ![i] = o]
  BY DEF Fill
<1> HIDE DEF o
<1>4. /\ orders' \in [Ids -> [st : {"none", "open", "filled", "canceled"},
                              amt : 0..Size, filled : 0..Size]]
      /\ orders'[i] = o /\ \A j \in Ids : j # i => orders'[j] = orders[j]
  BY <1>2, <1>3, OrderUpdate
<1>5. TypeOK'
  BY <1>4 DEF TypeOK, Fill, Moved, history, progress
<1>6. \A j \in Ids : /\ orders'[j].st = "none" <=> orders[j].st = "none"
                     /\ orders[j].filled <= orders'[j].filled
  BY <1>1, <1>2, <1>4, Slots DEF TypeOK
<1>7. Shape'
  <2>1. /\ o.st = "open" => o.filled < o.amt /\ i[1] # Market
        /\ o.st = "filled" => o.filled > 0
        /\ o.st # "none"
    <3>1. orders[i].filled \in 0..Size /\ orders[i].amt \in 0..Size
      BY DEF TypeOK
    <3> QED
      BY <3>1, <1>1, <1>2
  <2>2. counted' = counted
    BY DEF Fill, history
  <2> QED
    BY <2>1, <2>2, <1>4 DEF Shape
<1>8. Current'
  <2>1. UNCHANGED <<pc, id, seen, attempt>>
    BY DEF Fill, progress
  <2>2. ASSUME pc \in {"wait", "cancel", "trades"}
        PROVE  seen.filled <= orders'[id].filled
    <3>1. /\ id \in Ids /\ seen.filled <= orders[id].filled
          /\ seen.filled \in Int /\ orders[id].filled \in Int /\ orders'[id].filled \in Int
      BY <1>4, <2>2 DEF Current, TypeOK, Answered
    <3> QED
      BY <3>1, <1>6
  <2> QED
    BY <1>6, <2>1, <2>2 DEF Current
<1>9. Fresh'
  BY <1>6, IdParts DEF Fresh, Fill, progress, TypeOK
<1>10. Claims'
  <2>1. counted' = counted
    BY DEF Fill, history
  <2>2. \A j \in Ids : counted[j] \in Int /\ orders[j].filled \in Int /\ orders'[j].filled \in Int
    BY <1>4 DEF TypeOK
  <2> QED
    BY <1>6, <2>1, <2>2 DEF Claims
<1>11. Room'
  BY DEF Room, Fill
<1> QED
  BY <1>5, <1>7, <1>8, <1>9, <1>10, <1>11

LEMMA ExpireInv ==
  ASSUME IInv, NEW i \in Ids, Expire(i)
  PROVE  IInv'
<1> DEFINE o == [orders[i] EXCEPT !.st = "canceled"]
<1> USE DEF IInv
<1>1. orders[i].st = "open"
  BY DEF Expire
<1>2. /\ o \in [st : {"none", "open", "filled", "canceled"}, amt : 0..Size, filled : 0..Size]
      /\ o.filled = orders[i].filled /\ o.amt = orders[i].amt /\ o.st = "canceled"
  BY DEF TypeOK
<1>3. orders' = [orders EXCEPT ![i] = o]
  BY DEF Expire
<1> HIDE DEF o
<1>4. /\ orders' \in [Ids -> [st : {"none", "open", "filled", "canceled"},
                              amt : 0..Size, filled : 0..Size]]
      /\ orders'[i] = o /\ \A j \in Ids : j # i => orders'[j] = orders[j]
  BY <1>2, <1>3, OrderUpdate
<1>5. TypeOK'
  BY <1>4 DEF TypeOK, Expire, history, progress
<1>6. \A j \in Ids : /\ orders'[j].st = "none" <=> orders[j].st = "none"
                     /\ orders[j].filled = orders'[j].filled
  BY <1>1, <1>2, <1>4, Slots DEF TypeOK
<1>7. Shape'
  BY <1>1, <1>2, <1>4 DEF Shape, Expire, history
<1>8. Current'
  BY <1>6, <1>4 DEF Current, Expire, progress
<1>9. Fresh'
  BY <1>6, IdParts DEF Fresh, Expire, progress, TypeOK
<1>10. Claims'
  BY <1>6, <1>4 DEF Claims, Expire, history
<1>11. Room'
  BY DEF Room, Expire
<1> QED
  BY <1>5, <1>7, <1>8, <1>9, <1>10, <1>11

LEMMA QuoteInv ==
  ASSUME IInv, Quote
  PROVE  IInv'
<1> USE DEF IInv
<1>1. TypeOK'
  <2>1. /\ pc' \in {"raised", "create", "returned"} /\ attempt' \in {attempt, Market}
        /\ try' \in {try, 0} /\ (Fails \/ Answers)
    BY DEF Quote, Returns, Rejects
  <2>2. ControlTyped'
    BY <2>1, Slots, TypeParts DEF ControlTyped, Pcs, Quote
  <2>3. AnswerTyped' /\ BooksTyped' /\ OrdersTyped' /\ GhostsTyped'
    BY TypeParts DEF AnswerTyped, BooksTyped, OrdersTyped, GhostsTyped, Quote, books, exchange
  <2>4. EnvTyped'
    BY <2>1, FaultsType, TypeParts DEF Quote, exchange, EnvTyped
  <2>5. ResultTyped'
    BY LeftRange, Slots, TypeParts, ResultType DEF Quote, Rejects, ResultTyped, BooksTyped
  <2> QED
    BY <2>2, <2>3, <2>4, <2>5, TypeParts
<1>2. Room'
  BY DEF Room, Quote, Returns, Rejects, books
<1>3. Shape'
  BY DEF Shape, Quote, exchange, books
<1>4. Current'
  BY DEF Current, Quote, exchange, Returns, Rejects
<1>5. Fresh'
  BY IdParts, Slots DEF Fresh, Quote, exchange, Returns, Rejects, TypeOK
<1>6. Claims'
  BY DEF Claims, Quote, exchange, books
<1> QED
  BY <1>1, <1>2, <1>3, <1>4, <1>5, <1>6

LEMMA MarketOrderInv ==
  ASSUME IInv, MarketOrder
  PROVE  IInv'
<1> USE DEF IInv
<1>1. TypeOK'
  <2>1. /\ pc' \in {"raised", "create", "returned"} /\ attempt' \in {attempt, Market}
        /\ try' \in {try, 0} /\ (Fails \/ Answers)
    BY DEF MarketOrder, Returns, Rejects
  <2>2. ControlTyped'
    BY <2>1, Slots, TypeParts DEF ControlTyped, Pcs, MarketOrder
  <2>3. AnswerTyped' /\ BooksTyped' /\ OrdersTyped' /\ GhostsTyped'
    BY TypeParts DEF AnswerTyped, BooksTyped, OrdersTyped, GhostsTyped, MarketOrder, books, exchange
  <2>4. EnvTyped'
    BY <2>1, FaultsType, TypeParts DEF MarketOrder, exchange, EnvTyped
  <2>5. ResultTyped'
    BY LeftRange, Slots, TypeParts, ResultType DEF MarketOrder, Rejects, ResultTyped, BooksTyped
  <2> QED
    BY <2>2, <2>3, <2>4, <2>5, TypeParts
<1>2. Room'
  BY DEF Room, MarketOrder, Returns, Rejects, books
<1>3. Shape'
  BY DEF Shape, MarketOrder, exchange, books
<1>4. Current'
  BY DEF Current, MarketOrder, exchange, Returns, Rejects
<1>5. Fresh'
  BY IdParts, Slots DEF Fresh, MarketOrder, exchange, Returns, Rejects, TypeOK
<1>6. Claims'
  BY DEF Claims, MarketOrder, exchange, books
<1> QED
  BY <1>1, <1>2, <1>3, <1>4, <1>5, <1>6

LEMMA PollInv ==
  ASSUME IInv, Poll
  PROVE  IInv'
<1> USE DEF IInv
<1>0. /\ pc = "wait" /\ id \in Ids /\ orders[id].st \in {"open", "filled", "canceled"}
      /\ orders[id].filled \in 0..Size /\ attempt # Market
      /\ orders[id].st = "filled" => orders[id].filled > 0
  BY DEF Poll, Current, TypeOK, Shape, Fresh
<1>1. /\ seen' \in Answered /\ seen'.filled <= orders[id].filled
      /\ seen'.st = "filled" => seen'.filled > 0
      /\ pc' \in {"trades", "wait", "cancel"}
      /\ faults' \in 0..Faults
  <2>0. seen \in Answered /\ faults \in 0..Faults /\ Faults \in Nat
    BY ExecutionAssumption DEF TypeOK
  <2>1. CASE UNCHANGED seen /\ pc' = "cancel" /\ (Fails \/ Answers)
    BY <2>0, <2>1, <1>0 DEF Current, Fails, Answers
  <2>2. CASE Answers /\ seen' = Report(orders[id]) /\ pc' = After(seen')
    BY <2>2, <1>0, ReportTyped, AfterRange DEF TypeOK, Answers
  <2>3. ASSUME NEW n \in 0..orders[id].filled, n # 0, Reads(id, n), pc' = After(seen'),
               seen' = [st |-> IF n >= Amount THEN "filled" ELSE "canceled",
                        filled |-> n, trades |-> TRUE]
        PROVE  /\ seen' \in Answered /\ seen'.filled <= orders[id].filled
               /\ seen'.st = "filled" => seen'.filled > 0
               /\ pc' \in {"trades", "wait", "cancel"}
               /\ faults' \in 0..Faults
    <3>1. n \in 0..Size /\ n > 0
      BY <1>0, <2>3, Slots
    <3>2. faults' \in 0..Faults
      BY <2>0, <2>3 DEF Reads, Fails, Answers
    <3>3. seen' \in Answered /\ seen'.filled = n
      BY <3>1, <2>3 DEF Answered
    <3> QED
      BY <3>1, <3>2, <3>3, <2>3, AfterRange
  <2> QED
    BY <2>1, <2>2, <2>3 DEF Poll, Reads
<1>2. TypeOK'
  BY <1>1 DEF TypeOK, Poll, books, exchange
<1>3. Room'
  BY <1>0 DEF Room, Poll, books
<1>4. Shape'
  BY DEF Shape, Poll, exchange, books
<1>5. Current'
  BY <1>0, <1>1 DEF Current, Poll, exchange
<1>6. Fresh'
  BY <1>0, <1>1 DEF Fresh, Poll, exchange
<1>7. Claims'
  BY DEF Claims, Poll, exchange, books
<1> QED
  BY <1>2, <1>3, <1>4, <1>5, <1>6, <1>7

LEMMA GiveUpInv ==
  ASSUME IInv, GiveUp
  PROVE  IInv'
<1> USE DEF IInv
<1>1. TypeOK'
  BY DEF TypeOK, GiveUp, books, exchange, progress
<1>2. Room' /\ Shape' /\ Current' /\ Fresh' /\ Claims'
  BY DEF Room, Shape, Current, Fresh, Claims, GiveUp, books, exchange, progress
<1> QED
  BY <1>1, <1>2

LEMMA CreateInv ==
  ASSUME IInv, Create
  PROVE  IInv'
<1> DEFINE c == <<attempt, try>>
<1> USE DEF IInv
<1>1. pc = "create" /\ c \in Ids /\ c[1] = attempt /\ c[2] = try
  BY IdParts DEF Create, TypeOK
<1>2. orders[c].st = "none" /\ orders[c].filled = 0 /\ counted[c] = 0
  BY <1>1 DEF Fresh, Shape, TypeOK
<1>3. UNCHANGED <<call, attempt, try, cum, won, counted, unread, result, raced>>
  BY DEF Create, books
<1>4. Room'
  BY <1>1, <1>3 DEF Room
<1>5. CASE UNCHANGED <<orders, position, id, seen, ids, stray>> /\ pc' \in {"raised", "recover"}
           /\ (Fails \/ Answers)
  <2>1. TypeOK'
    <3>1. ControlTyped' /\ AnswerTyped' /\ BooksTyped' /\ ResultTyped' /\ OrdersTyped'
      BY <1>3, <1>5, TypeParts DEF ControlTyped, AnswerTyped, BooksTyped, ResultTyped,
                                   OrdersTyped, Pcs
    <3>2. EnvTyped'
      BY <1>5, FaultsType, TypeParts DEF EnvTyped
    <3>3. GhostsTyped'
      BY <1>3, <1>5, TypeParts DEF GhostsTyped
    <3> QED
      BY <3>1, <3>2, <3>3, TypeParts
  <2>2. Shape' /\ Current' /\ Claims'
    BY <1>3, <1>5 DEF Shape, Current, Claims
  <2>3. Fresh'
    BY <1>1, <1>3, <1>5 DEF Fresh, TypeOK
  <2> QED
    BY <1>4, <2>1, <2>2, <2>3
<1>6. ASSUME NEW n \in 0..Size, Accept(c, n), Fails \/ Answers, ids' \in SUBSET Ids, stray' \in SUBSET Ids,
             \/ UNCHANGED <<id, seen>> /\ pc' = "recover"
             \/ /\ id' = c /\ pc' = After(seen')
                /\ seen' = Report(orders'[c]) \/ seen' = Unseen
      PROVE  IInv'
  <2>1. /\ OrdersTyped' /\ position' \in Int
        /\ orders'[c].st \in {"open", "filled", "canceled"}
        /\ orders'[c].st = "open" => orders'[c].filled < orders'[c].amt /\ attempt # Market
        /\ orders'[c].st = "filled" => orders'[c].filled > 0
        /\ orders'[c].filled \in 0..Size
        /\ \A j \in Ids : j # c => orders'[j] = orders[j]
    BY <1>1, <1>6, AcceptUpdate
  <2>2. /\ pc' \in {"recover", "wait", "cancel", "trades"}
        /\ attempt = Market => pc' \in {"recover", "trades"}
        /\ seen' \in Answered
        /\ pc' # "recover" => id' = c /\ seen'.filled <= orders'[c].filled
        /\ seen'.st = "filled" => seen'.filled > 0
        /\ id' \in Ids \cup {NoId}
    <3>1. CASE UNCHANGED <<id, seen>> /\ pc' = "recover"
      BY <3>1 DEF TypeOK, Current
    <3>2. CASE id' = c /\ pc' = After(seen') /\ seen' = Report(orders'[c])
      BY <1>1, <2>1, <3>2, ReportTyped, AfterRange
    <3>3. CASE id' = c /\ pc' = After(seen') /\ seen' = Unseen
      BY <1>1, <2>1, <3>3, UnseenTyped, AfterRange
    <3> QED
      BY <1>6, <3>1, <3>2, <3>3
  <2>3. TypeOK'
    <3>1. ControlTyped' /\ AnswerTyped' /\ BooksTyped' /\ ResultTyped'
      BY <1>3, <1>6, <2>2, TypeParts DEF ControlTyped, AnswerTyped, BooksTyped, ResultTyped, Pcs
    <3>2. EnvTyped'
      BY <1>6, <2>1, FaultsType, TypeParts
    <3>3. GhostsTyped'
      BY <1>3, <1>6, TypeParts DEF GhostsTyped
    <3> QED
      BY <2>1, <3>1, <3>2, <3>3, TypeParts
  <2>4. Shape'
    BY <1>1, <1>2, <1>3, <2>1 DEF Shape
  <2>5. Current'
    BY <1>1, <1>3, <2>1, <2>2 DEF Current
  <2>6. Fresh'
    <3>1. \A i \in Ids : orders'[i].st # "none" => i[1] <= attempt
      BY <1>1, <2>1, IdParts DEF Fresh
    <3>2. pc' = "recover" => \A t \in (try + 1)..Retries : orders'[<<attempt, t>>].st = "none"
      <4> SUFFICES ASSUME NEW t \in (try + 1)..Retries
                   PROVE  orders'[<<attempt, t>>].st = "none"
        OBVIOUS
      <4>1. t \in try..Retries /\ t # try /\ t \in 0..Retries /\ attempt \in 1..Market
        BY Slots DEF TypeOK
      <4>2. <<attempt, t>> \in Ids /\ <<attempt, t>> # c
        BY <4>1, IdParts
      <4> QED
        BY <1>1, <2>1, <4>1, <4>2 DEF Fresh
    <3> QED
      BY <1>3, <2>2, <3>1, <3>2 DEF Fresh
  <2>7. Claims'
    <3>1. \A j \in Ids : orders[j].filled <= orders'[j].filled
      BY <1>2, <2>1, Slots DEF TypeOK
    <3>2. \A j \in Ids : counted[j] \in Int /\ orders[j].filled \in Int /\ orders'[j].filled \in Int
      BY <2>1 DEF TypeOK, OrdersTyped
    <3> QED
      BY <1>3, <3>1, <3>2 DEF Claims
  <2> QED
    BY <1>4, <2>3, <2>4, <2>5, <2>6, <2>7
<1>7. ids \cup {c} \in SUBSET Ids /\ stray \cup {c} \in SUBSET Ids
      /\ Known(c) \in SUBSET Ids /\ stray \in SUBSET Ids /\ ids \in SUBSET Ids
  BY <1>1 DEF Known, TypeOK
<1> HIDE DEF IInv
<1> QED
  BY <1>5, <1>6, <1>7 DEF Create, exchange

LEMMA RecoverInv ==
  ASSUME IInv, Recover
  PROVE  IInv'
<1> USE DEF IInv
<1>1. /\ pc = "recover" /\ attempt \in 1..Market /\ try \in 0..Retries
      /\ UNCHANGED <<call, attempt, cum, won, counted, unread, result, raced, orders, position>>
  BY DEF Recover, books, exchange, TypeOK
<1>2. Shape' /\ Claims'
  BY <1>1 DEF Shape, Claims
<1>3. ASSUME NEW t \in 0..Retries, orders[<<attempt, t>>].st # "none", Answers,
             id' = <<attempt, t>>, ids' = Known(<<attempt, t>>),
             stray' = stray \ {<<attempt, t>>}, try' = try,
             seen' \in {Report(orders[<<attempt, t>>]), Unseen}, pc' = After(seen')
      PROVE  IInv'
  <2> DEFINE j == <<attempt, t>>
  <2>1. j \in Ids /\ j[1] = attempt
    BY <1>1, IdParts
  <2>2. /\ orders[j].st \in {"open", "filled", "canceled"} /\ orders[j].filled \in 0..Size
        /\ orders[j].st = "filled" => orders[j].filled > 0
    BY <1>3, <2>1 DEF TypeOK, Shape
  <2>3. /\ seen' \in Answered /\ seen'.filled <= orders[j].filled
        /\ seen'.st = "filled" => seen'.filled > 0
        /\ pc' \in {"trades", "wait", "cancel"}
        /\ attempt = Market => pc' = "trades"
    BY <1>3, <2>2, ReportTyped, UnseenTyped, AfterRange
  <2>4. ids' \in SUBSET Ids /\ stray' \in SUBSET Ids
    BY <1>3, <2>1 DEF Known, TypeOK
  <2>5. TypeOK'
    <3>1. ControlTyped' /\ AnswerTyped' /\ BooksTyped' /\ ResultTyped' /\ OrdersTyped'
      BY <1>1, <1>3, <2>1, <2>3, <2>4, TypeParts
         DEF ControlTyped, AnswerTyped, BooksTyped, ResultTyped, OrdersTyped, Pcs
    <3>2. EnvTyped'
      BY <1>1, <1>3, FaultsType, TypeParts DEF EnvTyped
    <3>3. GhostsTyped'
      BY <1>1, <2>4, TypeParts DEF GhostsTyped
    <3> QED
      BY <3>1, <3>2, <3>3, TypeParts
  <2>6. Room' /\ Current'
    BY <1>1, <1>3, <2>1, <2>2, <2>3 DEF Room, Current
  <2>7. Fresh'
    BY <1>1, <1>3, <2>3 DEF Fresh
  <2> QED
    BY <1>2, <2>5, <2>6, <2>7
<1>4. ASSUME Fails \/ Answers, UNCHANGED <<id, seen, ids, stray>>,
             \/ try < Retries /\ pc' = "create" /\ try' = try + 1
             \/ pc' = "raised" /\ UNCHANGED try
      PROVE  IInv'
  <2>1. try' \in 0..Retries /\ pc' \in {"create", "raised"} /\ (pc' = "create" => try' = try + 1)
    BY <1>1, <1>4, Slots
  <2>2. TypeOK'
    <3>1. ControlTyped' /\ AnswerTyped' /\ BooksTyped' /\ ResultTyped' /\ OrdersTyped'
      BY <1>1, <1>4, <2>1, TypeParts
         DEF ControlTyped, AnswerTyped, BooksTyped, ResultTyped, OrdersTyped, Pcs
    <3>2. EnvTyped'
      BY <1>1, <1>4, FaultsType, TypeParts DEF EnvTyped
    <3>3. GhostsTyped'
      BY <1>1, <1>4, TypeParts DEF GhostsTyped
    <3> QED
      BY <3>1, <3>2, <3>3, TypeParts
  <2>3. Room' /\ Current'
    BY <1>1, <1>4, <2>1 DEF Room, Current
  <2>4. Fresh'
    BY <1>1, <2>1 DEF Fresh
  <2> QED
    BY <1>2, <2>2, <2>3, <2>4
<1> HIDE DEF IInv
<1> QED
  BY <1>3, <1>4 DEF Recover

\* going to the next attempt, or past the last one
LEMMA NextAttemptRange ==
  ASSUME TypeOK, attempt # Market, NextAttempt
  PROVE  /\ attempt' \in 1..Attempts /\ attempt' # Market
         /\ pc' \in {"quote", "wrapup"}
         /\ pc' = "quote" => attempt' = attempt + 1
         /\ attempt <= attempt'
BY Slots DEF TypeOK, NextAttempt

LEMMA CancelInv ==
  ASSUME IInv, Cancel
  PROVE  IInv'
<1> DEFINE o == [orders[id] EXCEPT !.st = "canceled"]
<1> USE DEF IInv
<1>1. /\ pc = "cancel" /\ id \in Ids /\ id[1] = attempt /\ attempt # Market
      /\ UNCHANGED <<call, try, id, seen, ids, cum, won, counted, unread, result, position>>
  BY DEF Cancel, Current, Fresh, books
<1>2. /\ Fails \/ Answers
      /\ stray' \in SUBSET Ids /\ raced' \in BOOLEAN
      /\ orders' = orders \/ (orders[id].st = "open" /\ orders' = [orders EXCEPT ![id] = o])
  <2>1. Fails \/ Answers
    BY DEF Cancel
  <2>2. stray' \in SUBSET Ids
    BY <1>1 DEF Cancel, TypeOK
  <2>3. raced' \in BOOLEAN
    BY DEF Cancel
  <2>4. orders' = orders \/ (orders[id].st = "open" /\ orders' = [orders EXCEPT ![id] = o])
    BY DEF Cancel
  <2> QED
    BY <2>1, <2>2, <2>3, <2>4
<1>3. /\ o \in [st : {"none", "open", "filled", "canceled"}, amt : 0..Size, filled : 0..Size]
      /\ o.filled = orders[id].filled /\ o.st = "canceled"
  BY <1>1 DEF TypeOK
<1> HIDE DEF o
<1>4. /\ OrdersTyped'
      /\ \A j \in Ids : /\ orders'[j].st = "none" <=> orders[j].st = "none"
                        /\ orders'[j].filled = orders[j].filled
                        /\ orders'[j] = orders[j] \/ orders'[j].st = "canceled"
  <2>1. CASE orders' = orders
    BY <2>1 DEF TypeOK, OrdersTyped
  <2>2. CASE orders[id].st = "open" /\ orders' = [orders EXCEPT ![id] = o]
    BY <1>1, <1>3, <2>2, OrderUpdate DEF OrdersTyped
  <2> QED
    BY <1>2, <2>1, <2>2
<1>5. /\ attempt' \in 1..Market /\ attempt' # Market /\ attempt <= attempt'
      /\ pc' \in {"trades", "quote", "wrapup"}
      /\ pc' = "trades" => attempt' = attempt
      /\ pc' = "quote" => attempt' = attempt + 1
  <2>1. CASE pc' = "trades" /\ attempt' = attempt
    BY <1>1, <2>1 DEF TypeOK
  <2>2. CASE NextAttempt
    BY <1>1, <2>2, NextAttemptRange, Slots
  <2> QED
    BY <2>1, <2>2 DEF Cancel
<1>6. TypeOK'
  <2>1. ControlTyped' /\ AnswerTyped' /\ BooksTyped' /\ ResultTyped'
    BY <1>1, <1>5, TypeParts DEF ControlTyped, AnswerTyped, BooksTyped, ResultTyped, Pcs
  <2>2. EnvTyped'
    BY <1>1, <1>2, FaultsType, TypeParts DEF EnvTyped
  <2>3. GhostsTyped'
    BY <1>1, <1>2, TypeParts DEF GhostsTyped
  <2> QED
    BY <1>4, <2>1, <2>2, <2>3, TypeParts
<1>7. Room'
  BY <1>1 DEF Room
<1>8. Shape'
  BY <1>1, <1>4 DEF Shape
<1>9. Current'
  BY <1>1, <1>4, <1>5 DEF Current
<1>10. Fresh'
  <2>1. \A i \in Ids : orders'[i].st # "none" => i[1] <= attempt
    BY <1>4 DEF Fresh
  <2>2. \A i \in Ids : i[1] \in Int
    BY IdParts
  <2>3. attempt \in Int /\ attempt' \in Int
    BY <1>5, Slots DEF TypeOK
  <2>4. \A i \in Ids : orders'[i].st # "none" => i[1] <= attempt'
    BY <1>5, <2>1, <2>2, <2>3
  <2>5. pc' = "quote" => \A i \in Ids : i[1] = attempt' => orders'[i].st = "none"
    BY <1>5, <2>1, <2>2, <2>3
  <2> QED
    BY <1>5, <2>4, <2>5 DEF Fresh
<1>11. Claims'
  BY <1>1, <1>4 DEF Claims
<1> QED
  BY <1>6, <1>7, <1>8, <1>9, <1>10, <1>11

LEMMA TradesInv ==
  ASSUME IInv, Trades
  PROVE  IInv'
<1> USE DEF IInv
<1>1. /\ pc = "trades" /\ id \in Ids /\ id[1] = attempt /\ orders[id].st # "none"
      /\ UNCHANGED <<call, try, id, seen, ids, unread, orders, position, stray, raced>>
  BY DEF Trades, Current, exchange
<1>2. PICK n \in 0..orders[id].filled :
        /\ Fails \/ Answers
        /\ Books(Took(n))
        /\ \/ /\ Returns(Status(Took(n)), Took(n), Left(Took(n)))
              /\ UNCHANGED attempt
           \/ /\ call.kind = "OPEN" /\ attempt # Market
              /\ IF cum + Took(n) >= Size
                 THEN Returns("filled", cum + Took(n), 0) /\ UNCHANGED attempt
                 ELSE NextAttempt /\ UNCHANGED result
  BY DEF Trades, Reads
<1>3. Took(n) \in 0..Size /\ (attempt # Market => Took(n) <= orders[id].filled)
  BY <1>1, <1>2, TookRange DEF Room
<1>4. /\ cum' = cum + Took(n) /\ cum' \in Nat /\ won' \in BOOLEAN
      /\ counted' \in [Ids -> 0..Size] /\ counted'[id] = Took(n)
      /\ \A j \in Ids : j # id => counted'[j] = counted[j]
  BY <1>1, <1>2, <1>3, Slots DEF Books, TypeOK
<1>5. /\ attempt' \in 1..Market /\ attempt <= attempt'
      /\ pc' \in {"returned", "quote", "wrapup"}
      /\ pc' # "returned" => attempt' # Market /\ (call.kind = "OPEN" => cum' < Size)
      /\ pc' = "quote" => attempt' = attempt + 1
      /\ ResultTyped'
  <2>1. CASE Returns(Status(Took(n)), Took(n), Left(Took(n))) /\ UNCHANGED attempt
    <3>1. Status(Took(n)) \in {"partial", "filled"} /\ Left(Took(n)) \in 0..Size /\ Took(n) \in Nat
      BY <1>3, LeftRange, Slots
    <3>2. ResultTyped' /\ pc' = "returned"
      BY <2>1, <3>1, ResultType
    <3> QED
      BY <2>1, <3>2 DEF TypeOK
  <2>2. CASE Returns("filled", cum + Took(n), 0) /\ UNCHANGED attempt
    <3>1. cum + Took(n) \in Nat /\ 0 \in 0..Size
      BY <1>4, Slots
    <3>2. ResultTyped' /\ pc' = "returned"
      BY <2>2, <3>1, ResultType
    <3> QED
      BY <2>2, <3>2 DEF TypeOK
  <2>3. CASE attempt # Market /\ cum + Took(n) < Size /\ NextAttempt /\ UNCHANGED result
    <3>1. ResultTyped'
      BY <2>3, TypeParts DEF ResultTyped
    <3> QED
      BY <1>4, <2>3, <3>1, NextAttemptRange, Slots
  <2>4. cum + Took(n) \in Int /\ Size \in Int
    BY <1>4, Slots
  <2> QED
    BY <1>2, <2>1, <2>2, <2>3, <2>4
<1>6. TypeOK'
  <2>1. ControlTyped' /\ AnswerTyped' /\ BooksTyped' /\ OrdersTyped'
    BY <1>1, <1>4, <1>5, TypeParts DEF ControlTyped, AnswerTyped, BooksTyped, OrdersTyped, Pcs
  <2>2. EnvTyped'
    BY <1>1, <1>2, FaultsType, TypeParts DEF EnvTyped
  <2>3. GhostsTyped'
    BY <1>1, <1>4, TypeParts DEF GhostsTyped
  <2> QED
    BY <1>5, <2>1, <2>2, <2>3, TypeParts
<1>7. Room'
  BY <1>1, <1>5 DEF Room
<1>8. Shape'
  BY <1>1, <1>4 DEF Shape
<1>9. Current'
  BY <1>1, <1>5 DEF Current
<1>10. Fresh'
  <2>1. \A i \in Ids : orders'[i].st # "none" => i[1] <= attempt
    BY <1>1 DEF Fresh
  <2>2. \A i \in Ids : i[1] \in Int
    BY IdParts
  <2>3. attempt \in Int /\ attempt' \in Int
    BY <1>5, Slots DEF TypeOK
  <2>4. \A i \in Ids : orders'[i].st # "none" => i[1] <= attempt'
    BY <1>5, <2>1, <2>2, <2>3
  <2>5. pc' = "quote" => \A i \in Ids : i[1] = attempt' => orders'[i].st = "none"
    BY <1>5, <2>1, <2>2, <2>3
  <2> QED
    BY <1>5, <2>4, <2>5 DEF Fresh
<1>11. Claims'
  BY <1>1, <1>3, <1>4 DEF Claims
<1> QED
  BY <1>6, <1>7, <1>8, <1>9, <1>10, <1>11

\* the ways a call goes on without touching its orders
LEMMA ResultStep ==
  ASSUME IInv, attempt # Market, Fails \/ Answers,
         UNCHANGED <<call, attempt, try, id, seen, ids, cum, won, counted, orders, position,
                     stray, raced>>,
         unread' \in SUBSET Ids, ResultTyped',
         pc' \in {"returned", "residual", "market"},
         pc' = "market" /\ call.kind = "OPEN" => cum < Size
  PROVE  IInv'
<1> USE DEF IInv
<1>1. TypeOK'
  <2>1. ControlTyped' /\ AnswerTyped' /\ BooksTyped' /\ OrdersTyped'
    BY TypeParts DEF ControlTyped, AnswerTyped, BooksTyped, OrdersTyped, Pcs
  <2>2. EnvTyped'
    BY FaultsType, TypeParts DEF EnvTyped
  <2>3. GhostsTyped'
    BY TypeParts DEF GhostsTyped
  <2> QED
    BY <2>1, <2>2, <2>3, TypeParts
<1>2. Room' /\ Shape' /\ Current' /\ Fresh' /\ Claims'
  BY DEF Room, Shape, Current, Fresh, Claims
<1> QED
  BY <1>1, <1>2

\* a result for the fills so far, or a fallback, has its type
LEMMA CumResult ==
  ASSUME TypeOK, Returns(Status(cum), cum, Left(cum))
  PROVE  ResultTyped' /\ pc' = "returned"
BY LeftRange, ResultType DEF TypeOK

LEMMA FallBackResult ==
  ASSUME TypeOK, FallBack
  PROVE  ResultTyped' /\ pc' \in {"returned", "market"}
<1>1. CASE Returns("canceled", 0, 0)
  BY <1>1, ResultType, Slots
<1>2. CASE pc' = "market" /\ UNCHANGED result
  BY <1>2, TypeParts DEF ResultTyped
<1> QED
  BY <1>1, <1>2 DEF FallBack

LEMMA WrapUpInv ==
  ASSUME IInv, WrapUp
  PROVE  IInv'
<1>1. TypeOK /\ attempt # Market /\ Answers
  BY DEF IInv, WrapUp, Fresh, Answers
<1>2. /\ UNCHANGED <<call, attempt, try, id, seen, ids, cum, won, counted, orders, position,
                     stray, raced>>
  BY DEF WrapUp, progress, books, exchange
<1>3. unread' \in SUBSET Ids
  BY <1>1 DEF WrapUp, TypeOK
<1>4. /\ ResultTyped' /\ pc' \in {"returned", "residual", "market"}
      /\ pc' = "market" => call.kind = "CLOSE"
  <2>1. CASE Returns(Status(cum), cum, Left(cum))
    BY <1>1, <2>1, CumResult
  <2>2. CASE pc' = "residual" /\ UNCHANGED result
    BY <1>1, <2>2, TypeParts DEF ResultTyped
  <2>3. CASE call.kind = "CLOSE" /\ FallBack
    BY <1>1, <2>3, FallBackResult
  <2> QED
    BY <2>1, <2>2, <2>3 DEF WrapUp
<1> QED
  BY <1>1, <1>2, <1>3, <1>4, ResultStep

LEMMA ResidualDoneInv ==
  ASSUME IInv, ResidualDone
  PROVE  IInv'
<1>1. TypeOK /\ attempt # Market /\ Answers /\ cum \in Nat
  BY DEF IInv, ResidualDone, Fresh, Answers, TypeOK
<1>2. /\ UNCHANGED <<call, attempt, try, id, seen, ids, cum, won, counted, orders, position,
                     stray, raced>>
      /\ unread' \in SUBSET Ids
  BY <1>1 DEF ResidualDone, progress, books, exchange, TypeOK
<1>3. /\ ResultTyped' /\ pc' \in {"returned", "residual", "market"}
      /\ pc' = "market" => cum < Size
  <2>1. CASE Returns(Status(cum), cum, Left(cum))
    BY <1>1, <2>1, CumResult
  <2>2. CASE ~(cum > 0) /\ FallBack
    BY <1>1, <2>2, FallBackResult, Slots
  <2> QED
    BY <2>1, <2>2 DEF ResidualDone
<1> QED
  BY <1>1, <1>2, <1>3, ResultStep

LEMMA ResidualInv ==
  ASSUME IInv, NEW i \in Ids, Residual(i)
  PROVE  IInv'
<1> USE DEF IInv
<1>1. /\ pc = "residual" /\ pc' = pc /\ unread' \in SUBSET Ids
      /\ UNCHANGED <<call, attempt, try, id, seen, ids, won, result, orders, position, stray, raced>>
  BY DEF Residual, progress, exchange, TypeOK
<1>2. PICK n \in 0..orders[i].filled :
        (Fails \/ Answers) /\ counted' = [counted EXCEPT ![i] = n] /\ cum' = cum + n
  BY DEF Residual, Reads
<1>3. /\ orders[i].filled \in 0..Size /\ n \in 0..Size /\ n <= orders[i].filled
      /\ counted' \in [Ids -> 0..Size] /\ counted'[i] = n /\ cum' \in Nat
      /\ \A j \in Ids : j # i => counted'[j] = counted[j]
  BY <1>2, Slots DEF TypeOK
<1>4. TypeOK'
  <2>1. ControlTyped' /\ AnswerTyped' /\ BooksTyped' /\ ResultTyped' /\ OrdersTyped'
    BY <1>1, <1>3, TypeParts DEF ControlTyped, AnswerTyped, BooksTyped, ResultTyped, OrdersTyped
  <2>2. EnvTyped'
    BY <1>1, <1>2, FaultsType, TypeParts DEF EnvTyped
  <2>3. GhostsTyped'
    BY <1>1, <1>3, TypeParts DEF GhostsTyped
  <2> QED
    BY <2>1, <2>2, <2>3, TypeParts
<1>5. Room' /\ Current' /\ Fresh'
  BY <1>1 DEF Room, Current, Fresh
<1>6. Shape'
  <2>1. orders[i].st = "none" => n = 0
    BY <1>3 DEF Shape
  <2> QED
    BY <1>1, <1>3, <2>1 DEF Shape
<1>7. Claims'
  BY <1>1, <1>3 DEF Claims
<1> QED
  BY <1>4, <1>5, <1>6, <1>7

LEMMA StutterInv ==
  ASSUME IInv, UNCHANGED vars
  PROVE  IInv'
<1> USE DEF IInv
<1>1. TypeOK'
  BY DEF TypeOK, vars
<1>2. Room' /\ Shape' /\ Current' /\ Fresh' /\ Claims'
  BY DEF Room, Shape, Current, Fresh, Claims, vars
<1> QED
  BY <1>1, <1>2

LEMMA StepInv == IInv /\ [Next]_vars => IInv'
<1> SUFFICES ASSUME IInv, [Next]_vars PROVE IInv'
  OBVIOUS
<1>1. CASE Quote BY <1>1, QuoteInv
<1>2. CASE MarketOrder BY <1>2, MarketOrderInv
<1>3. CASE Create BY <1>3, CreateInv
<1>4. CASE Recover BY <1>4, RecoverInv
<1>5. CASE Poll BY <1>5, PollInv
<1>6. CASE GiveUp BY <1>6, GiveUpInv
<1>7. CASE Cancel BY <1>7, CancelInv
<1>8. CASE Trades BY <1>8, TradesInv
<1>9. CASE WrapUp BY <1>9, WrapUpInv
<1>10. CASE ResidualDone BY <1>10, ResidualDoneInv
<1>11. CASE \E i \in Ids : Residual(i) BY <1>11, ResidualInv
<1>12. CASE \E i \in Ids : Fill(i) BY <1>12, FillInv
<1>13. CASE \E i \in Ids : Expire(i) BY <1>13, ExpireInv
<1>14. CASE UNCHANGED vars BY <1>14, StutterInv
<1> QED
  BY <1>1, <1>2, <1>3, <1>4, <1>5, <1>6, <1>7, <1>8, <1>9, <1>10, <1>11, <1>12, <1>13, <1>14
     DEF Next, Step

-----------------------------------------------------------------------------
(* Theorems                                                                 *)

\* Every variable keeps its type, for every size of order, number of attempts,
\* retries and failing calls (Executor.open_position, close_position).
THEOREM TypeCorrect == Spec => []TypeOK
<1>1. IInv => TypeOK
  BY DEF IInv
<1> QED
  BY <1>1, InitInv, StepInv, PTL DEF Spec

\* A close never trades past the position it was asked to close, whatever
\* becomes of its earlier attempts: its orders are reduce-only.
THEOREM NeverReversed == Spec => []NeverReverses
<1>1. Init => NeverReverses
  BY Slots DEF Init, NeverReverses
<1>2. IInv /\ NeverReverses /\ [Next]_vars => NeverReverses'
  <2> SUFFICES ASSUME IInv, NeverReverses, [Next]_vars PROVE NeverReverses'
    OBVIOUS
  <2>1. ASSUME UNCHANGED <<call, position>> PROVE NeverReverses'
    BY <2>1 DEF NeverReverses
  <2>2. ASSUME NEW n \in Nat, UNCHANGED call, Reducible(n), position' = Moved(n)
        PROVE  NeverReverses'
    BY <2>2 DEF NeverReverses, Reducible, ReduceOnly, Moved, IInv, TypeOK
  <2>3. CASE \E i \in Ids : Fill(i)
    BY <2>2, <2>3 DEF Fill
  <2>4. CASE Create
    <3>1. CASE UNCHANGED <<call, position>>
      BY <2>1, <3>1
    <3>2. ASSUME NEW c, NEW n \in 0..Size, UNCHANGED call, Accept(c, n)
          PROVE  NeverReverses'
      <4>1. n \in Nat
        BY Slots
      <4> QED
        BY <2>2, <3>2, <4>1 DEF Accept
    <3> QED
      BY <2>4, <3>1, <3>2 DEF Create, exchange
  <2>5. CASE Quote \/ MarketOrder \/ Recover \/ Poll \/ GiveUp
    BY <2>1, <2>5 DEF Quote, MarketOrder, Recover, Poll, GiveUp, exchange
  <2>6. CASE Cancel \/ Trades \/ WrapUp \/ ResidualDone \/ \E i \in Ids : Residual(i)
    BY <2>1, <2>6 DEF Cancel, Trades, WrapUp, ResidualDone, Residual, exchange
  <2>7. CASE (\E i \in Ids : Expire(i)) \/ UNCHANGED vars
    BY <2>1, <2>7 DEF Expire, vars
  <2> QED
    BY <2>3, <2>4, <2>5, <2>6, <2>7 DEF Next, Step
<1> QED
  BY <1>1, <1>2, InitInv, StepInv, PTL DEF Spec

\* The detailed call keeps the contract of its caller: no result claims a fill
\* of a post-only order that did not trade, claims are made once, and an
\* exception claims nothing.
THEOREM ContractKept == Spec => KeepsContract
<1> DEFINE traded == [i \in Ids |-> orders[i].filled]
           claimed == [i \in Ids |-> IF pc = "returned" THEN counted[i] ELSE 0]
           phase == IF Ended THEN pc ELSE "working"
<1>1. Init => Contract!Init
  <2> SUFFICES ASSUME Init PROVE Contract!Init
    OBVIOUS
  <2>1. pc \in {"market", "quote"} /\ orders = [i \in Ids |-> NoOrder]
    BY DEF Init
  <2>2. phase = "working" /\ claimed = [i \in Ids |-> 0]
    BY <2>1 DEF Ended
  <2>3. traded = [i \in Ids |-> 0]
    BY <2>1 DEF NoOrder
  <2> QED
    BY <2>2, <2>3 DEF Contract!Init, Contract!Nothing
<1>2. IInv /\ IInv' /\ [Next]_vars => [Contract!Next]_Contract!vars
  <2> SUFFICES ASSUME IInv, IInv', [Next]_vars PROVE [Contract!Next]_Contract!vars
    OBVIOUS
  <2>0. /\ OrdersTyped /\ OrdersTyped' /\ GhostsTyped /\ GhostsTyped'
    BY TypeParts DEF IInv
  \* a step of the exchange, or of the executor before its end, is a trade
  <2>1. ASSUME \A i \in Ids : orders[i].filled <= orders'[i].filled,
               \/ pc' = pc /\ (pc = "returned" => counted' = counted)
               \/ ~Ended /\ ~Ended'
        PROVE  Contract!Trade
    <3>1. traded' \in [Ids -> 0..Size]
      BY <2>0 DEF OrdersTyped
    <3>2. \A i \in Ids : traded[i] <= traded'[i]
      BY <2>1
    <3>3. phase' = phase
      BY <2>1 DEF Ended
    <3>4. claimed' = claimed
      <4>1. CASE pc' = pc /\ (pc = "returned" => counted' = counted)
        BY <4>1
      <4>2. CASE ~Ended /\ ~Ended'
        BY <4>2 DEF Ended
      <4> QED
        BY <2>1, <4>1, <4>2
    <3> QED
      BY <3>1, <3>2, <3>3, <3>4 DEF Contract!Trade
  <2>2. ASSUME orders' = orders, ~Ended, pc' = "returned"
        PROVE  Contract!Return
    <3>1. phase = "working" /\ phase' = "returned"
      BY <2>2 DEF Ended
    <3>2. claimed' \in [Ids -> 0..Size] /\ \A i \in Ids : claimed'[i] = counted'[i]
      BY <2>0, <2>2 DEF GhostsTyped
    <3>3. \A i \in Ids : i[1] # Market => counted'[i] <= orders[i].filled
      BY <2>2 DEF IInv, Claims
    <3>4. traded' = traded
      BY <2>2
    <3> QED
      BY <3>1, <3>2, <3>3, <3>4 DEF Contract!Return
  <2>3. ASSUME orders' = orders, ~Ended, pc' = "raised"
        PROVE  Contract!Raise
    <3>1. phase = "working" /\ phase' = "raised"
      BY <2>3 DEF Ended
    <3>2. claimed' = claimed /\ traded' = traded
      BY <2>3 DEF Ended
    <3> QED
      BY <3>1, <3>2 DEF Contract!Raise
  <2>4. \A i \in Ids : orders[i].filled \in Int /\ orders[i].filled <= orders[i].filled
    BY <2>0 DEF OrdersTyped
  <2>5. ASSUME orders' = orders, ~Ended, pc' \in Pcs
        PROVE  [Contract!Next]_Contract!vars
    <3>1. CASE pc' \in {"returned", "raised"}
      BY <2>2, <2>3, <2>5, <3>1 DEF Contract!Next
    <3>2. CASE pc' \notin {"returned", "raised"}
      <4>1. ~Ended'
        BY <3>2 DEF Ended
      <4> QED
        BY <2>1, <2>4, <2>5, <4>1 DEF Contract!Next
    <3> QED
      BY <3>1, <3>2
  <2>6. pc' \in Pcs
    BY TypeParts DEF IInv, ControlTyped
  <2>7. CASE Quote \/ MarketOrder \/ Recover \/ Poll \/ GiveUp
    BY <2>5, <2>6, <2>7 DEF Quote, MarketOrder, Recover, Poll, GiveUp, exchange, Ended
  <2>8. CASE Trades \/ WrapUp \/ ResidualDone \/ \E i \in Ids : Residual(i)
    BY <2>5, <2>6, <2>8 DEF Trades, WrapUp, ResidualDone, Residual, exchange, Ended
  <2>9. CASE Cancel
    <3>1. ~Ended /\ ~Ended'
      BY <2>9 DEF Cancel, NextAttempt, Ended
    <3>2. id \in Ids
      BY <2>9 DEF Cancel, IInv, Current
    <3>3. \A i \in Ids : orders[i].filled <= orders'[i].filled
      BY <2>0, <2>4, <2>9, <3>2 DEF Cancel, OrdersTyped
    <3> QED
      BY <2>1, <3>1, <3>3 DEF Contract!Next
  <2>10. CASE Create
    <3>0. pc = "create" /\ ~Ended /\ <<attempt, try>> \in Ids
      BY <2>10, IdParts DEF Create, Ended, IInv, TypeOK
    <3>1. CASE orders' = orders
      BY <2>5, <2>6, <3>0, <3>1
    <3>2. ASSUME NEW n \in 0..Size, Accept(<<attempt, try>>, n), pc' # "raised" /\ pc' # "returned"
          PROVE  [Contract!Next]_Contract!vars
      <4> DEFINE c == <<attempt, try>>
      <4>1. orders[c].filled = 0 /\ c[1] = attempt /\ c[2] = try
        BY <3>0 DEF IInv, Fresh, Shape, TypeOK
      <4>2. orders'[c].filled \in 0..Size /\ \A j \in Ids : j # c => orders'[j] = orders[j]
        BY <3>0, <3>2, <4>1, AcceptUpdate
      <4>3. \A i \in Ids : orders[i].filled <= orders'[i].filled
        BY <2>4, <4>1, <4>2, Slots
      <4>4. ~Ended'
        BY <3>2 DEF Ended
      <4> QED
        BY <2>1, <3>0, <4>3, <4>4 DEF Contract!Next
    <3>3. After(seen') # "raised" /\ After(seen') # "returned"
      BY AfterRange
    <3> QED
      BY <2>10, <3>1, <3>2, <3>3 DEF Create, exchange
  <2>11. CASE \E i \in Ids : Fill(i)
    <3>1. PICK i \in Ids : Fill(i)
      BY <2>11
    <3>2. pc' = pc /\ counted' = counted
      BY <3>1 DEF Fill, history
    <3>3. \A j \in Ids : orders[j].filled <= orders'[j].filled
      BY <2>0, <2>4, <3>1 DEF Fill, Traded, OrdersTyped
    <3> QED
      BY <2>1, <3>2, <3>3 DEF Contract!Next
  <2>12. CASE \E i \in Ids : Expire(i)
    <3>1. PICK i \in Ids : Expire(i)
      BY <2>12
    <3>2. pc' = pc /\ counted' = counted
      BY <3>1 DEF Expire, history
    <3>3. \A j \in Ids : orders[j].filled <= orders'[j].filled
      BY <2>0, <2>4, <3>1 DEF Expire, OrdersTyped
    <3> QED
      BY <2>1, <3>2, <3>3 DEF Contract!Next
  <2>13. CASE UNCHANGED vars
    <3>1. pc' = pc /\ counted' = counted /\ orders' = orders
      BY <2>13 DEF vars
    <3> QED
      BY <2>1, <2>4, <3>1 DEF Contract!Next
  <2> QED
    BY <2>7, <2>8, <2>9, <2>10, <2>11, <2>12, <2>13 DEF Next, Step
<1> QED
  BY <1>1, <1>2, InitInv, StepInv, PTL DEF Spec, KeepsContract, Contract!Spec

-----------------------------------------------------------------------------
(* One order at a time                                                      *)

\* Every order of the attempt has its amount.
Sized == pc \in {"create", "recover", "wait", "cancel", "trades"} =>
           \A i \in Ids : i[1] = attempt /\ orders[i].st # "none" => orders[i].amt = Amount

\* An open order the call is sure about is the one in hand.
Live == \A i \in Ids :
          orders[i].st = "open" /\ i \notin stray => i = id /\ pc \in {"wait", "cancel"}

\* a step that moves no order within the attempt keeps the sizes
LEMMA SizedKept ==
  ASSUME Sized, UNCHANGED <<call, attempt, cum>>,
         pc \in {"create", "recover", "wait", "cancel", "trades"},
         \A i \in Ids : orders'[i].st # "none" => orders[i].st # "none"
                                                  /\ orders'[i].amt = orders[i].amt
  PROVE  Sized'
BY DEF Sized, Amount

\* an attempt that starts has no order yet
LEMMA SizedFresh ==
  ASSUME \A i \in Ids : i[1] = attempt' => orders'[i].st = "none"
  PROVE  Sized'
BY DEF Sized

LEMMA SizedIdle ==
  ASSUME pc' \notin {"create", "recover", "wait", "cancel", "trades"}
  PROVE  Sized'
BY DEF Sized

LEMMA SizedStep == IInv /\ Sized /\ [Next]_vars => Sized'
<1> SUFFICES ASSUME IInv, Sized, [Next]_vars PROVE Sized'
  OBVIOUS
<1> DEFINE Sending == {"create", "recover", "wait", "cancel", "trades"}
<1>1. CASE \E i \in Ids : Fill(i)
  <2>1. PICK i \in Ids : Fill(i)
    BY <1>1
  <2>2. UNCHANGED <<call, attempt, cum, pc>>
    BY <2>1 DEF Fill, progress
  <2>3. \A j \in Ids : orders'[j].st # "none" => orders[j].st # "none"
                                                 /\ orders'[j].amt = orders[j].amt
    BY <2>1 DEF Fill, Traded, IInv, TypeOK
  <2> QED
    BY <2>2, <2>3, SizedKept, SizedIdle
<1>2. CASE \E i \in Ids : Expire(i)
  <2>1. PICK i \in Ids : Expire(i)
    BY <1>2
  <2>2. UNCHANGED <<call, attempt, cum, pc>>
    BY <2>1 DEF Expire, progress
  <2>3. \A j \in Ids : orders'[j].st # "none" => orders[j].st # "none"
                                                 /\ orders'[j].amt = orders[j].amt
    BY <2>1 DEF Expire, IInv, TypeOK
  <2> QED
    BY <2>2, <2>3, SizedKept, SizedIdle
<1>3. CASE Quote
  <2>1. orders' = orders /\ attempt' = attempt /\ pc = "quote"
    BY <1>3 DEF Quote, exchange
  <2> QED
    BY <2>1, SizedFresh DEF IInv, Fresh
<1>4. CASE MarketOrder
  <2>1. orders' = orders /\ pc = "market" /\ pc' \in {"raised", "returned", "create"}
        /\ (pc' = "create" => attempt' = Market)
    BY <1>4 DEF MarketOrder, exchange, Rejects, Returns
  <2>2. attempt # Market /\ attempt \in 1..Market
    BY <2>1 DEF IInv, Fresh, TypeOK
  <2>3. \A i \in Ids : i[1] = Market => orders[i].st = "none"
    BY <2>2, Slots DEF IInv, Fresh
  <2> QED
    BY <2>1, <2>3, SizedFresh, SizedIdle
<1>5. CASE Create
  <2>1. pc = "create" /\ UNCHANGED <<call, attempt, cum>> /\ <<attempt, try>> \in Ids
    BY <1>5, IdParts DEF Create, books, IInv, TypeOK
  <2>2. CASE orders' = orders
    BY <2>1, <2>2, SizedKept
  <2>3. ASSUME NEW n \in 0..Size, Accept(<<attempt, try>>, n)
        PROVE  Sized'
    <3>1. orders'[<<attempt, try>>].amt = Amount
          /\ \A j \in Ids : j # <<attempt, try>> => orders'[j] = orders[j]
      BY <2>1, <2>3 DEF Accept, IInv, TypeOK
    <3>2. Amount' = Amount
      BY <2>1 DEF Amount
    <3> QED
      BY <2>1, <3>1, <3>2 DEF Sized
  <2> QED
    BY <1>5, <2>2, <2>3 DEF Create, exchange
<1>6. CASE Recover
  <2>1. pc = "recover" /\ UNCHANGED <<call, attempt, cum, orders>>
    BY <1>6 DEF Recover, books, exchange
  <2> QED
    BY <2>1, SizedKept
<1>7. CASE Poll \/ GiveUp
  <2>1. pc = "wait" /\ UNCHANGED <<call, attempt, cum, orders>>
    BY <1>7 DEF Poll, GiveUp, books, exchange, progress
  <2> QED
    BY <2>1, SizedKept
<1>8. CASE Cancel
  <2>1. pc = "cancel" /\ UNCHANGED <<call, cum>> /\ id \in Ids /\ attempt # Market
    BY <1>8 DEF Cancel, books, IInv, Current, Fresh
  <2>2. \A j \in Ids : orders'[j].st # "none" => orders[j].st # "none"
                                                 /\ orders'[j].amt = orders[j].amt
    BY <1>8, <2>1 DEF Cancel, IInv, TypeOK
  <2>3. CASE UNCHANGED attempt
    BY <2>1, <2>2, <2>3, SizedKept
  <2>4. CASE NextAttempt
    BY <2>1, <2>4, NextAttemptRange, SizedIdle DEF IInv
  <2> QED
    BY <1>8, <2>3, <2>4 DEF Cancel
<1>9. CASE Trades
  <2>1. pc' \in {"returned", "quote", "wrapup"}
    BY <1>9 DEF Trades, Returns, NextAttempt
  <2> QED
    BY <2>1, SizedIdle
<1>10. CASE WrapUp \/ ResidualDone \/ \E i \in Ids : Residual(i)
  <2>1. pc' \in {"returned", "residual", "market"}
    BY <1>10 DEF WrapUp, ResidualDone, Residual, Returns, FallBack
  <2> QED
    BY <2>1, SizedIdle
<1>11. CASE UNCHANGED vars
  BY <1>11 DEF vars, Sized, Amount
<1> QED
  BY <1>1, <1>2, <1>3, <1>4, <1>5, <1>6, <1>7, <1>8, <1>9, <1>10, <1>11 DEF Next, Step

\* an answer that sends the call to the trades is one of an order that ended
LEMMA FullIsClosed ==
  ASSUME IInv, Sized, pc \in {"create", "recover", "wait", "cancel", "trades"},
         NEW i \in Ids, i[1] = attempt, orders[i].st = "open",
         NEW s \in Answered, s.filled <= orders[i].filled,
         s.st = "filled" => s.filled > 0
  PROVE  After(s) \in {"wait", "cancel"}
<1>1. orders[i].amt = Amount /\ orders[i].filled < Amount /\ attempt # Market
  BY DEF Sized, IInv, Shape
<1>2. Amount \in 1..Size
  BY AmountRange DEF IInv, Room
<1>3. s.filled \in 0..Size /\ orders[i].filled \in 0..Size
  BY DEF IInv, TypeOK, Answered
<1>4. ParsedFill(s) = s.filled
  BY <1>2, <1>3 DEF ParsedFill
<1>5. ParsedFill(s) < Amount
  BY <1>1, <1>2, <1>3, <1>4
<1> QED
  BY <1>1, <1>5 DEF After

LEMMA LiveStep == IInv /\ Sized /\ Live /\ [Next]_vars => Live'
<1> SUFFICES ASSUME IInv, Sized, Live, [Next]_vars PROVE Live'
  OBVIOUS
<1>1. CASE \E i \in Ids : Fill(i)
  <2>1. PICK i \in Ids : Fill(i)
    BY <1>1
  <2>2. UNCHANGED <<pc, id, stray>>
    BY <2>1 DEF Fill, progress, history
  <2>3. \A j \in Ids : orders'[j].st = "open" => orders[j].st = "open"
    BY <2>1 DEF Fill, Traded, IInv, TypeOK
  <2> QED
    BY <2>2, <2>3 DEF Live
<1>2. CASE \E i \in Ids : Expire(i)
  <2>1. PICK i \in Ids : Expire(i)
    BY <1>2
  <2>2. UNCHANGED <<pc, id, stray>>
    BY <2>1 DEF Expire, progress, history
  <2>3. \A j \in Ids : orders'[j].st = "open" => orders[j].st = "open"
    BY <2>1 DEF Expire, IInv, TypeOK
  <2> QED
    BY <2>2, <2>3 DEF Live
<1>3. CASE \/ Quote \/ MarketOrder \/ Trades \/ WrapUp \/ ResidualDone
           \/ \E i \in Ids : Residual(i)
  <2>1. orders' = orders /\ stray' = stray /\ pc \notin {"wait", "cancel"}
    BY <1>3 DEF Quote, MarketOrder, Trades, WrapUp, ResidualDone, Residual, exchange
  <2> QED
    BY <2>1 DEF Live
<1>4. CASE Create
  <2> DEFINE c == <<attempt, try>>
  <2>1. pc = "create" /\ c \in Ids /\ c[1] = attempt
    BY <1>4, IdParts DEF Create, IInv, TypeOK
  <2>2. CASE orders' = orders /\ stray' = stray
    BY <2>1, <2>2 DEF Live
  <2>3. ASSUME NEW n \in 0..Size, Accept(c, n)
        PROVE  /\ orders'[c].st = "open" => orders'[c].filled = 0
               /\ orders'[c].st \in {"open", "filled", "canceled"}
               /\ orders'[c].filled \in 0..Size
               /\ \A j \in Ids : j # c => orders'[j] = orders[j]
               /\ orders'[c].st = "open" => attempt # Market
    <3>1. /\ orders'[c].st \in {"open", "filled", "canceled"}
          /\ orders'[c].filled \in 0..Size
          /\ orders'[c].st = "open" => attempt # Market
          /\ \A j \in Ids : j # c => orders'[j] = orders[j]
      BY <2>1, <2>3, AcceptUpdate
    <3>2. orders'[c].filled = n
      BY <2>1, <2>3 DEF Accept, IInv, TypeOK
    <3>3. attempt # Market => n = 0
      BY <2>3 DEF Accept
    <3> QED
      BY <3>1, <3>2, <3>3
  <2>4. ASSUME NEW n \in 0..Size, Accept(c, n), stray' = stray \cup {c}
        PROVE  Live'
    BY <2>1, <2>3, <2>4 DEF Live
  <2>5. ASSUME NEW n \in 0..Size, Accept(c, n), stray' = stray, id' = c,
               pc' = After(seen'), seen' \in {Report(orders'[c])} \cup
                                   (IF attempt = Market THEN {Unseen} ELSE {})
        PROVE  Live'
    <3>1. ASSUME orders'[c].st = "open"
          PROVE  pc' \in {"wait", "cancel"}
      <4>1. attempt # Market /\ seen' = Report(orders'[c]) /\ orders'[c].filled = 0
        BY <2>3, <2>5, <3>1
      <4>2. seen'.filled = 0 /\ seen'.st = "open"
        BY <2>3, <2>5, <3>1, <4>1, ReportTyped
      <4>3. ParsedFill(seen') = 0
        BY <4>2 DEF ParsedFill
      <4> QED
        BY <2>5, <4>1, <4>2, <4>3 DEF After
    <3> QED
      BY <2>1, <2>3, <2>5, <3>1 DEF Live
  <2> QED
    BY <1>4, <2>2, <2>4, <2>5 DEF Create, exchange
<1>5. CASE Recover
  <2>1. pc = "recover" /\ orders' = orders /\ attempt \in 1..Market
    BY <1>5 DEF Recover, exchange, IInv, TypeOK
  <2>2. CASE stray' = stray
    BY <2>1, <2>2 DEF Live
  <2>3. ASSUME NEW t \in 0..Retries, orders[<<attempt, t>>].st # "none",
               id' = <<attempt, t>>, stray' = stray \ {<<attempt, t>>},
               seen' \in {Report(orders[<<attempt, t>>]), Unseen}, pc' = After(seen')
        PROVE  Live'
    <3> DEFINE j == <<attempt, t>>
    <3>1. j \in Ids /\ j[1] = attempt
      BY <2>1, IdParts
    <3>2. /\ orders[j].st \in {"open", "filled", "canceled"} /\ orders[j].filled \in 0..Size
          /\ orders[j].st = "filled" => orders[j].filled > 0
      BY <2>3, <3>1 DEF IInv, TypeOK, Shape
    <3>3. /\ seen' \in Answered /\ seen'.filled <= orders[j].filled
          /\ seen'.st = "filled" => seen'.filled > 0
      BY <2>3, <3>2, ReportTyped, UnseenTyped
    <3>4. orders[j].st = "open" => pc' \in {"wait", "cancel"}
      BY <2>1, <2>3, <3>1, <3>3, FullIsClosed
    <3> QED
      BY <2>1, <2>3, <3>4 DEF Live
  <2> QED
    BY <1>5, <2>2, <2>3 DEF Recover
<1>6. CASE Poll
  <2>1. /\ pc = "wait" /\ orders' = orders /\ stray' = stray /\ id' = id
        /\ id \in Ids /\ id[1] = attempt
    BY <1>6 DEF Poll, exchange, IInv, Current
  <2>2. CASE orders[id].st # "open"
    BY <2>1, <2>2 DEF Live
  <2>3. CASE orders[id].st = "open"
    <3>1. seen' = Report(orders[id]) /\ pc' = After(seen')
      BY <1>6, <2>3 DEF Poll
    <3>2. /\ seen' \in Answered /\ seen'.filled <= orders[id].filled
          /\ seen'.st = "filled" => seen'.filled > 0
      BY <2>1, <2>3, <3>1, ReportTyped DEF IInv, TypeOK
    <3>3. pc' \in {"wait", "cancel"}
      BY <2>1, <2>3, <3>1, <3>2, FullIsClosed
    <3> QED
      BY <2>1, <3>3 DEF Live
  <2> QED
    BY <2>2, <2>3
<1>7. CASE GiveUp
  BY <1>7 DEF GiveUp, Live, exchange, progress
<1>8. CASE Cancel
  <2>1. pc = "cancel" /\ id \in Ids /\ id' = id
    BY <1>8 DEF Cancel, IInv, Current
  <2>2. \A j \in Ids : orders'[j].st = "open" => orders[j].st = "open" /\ (j = id => id \in stray')
    BY <1>8, <2>1 DEF Cancel, IInv, TypeOK
  <2>3. stray \subseteq stray'
    BY <1>8 DEF Cancel
  <2> QED
    BY <2>1, <2>2, <2>3 DEF Live
<1>9. CASE UNCHANGED vars
  BY <1>9 DEF vars, Live
<1> QED
  BY <1>1, <1>2, <1>3, <1>4, <1>5, <1>6, <1>7, <1>8, <1>9 DEF Next, Step

\* An attempt is over before the next one is sent: two orders of a call are
\* open together only when the exchange never confirmed what became of one.
THEOREM OneOrderLive == Spec => []OneLiveOrder
<1>1. Init => Sized /\ Live
  BY DEF Init, Sized, Live, NoOrder
<1>2. Live => OneLiveOrder
  BY DEF Live, OneLiveOrder
<1> QED
  BY <1>1, <1>2, InitInv, StepInv, SizedStep, LiveStep, PTL DEF Spec

-----------------------------------------------------------------------------
(* Every fill is counted when every call is answered                        *)

\* the call works with an order
InHand == pc \in {"wait", "cancel", "trades"}

\* an order whose fill may still be counted, or never will be
Waits(i) == \/ raced /\ pc \notin {"residual", "returned"}
            \/ i = id /\ InHand
            \/ pc = "residual" /\ i \in unread
            \/ pc = "raised"

\* the count of an order is what it traded, or what the code assumes of an empty one
Exact(i) == counted[i] = orders[i].filled \/ Assumed(i)

\* without a failing call: every order is known, the trades are read of orders
\* that ended, and every other order is counted for what it traded
Known0   == \A i \in Ids : orders[i].st # "none" /\ i[1] # Market => i \in ids
HandOK   == /\ InHand => /\ counted[id] = 0
                         /\ seen.trades => /\ orders[id].st # "open"
                                           /\ seen.filled = orders[id].filled
            /\ pc = "trades" => orders[id].st # "open"
AllCount == ~Missed => \A i \in Ids : Exact(i) \/ Waits(i)

Ans == faults = Faults => /\ stray = {} /\ pc # "recover"
                          /\ Known0 /\ HandOK /\ AllCount

\* a call that failed leaves fewer than all of them to come
LEMMA NoFault ==
  ASSUME IInv, faults' = Faults, Fails \/ Answers
  PROVE  faults = Faults /\ ~Fails
BY ExecutionAssumption DEF IInv, TypeOK, Fails, Answers

LEMMA AnsFill ==
  ASSUME IInv, Live, Ans, NEW i \in Ids, Fill(i) \/ Expire(i)
  PROVE  Ans'
<1> SUFFICES ASSUME faults' = Faults PROVE Ans'
  BY DEF Ans
<1>1. /\ UNCHANGED <<call, pc, attempt, id, seen, ids, won, unread, result, faults,
                     counted, stray, raced>>
      /\ orders[i].st = "open" /\ \A j \in Ids : j # i => orders'[j] = orders[j]
      /\ orders'[i].st # "none"
  BY DEF Fill, Expire, progress, history, Traded, IInv, TypeOK
<1>2. i = id /\ pc \in {"wait", "cancel"}
  BY <1>1 DEF Live, Ans
<1>3. Known0'
  BY <1>1 DEF Known0, Ans
<1>4. HandOK'
  BY <1>1, <1>2 DEF HandOK, InHand, Ans
<1>5. AllCount'
  BY <1>1, <1>2 DEF AllCount, Missed, Waits, InHand, Ans, Exact, Assumed
<1> QED
  BY <1>1, <1>3, <1>4, <1>5 DEF Ans

LEMMA AnsQuote ==
  ASSUME IInv, Ans, Quote \/ MarketOrder
  PROVE  Ans'
<1> SUFFICES ASSUME faults' = Faults PROVE Ans'
  BY DEF Ans
<1>1. /\ UNCHANGED <<call, ids, won, unread, counted, orders, stray, raced>>
      /\ Fails \/ Answers
      /\ pc \in {"quote", "market"} /\ pc' \in {"raised", "create", "returned"}
      /\ result' = result \/ pc' = "returned"
  BY DEF Quote, MarketOrder, books, exchange, Rejects, Returns
<1>2. faults = Faults
  BY <1>1, NoFault
<1>3. pc' = "returned" => (won /\ pc = "quote") \/ result'.status = "rejected"
  BY <1>2 DEF Quote, MarketOrder, Rejects, Returns
<1>4. Known0' /\ HandOK'
  BY <1>1, <1>2 DEF Known0, HandOK, InHand, Ans
<1>5. AllCount'
  <2> SUFFICES ASSUME ~Missed', NEW i \in Ids
               PROVE  (Exact(i) \/ Waits(i))'
    BY <1>1 DEF AllCount
  <2>1. CASE raced
    BY <1>1, <1>3, <2>1 DEF Waits, Missed
  <2>2. CASE ~raced
    BY <1>1, <1>2, <2>2 DEF Ans, AllCount, Waits, Missed, InHand, Exact, Assumed
  <2> QED
    BY <2>1, <2>2
<1> QED
  BY <1>1, <1>2, <1>4, <1>5 DEF Ans

LEMMA AnsCreate ==
  ASSUME IInv, Ans, Create
  PROVE  Ans'
<1> SUFFICES ASSUME faults' = Faults PROVE Ans'
  BY DEF Ans
<1> DEFINE c == <<attempt, try>>
<1>1. /\ UNCHANGED <<call, attempt, won, counted, unread, result, raced>>
      /\ pc = "create" /\ c \in Ids /\ c[1] = attempt /\ c[2] = try
      /\ Fails \/ Answers
  BY IdParts DEF Create, books, IInv, TypeOK
<1>2. faults = Faults /\ ~Fails
  BY <1>1, NoFault
<1>3. orders[c].st = "none" /\ counted[c] = 0
  BY <1>1 DEF IInv, Fresh, Shape, TypeOK
<1>4. CASE pc' = "raised" /\ UNCHANGED <<exchange, id, seen, ids, stray>>
  BY <1>1, <1>2, <1>4 DEF Ans, Known0, HandOK, InHand, AllCount, Waits, exchange
<1>5. ASSUME NEW n \in 0..Size, Accept(c, n), id' = c, ids' = Known(c), stray' = stray,
             seen' \in {Report(orders'[c])} \cup (IF attempt = Market THEN {Unseen} ELSE {}),
             pc' = After(seen')
      PROVE  Ans'
  <2>0. /\ n \in 0..Size
        /\ IF attempt = Market THEN n \in 0..Amount ELSE n = 0
        /\ orders' = [orders EXCEPT
             ![c] = [st |-> IF attempt # Market THEN "open"
                            ELSE IF n = Amount THEN "filled" ELSE "canceled",
                     amt |-> Amount, filled |-> n]]
        /\ c \in DOMAIN orders /\ Amount \in 1..Size
    BY <1>1, <1>5, AmountRange DEF Accept, IInv, TypeOK, Room
  <2>1. /\ orders'[c].st \in {"open", "filled", "canceled"}
        /\ orders'[c].st = "open" => attempt # Market
        /\ orders'[c].filled \in 0..Size
        /\ \A j \in Ids : j # c => orders'[j] = orders[j]
    BY <1>1, <2>0, Slots
  <2>2. /\ orders'[c].filled = n
        /\ attempt # Market => n = 0 /\ orders'[c].st = "open"
    BY <2>0
  <2>3. ~seen'.trades /\ (attempt # Market => seen'.st = "open" /\ seen'.filled = 0)
    BY <1>5, <2>2 DEF Report, Unseen
  <2>4. pc' \in {"trades", "wait", "cancel"} /\ (attempt # Market => pc' = "wait")
    BY <1>5, <2>3, AfterRange DEF After, ParsedFill
  <2>5. Known0'
    <3>1. attempt # Market => ids' = ids \cup {c}
      BY <1>5 DEF Known
    <3>2. attempt = Market => ids' = ids
      BY <1>5 DEF Known
    <3> QED
      BY <1>1, <1>2, <2>1, <3>1, <3>2 DEF Ans, Known0
  <2>6. HandOK'
    BY <1>1, <1>3, <1>5, <2>1, <2>2, <2>3, <2>4 DEF HandOK, InHand
  <2>7. AllCount'
    <3> SUFFICES ASSUME ~Missed', NEW i \in Ids
                 PROVE  (Exact(i) \/ Waits(i))'
      BY DEF AllCount
    <3>1. ~Missed
      BY <1>1 DEF Missed
    <3>2. Exact(i) \/ Waits(i)
      BY <1>2, <3>1 DEF Ans, AllCount
    <3>3. CASE i = c
      BY <1>5, <2>4, <3>3 DEF Waits, InHand
    <3>4. CASE i # c
      <4>1. orders'[i] = orders[i] /\ counted'[i] = counted[i]
        BY <1>1, <2>1, <3>4
      <4>2. Waits(i) => Waits(i)'
        BY <1>1, <2>4 DEF Waits, InHand
      <4> HIDE DEF c
      <4>3. Exact(i) => Exact(i)'
        BY <4>1 DEF Exact, Assumed
      <4> QED
        BY <3>2, <4>2, <4>3
    <3> QED
      BY <3>3, <3>4
  <2> QED
    BY <1>2, <1>5, <2>4, <2>5, <2>6, <2>7 DEF Ans
<1> QED
  BY <1>2, <1>4, <1>5 DEF Create

LEMMA AnsPoll ==
  ASSUME IInv, Sized, Ans, Poll \/ GiveUp
  PROVE  Ans'
<1> SUFFICES ASSUME faults' = Faults PROVE Ans'
  BY DEF Ans
<1>1. /\ UNCHANGED <<call, attempt, id, ids, won, counted, unread, result, orders, stray, raced>>
      /\ pc = "wait" /\ id \in Ids /\ id[1] = attempt /\ attempt # Market
      /\ seen.filled <= orders[id].filled /\ (seen.st = "filled" => seen.filled > 0)
      /\ orders[id].st \in {"open", "filled", "canceled"} /\ orders[id].filled \in 0..Size
      /\ orders[id].st = "filled" => orders[id].filled > 0
  BY DEF Poll, GiveUp, books, exchange, progress, IInv, Current, Fresh, Shape, TypeOK
<1>2. Fails \/ Answers
  BY DEF Poll, GiveUp, Reads, Answers
<1>3. faults = Faults /\ ~Fails
  BY <1>2, NoFault
<1>4. /\ pc' \in {"wait", "cancel", "trades"}
      /\ seen'.trades => orders[id].st # "open" /\ seen'.filled = orders[id].filled
      /\ pc' = "trades" => orders[id].st # "open"
  <2>1. CASE GiveUp
    BY <1>1, <1>3, <2>1 DEF GiveUp, progress, Ans, HandOK, InHand
  <2>2. CASE seen' = Report(orders[id]) /\ pc' = After(seen')
    <3>1. Report(orders[id]) \in Answered /\ Report(orders[id]).filled = orders[id].filled
          /\ Report(orders[id]).st = orders[id].st /\ ~Report(orders[id]).trades
      BY <1>1, ReportTyped DEF Report
    <3>2. orders[id].st = "open" => After(seen') \in {"wait", "cancel"}
      BY <1>1, <2>2, <3>1, FullIsClosed
    <3> QED
      BY <2>2, <3>1, <3>2, AfterRange
  <2>3. ASSUME orders[id].st # "open", NEW n \in 0..orders[id].filled, Reads(id, n),
               IF n = 0 THEN pc' = "cancel" /\ UNCHANGED seen
               ELSE /\ seen' = [st |-> IF n >= Amount THEN "filled" ELSE "canceled",
                                filled |-> n, trades |-> TRUE]
                    /\ pc' = After(seen')
        PROVE  /\ pc' \in {"wait", "cancel", "trades"}
               /\ seen'.trades => seen'.filled = orders[id].filled
    <3>1. n = orders[id].filled
      BY <1>1, <1>3, <2>3 DEF Reads
    <3>2. CASE n = 0
      BY <1>1, <1>3, <2>3, <3>2 DEF Ans, HandOK, InHand
    <3>3. CASE n # 0
      BY <2>3, <3>1, <3>3, AfterRange
    <3> QED
      BY <3>2, <3>3
  <2> QED
    BY <2>1, <2>2, <2>3 DEF Poll
<1>5. HandOK' /\ Known0'
  BY <1>1, <1>3, <1>4 DEF Ans, HandOK, InHand, Known0
<1>6. AllCount'
  BY <1>1, <1>3, <1>4 DEF Ans, AllCount, Missed, Waits, InHand, Exact, Assumed
<1> QED
  BY <1>1, <1>3, <1>4, <1>5, <1>6 DEF Ans

LEMMA AnsCancel ==
  ASSUME IInv, Ans, Cancel
  PROVE  Ans'
<1> SUFFICES ASSUME faults' = Faults PROVE Ans'
  BY DEF Ans
<1>1. /\ UNCHANGED <<call, id, seen, ids, won, counted, unread, result>>
      /\ pc = "cancel" /\ id \in Ids /\ id[1] = attempt /\ attempt # Market
      /\ seen.filled \in 0..Size /\ orders[id].filled \in 0..Size
      /\ Fails \/ Answers
  BY DEF Cancel, books, IInv, Current, Fresh, TypeOK, Answered
<1>2. faults = Faults /\ ~Fails
  BY <1>1, NoFault
<1>3. /\ stray' = stray
      /\ orders' = IF orders[id].st = "open"
                   THEN [orders EXCEPT ![id] = [@ EXCEPT !.st = "canceled"]]
                   ELSE orders
  BY <1>2 DEF Cancel
<1>4. /\ orders'[id].st # "open"
      /\ \A j \in Ids : /\ orders'[j].filled = orders[j].filled
                        /\ orders'[j].st # "none" => orders[j].st # "none"
  BY <1>1, <1>3 DEF IInv, TypeOK
<1>5. /\ raced' = (raced \/ (ParsedFill(seen) = 0 /\ orders[id].filled > 0))
      /\ \/ pc' = "trades" /\ attempt' = attempt
         \/ pc' \in {"quote", "wrapup"} /\ ~(ParsedFill(seen) > 0)
  BY DEF Cancel, NextAttempt
<1>6. Known0'
  BY <1>1, <1>2, <1>4 DEF Ans, Known0
<1>7. HandOK'
  BY <1>1, <1>2, <1>4, <1>5 DEF Ans, HandOK, InHand
<1>8. AllCount'
  <2> SUFFICES ASSUME ~Missed', NEW i \in Ids
               PROVE  (Exact(i) \/ Waits(i))'
    BY DEF AllCount
  <2>1. CASE raced'
    BY <1>5, <2>1 DEF Waits
  <2>2. CASE ~raced'
    <3>1. ~Missed /\ ~raced
      BY <1>5, <2>2 DEF Missed
    <3>2. CASE i # id
      <4>1. Exact(i)
        BY <1>1, <1>2, <3>1, <3>2 DEF Ans, AllCount, Waits
      <4> QED
        BY <1>1, <1>3, <3>2, <4>1 DEF Exact, Assumed, IInv, TypeOK
    <3>3. CASE i = id /\ pc' = "trades"
      BY <1>1, <3>3 DEF Waits, InHand
    <3>4. CASE i = id /\ pc' # "trades"
      <4>1. ParsedFill(seen) = 0
        <5>1. call.kind = "OPEN" => cum < Size
          BY <1>1 DEF IInv, Room
        <5>2. Amount \in 1..Size
          BY <5>1, AmountRange DEF IInv
        <5> QED
          BY <1>1, <1>5, <3>4, <5>2, Slots DEF ParsedFill
      <4>2. ~(orders[id].filled > 0)
        BY <1>5, <2>2, <4>1
      <4>3. orders[id].filled = 0 /\ counted[id] = 0
        BY <1>1, <1>2, <4>2, Slots DEF Ans, HandOK, InHand
      <4> QED
        BY <1>1, <1>4, <3>4, <4>3 DEF Exact
    <3> QED
      BY <3>2, <3>3, <3>4
  <2> QED
    BY <2>1, <2>2
<1>9. stray' = {} /\ pc' # "recover"
  BY <1>2, <1>3, <1>5 DEF Ans
<1> QED
  BY <1>6, <1>7, <1>8, <1>9 DEF Ans

LEMMA AnsTrades ==
  ASSUME IInv, Sized, Ans, Trades
  PROVE  Ans'
<1> SUFFICES ASSUME faults' = Faults PROVE Ans'
  BY DEF Ans
<1>1. /\ UNCHANGED <<call, id, seen, ids, unread, orders, stray, raced>>
      /\ pc = "trades" /\ id \in Ids /\ id[1] = attempt
      /\ seen.filled \in 0..Size /\ orders[id].filled \in 0..Size
      /\ seen.filled <= orders[id].filled /\ (seen.st = "filled" => seen.filled > 0)
  BY DEF Trades, exchange, IInv, Current, TypeOK, Answered
<1>2. PICK n \in 0..orders[id].filled :
        /\ IF seen.trades THEN n = 0 /\ Answers ELSE Reads(id, n)
        /\ Books(Took(n))
        /\ pc' = "returned" \/ (pc' \in {"quote", "wrapup"} /\ UNCHANGED result)
  BY DEF Trades, Returns, NextAttempt
<1>3. Fails \/ Answers
  BY <1>2 DEF Reads
<1>4. faults = Faults /\ ~Fails
  BY <1>3, NoFault
<1>5. \/ Took(n) = orders[id].filled
      \/ attempt = Market /\ orders[id].filled = 0 /\ Took(n) = orders[id].amt
  <2>1. CASE seen.trades
    BY <1>1, <1>4, <2>1 DEF Took, Ans, HandOK, InHand
  <2>2. CASE ~seen.trades
    <3>1. n = orders[id].filled
      BY <1>1, <1>2, <1>4, <2>2 DEF Reads
    <3>2. CASE n > 0
      BY <2>2, <3>1, <3>2 DEF Took
    <3>3. CASE n = 0 /\ attempt = Market
      <4>1. seen.filled = 0
        BY <1>1, <3>1, <3>3
      <4>2. Took(n) = Amount
        BY <2>2, <3>3, <4>1 DEF Took
      <4>3. orders[id].amt = Amount
        BY <1>1 DEF Sized, IInv, Current
      <4> QED
        BY <3>1, <3>3, <4>2, <4>3
    <3>4. CASE n = 0 /\ attempt # Market
      <4>1. seen.filled = 0 /\ seen.st # "filled"
        BY <1>1, <3>1, <3>4
      <4>2. ParsedFill(seen) = 0
        BY <4>1 DEF ParsedFill
      <4> QED
        BY <2>2, <3>1, <3>4, <4>2 DEF Took
    <3> QED
      BY <1>1, <3>1, <3>2, <3>3, <3>4
  <2> QED
    BY <2>1, <2>2
<1>6. /\ Exact(id)' /\ won'
      /\ \A j \in Ids : j # id => counted'[j] = counted[j]
  <2>1. /\ counted'[id] = Took(n) /\ won'
        /\ \A j \in Ids : j # id => counted'[j] = counted[j]
    BY <1>1, <1>2 DEF Books, IInv, TypeOK
  <2> QED
    BY <1>1, <1>5, <2>1 DEF Exact, Assumed
<1>7. Known0' /\ HandOK'
  BY <1>1, <1>2, <1>4 DEF Ans, Known0, HandOK, InHand
<1>8. AllCount'
  <2> SUFFICES ASSUME ~Missed', NEW i \in Ids
               PROVE  (Exact(i) \/ Waits(i))'
    BY DEF AllCount
  <2>1. ~raced /\ ~Missed
    BY <1>1, <1>6 DEF Missed
  <2>2. CASE i = id
    BY <1>1, <1>6, <2>2
  <2>3. CASE i # id
    <3>1. Exact(i)
      BY <1>1, <1>4, <2>1, <2>3 DEF Ans, AllCount, Waits
    <3> QED
      BY <1>1, <1>6, <2>3, <3>1 DEF Exact, Assumed
  <2> QED
    BY <2>2, <2>3
<1>9. stray' = {} /\ pc' # "recover"
  BY <1>1, <1>2, <1>4 DEF Ans
<1> QED
  BY <1>7, <1>8, <1>9 DEF Ans

\* no result is there before the call returns
Pending == pc # "returned" => result = NoResult

LEMMA PendingStep == Pending /\ [Next]_vars => Pending'
<1> SUFFICES ASSUME Pending, [Next]_vars PROVE Pending'
  OBVIOUS
<1>1. CASE Quote \/ MarketOrder
  BY <1>1 DEF Quote, MarketOrder, Rejects, Returns, Pending
<1>2. CASE Create \/ Recover \/ Poll \/ GiveUp
  BY <1>2, AfterRange DEF Create, Recover, Poll, GiveUp, Pending
<1>3. CASE Cancel \/ Trades
  BY <1>3 DEF Cancel, Trades, NextAttempt, Returns, Pending
<1>4. CASE WrapUp \/ ResidualDone \/ \E i \in Ids : Residual(i)
  BY <1>4 DEF WrapUp, ResidualDone, Residual, FallBack, Returns, Pending
<1>5. CASE \E i \in Ids : Fill(i) \/ Expire(i)
  BY <1>5 DEF Fill, Expire, Pending
<1>6. CASE UNCHANGED vars
  BY <1>6 DEF vars, Pending
<1> QED
  BY <1>1, <1>2, <1>3, <1>4, <1>5, <1>6 DEF Next, Step

\* an order the call does not know of was never sent
LEMMA UnknownEmpty ==
  ASSUME IInv, Known0, attempt # Market, NEW i \in Ids, i \notin ids
  PROVE  orders[i].st = "none" /\ counted[i] = 0 /\ orders[i].filled = 0
<1>1. i[1] \in 1..Market /\ attempt \in 1..Market
  BY IdParts DEF IInv, TypeOK
<1>2. i[1] = Market => orders[i].st = "none"
  BY <1>1, Slots DEF IInv, Fresh
<1> QED
  BY <1>2 DEF Known0, IInv, Shape

LEMMA AnsWrapUp ==
  ASSUME IInv, Pending, Ans, WrapUp
  PROVE  Ans'
<1> SUFFICES ASSUME faults' = Faults PROVE Ans'
  BY DEF Ans
<1>1. /\ UNCHANGED <<call, ids, won, counted, orders, faults, stray, raced>>
      /\ pc = "wrapup" /\ attempt # Market /\ result = NoResult
  BY DEF WrapUp, books, progress, exchange, IInv, Fresh, Pending
<1>2. \/ pc' = "returned" /\ (won \/ call.kind = "CLOSE")
      \/ pc' = "market" /\ result' = result
      \/ pc' = "residual" /\ unread' = ids
  BY DEF WrapUp, FallBack, Returns
<1>3. Known0' /\ HandOK'
  BY <1>1, <1>2 DEF Ans, Known0, HandOK, InHand
<1>4. AllCount'
  <2> SUFFICES ASSUME ~Missed', NEW i \in Ids
               PROVE  (Exact(i) \/ Waits(i))'
    BY <1>1 DEF AllCount
  <2>1. CASE pc' = "residual" /\ unread' = ids
    BY <1>1, <2>1, UnknownEmpty DEF Ans, Waits, Exact
  <2>2. CASE pc' # "residual" /\ ~raced
    BY <1>1, <2>2 DEF Ans, AllCount, Missed, Waits, InHand, Exact, Assumed
  <2>3. CASE pc' = "market" /\ raced
    BY <1>1, <2>3 DEF Waits
  <2>4. pc' = "returned" => ~raced
    BY <1>1, <1>2 DEF Missed
  <2> QED
    BY <1>2, <2>1, <2>2, <2>3, <2>4
<1> QED
  BY <1>1, <1>2, <1>3, <1>4 DEF Ans

LEMMA AnsResidual ==
  ASSUME IInv, Ans, NEW i \in Ids, Residual(i)
  PROVE  Ans'
<1> SUFFICES ASSUME faults' = Faults PROVE Ans'
  BY DEF Ans
<1>1. /\ UNCHANGED <<call, pc, id, ids, won, result, orders, stray, raced>>
      /\ pc = "residual" /\ unread' = unread \ {i}
  BY DEF Residual, progress, exchange
<1>2. PICK n \in 0..orders[i].filled : Reads(i, n) /\ counted' = [counted EXCEPT ![i] = n]
  BY DEF Residual
<1>3. faults = Faults /\ ~Fails
  BY <1>2, NoFault DEF Reads
<1>4. /\ counted'[i] = orders[i].filled
      /\ \A j \in Ids : j # i => counted'[j] = counted[j]
  <2>1. orders[i].filled \in 0..Size /\ i \in DOMAIN counted
    BY DEF IInv, TypeOK
  <2>2. n = orders[i].filled
    BY <1>2, <1>3, <2>1, Slots DEF Reads
  <2> QED
    BY <1>2, <2>1, <2>2
<1>5. Known0' /\ HandOK'
  BY <1>1, <1>3 DEF Ans, Known0, HandOK, InHand
<1>6. AllCount'
  BY <1>1, <1>3, <1>4 DEF Ans, AllCount, Missed, Waits, InHand, Exact, Assumed
<1> QED
  BY <1>1, <1>3, <1>5, <1>6 DEF Ans

LEMMA AnsResidualDone ==
  ASSUME IInv, Pending, Ans, ResidualDone
  PROVE  Ans'
<1> SUFFICES ASSUME faults' = Faults PROVE Ans'
  BY DEF Ans
<1>1. /\ UNCHANGED <<call, ids, won, counted, unread, orders, faults, stray, raced>>
      /\ pc = "residual" /\ unread = {} /\ result = NoResult
      /\ pc' \in {"returned", "market"}
  BY DEF ResidualDone, books, progress, exchange, Pending, FallBack, Returns
<1>2. Known0' /\ HandOK'
  BY <1>1 DEF Ans, Known0, HandOK, InHand
<1>3. ~Missed' => ~Missed
  BY <1>1 DEF Missed, NoResult
<1>4. AllCount'
  BY <1>1, <1>3 DEF Ans, AllCount, Waits, InHand, Exact, Assumed
<1> QED
  BY <1>1, <1>2, <1>4 DEF Ans

LEMMA AnsRecover ==
  ASSUME IInv, Ans, Recover
  PROVE  Ans'
<1>1. pc = "recover" /\ (Fails \/ Answers)
  BY DEF Recover
<1> QED
  BY <1>1, NoFault DEF Ans

LEMMA AnsStep == IInv /\ Sized /\ Live /\ Pending /\ Ans /\ [Next]_vars => Ans'
<1> SUFFICES ASSUME IInv, Sized, Live, Pending, Ans, [Next]_vars PROVE Ans'
  OBVIOUS
<1>1. CASE Quote \/ MarketOrder BY <1>1, AnsQuote
<1>2. CASE Create BY <1>2, AnsCreate
<1>3. CASE Recover BY <1>3, AnsRecover
<1>4. CASE Poll \/ GiveUp BY <1>4, AnsPoll
<1>5. CASE Cancel BY <1>5, AnsCancel
<1>6. CASE Trades BY <1>6, AnsTrades
<1>7. CASE WrapUp BY <1>7, AnsWrapUp
<1>8. CASE ResidualDone BY <1>8, AnsResidualDone
<1>9. CASE \E i \in Ids : Residual(i) BY <1>9, AnsResidual
<1>10. CASE \E i \in Ids : Fill(i) \/ Expire(i) BY <1>10, AnsFill
<1>11. CASE UNCHANGED vars
  BY <1>11 DEF vars, Ans, Known0, HandOK, InHand, AllCount, Missed, Waits, Exact,
     Assumed
<1> QED
  BY <1>1, <1>2, <1>3, <1>4, <1>5, <1>6, <1>7, <1>8, <1>9, <1>10, <1>11 DEF Next, Step

\* When every call of the exchange is answered, the result counts exactly what
\* traded on each order, but for the fills that the cancel of an empty order
\* raced and that no later read of the trades makes up for, and for a market order
\* that expired without a trade, which _parse_fill counts in full.
THEOREM FillsAreCounted == Spec => []ExactWhenAnswered
<1>1. Init => Sized /\ Live /\ Pending /\ Ans
  BY DEF Init, Sized, Live, NoOrder, Pending, Ans, Known0, HandOK, InHand, AllCount,
     Exact
<1>2. Ans => ExactWhenAnswered
  BY DEF Ans, AllCount, Waits, InHand, Exact, ExactWhenAnswered
<1> QED
  BY <1>1, <1>2, InitInv, StepInv, SizedStep, LiveStep, PendingStep, AnsStep, PTL DEF Spec
=============================================================================
