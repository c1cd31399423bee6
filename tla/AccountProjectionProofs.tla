----------------------- MODULE AccountProjectionProofs -----------------------
(***************************************************************************)
(* Proofs about AccountProjection for every set of entities and every      *)
(* number of changes and faults: its types, that a restart finds at most   *)
(* one event to apply again, that the live tables follow the memory, and   *)
(* that what no lost event touched is shown as the exchange has it.        *)
(***************************************************************************)
EXTENDS AccountProjection, SequenceTheorems, TLAPS

-----------------------------------------------------------------------------
(* Lemmas about the operators the actions are built from                    *)

\* a queue of events that is taken apart or extended keeps its type
LEMMA EventSeqs ==
  ASSUME NEW s \in Seq(Event)
  PROVE  /\ s # <<>> => Head(s) \in Event /\ Tail(s) \in Seq(Event)
         /\ \A ev \in Event : Append(s, ev) \in Seq(Event)
         /\ <<>> \in Seq(Event)
         /\ \A i \in DOMAIN s : s[i] \in Event
BY EmptySeq, AppendProperties, HeadTailProperties, ElementOfSeq

\* taking one event out of the middle keeps the rest a sequence of events
LEMMA WithoutType ==
  ASSUME NEW s \in Seq(Event), NEW i \in DOMAIN s
  PROVE  Without(s, i) \in Seq(Event)
<1>1. i \in 1..Len(s) /\ Len(s) \in Nat
  OBVIOUS
<1>2. SubSeq(s, 1, i - 1) \in Seq(Event) /\ SubSeq(s, i + 1, Len(s)) \in Seq(Event)
  <2>1. \A m, n \in Int : (\A k \in m..n : s[k] \in Event) => SubSeq(s, m, n) \in Seq(Event)
    BY SubSeqProperties
  <2>2. QED
    BY <1>1, <2>1
<1> QED
  BY <1>2, ConcatProperties DEF Without

\* the entities that waiting events say something about are entities
LEMMA SubjectsType ==
  ASSUME NEW s \in Seq(Event)
  PROVE  SubjectsOf(s) \subseteq Entities
<1>1. \A i \in DOMAIN s : s[i].about \subseteq Entities
  BY EventSeqs DEF Event
<1> QED
  BY <1>1 DEF SubjectsOf

\* the empty values have their types
LEMMA EmptyTypes == /\ Nothing \in Shown
                    /\ NoEvent \in Event
                    /\ NoJob \in [step : Steps, ev : Event]
BY DEF Nothing, Shown, NoEvent, Event, NoJob, Steps

\* counting what the environment did keeps the type of the tally
LEMMA CountTypes ==
  ASSUME NEW c \in Tallied, tally \in [Tallied -> Nat], Count(c)
  PROVE  tally' \in [Tallied -> Nat]
BY DEF Count

\* losing events about entities keeps the observation within its types
LEMMA LoseTypes ==
  ASSUME NEW S \in SUBSET Entities, Lose(S),
         stale \in SUBSET Entities, fresh \in SUBSET Entities
  PROVE  stale' \in SUBSET Entities /\ fresh' \in SUBSET Entities
BY DEF Lose

\* what the exchange shows is a view
LEMMA TruthType ==
  ASSUME truth \in [Entities -> State]
  PROVE  Truth \in Shown
BY DEF Truth, Shown, State, Visible

-----------------------------------------------------------------------------
(* Types                                                                    *)

\* what TypeOK says of the parts
ExchangeTyped == truth \in [Entities -> State] /\ wire \in Seq(Event) /\ up \in BOOLEAN
EngineTyped   == /\ phase \in {"boot", "run"} /\ buffering \in BOOLEAN
                 /\ buffer \in Seq(Event)
                 /\ stream \in {"ready", "drain"} /\ sync \in Syncs
                 /\ shot \in Shown /\ batch \in Seq(Event)
AccountTyped  == /\ queue \in Seq(Event) /\ job \in [step : Steps, ev : Event]
                 /\ alive \in BOOLEAN
                 /\ mem \in Shown /\ ver \in Shown /\ view \in Shown
                 /\ patched \in SUBSET Entities
StoreTyped    == /\ recorded \in SUBSET Nat /\ pending \in SUBSET Event
                 /\ table \in Shown
GhostsTyped   == /\ stale \in SUBSET Entities /\ fresh \in SUBSET Entities
                 /\ torn \in BOOLEAN
TallyTyped    == tally \in [Tallied -> Nat]

LEMMA TypeParts ==
  /\ TypeOK <=> /\ ExchangeTyped /\ EngineTyped /\ AccountTyped /\ StoreTyped
                /\ GhostsTyped /\ TallyTyped
  /\ TypeOK' <=> /\ ExchangeTyped' /\ EngineTyped' /\ AccountTyped' /\ StoreTyped'
                 /\ GhostsTyped' /\ TallyTyped'
BY DEF TypeOK, ExchangeTyped, EngineTyped, AccountTyped, StoreTyped, GhostsTyped,
       TallyTyped

\* a part that a step leaves alone keeps its types
LEMMA PartsUnchanged ==
  /\ ExchangeTyped /\ UNCHANGED exchange => ExchangeTyped'
  /\ EngineTyped /\ UNCHANGED engine => EngineTyped'
  /\ AccountTyped /\ UNCHANGED account => AccountTyped'
  /\ StoreTyped /\ UNCHANGED db => StoreTyped'
  /\ GhostsTyped /\ UNCHANGED ghosts => GhostsTyped'
  /\ TallyTyped /\ UNCHANGED tally => TallyTyped'
BY DEF ExchangeTyped, EngineTyped, AccountTyped, StoreTyped, GhostsTyped,
       TallyTyped, exchange, engine, account, db, ghosts

\* the initial state is well typed
LEMMA InitTypes == Init => TypeOK
<1> SUFFICES ASSUME Init PROVE TypeOK
  OBVIOUS
<1>1. ExchangeTyped
  BY EventSeqs, EmptySeq DEF Init, ExchangeTyped, State
<1>2. EngineTyped
  BY EmptyTypes, EmptySeq DEF Init, EngineTyped, Syncs
<1>3. AccountTyped
  BY EmptyTypes, EmptySeq DEF Init, AccountTyped
<1>4. StoreTyped /\ GhostsTyped
  BY EmptyTypes DEF Init, StoreTyped, GhostsTyped
<1>5. TallyTyped
  BY DEF Init, TallyTyped, Tallied
<1> QED
  BY <1>1, <1>2, <1>3, <1>4, <1>5, TypeParts

\* the steps of a REST resync keep the types
LEMMA ResyncTypes ==
  ASSUME TypeOK, Resync
  PROVE  TypeOK'
<1>0. ExchangeTyped /\ EngineTyped /\ AccountTyped /\ StoreTyped /\ GhostsTyped /\ TallyTyped
  BY TypeParts
<1>1. CASE BeginResync
  <2>1. UNCHANGED <<exchange, account, db, ghosts, tally>>
    BY <1>1 DEF BeginResync, exchange, engine, account, db, ghosts
  <2>2. ExchangeTyped' /\ AccountTyped' /\ StoreTyped' /\ GhostsTyped' /\ TallyTyped'
    BY <2>1, PartsUnchanged DEF TypeOK, ExchangeTyped, EngineTyped, AccountTyped,
       StoreTyped, GhostsTyped, TallyTyped
  <2>3. EngineTyped'
    BY <1>1, <1>0, EmptyTypes DEF BeginResync, EngineTyped, Syncs
  <2> QED
    BY <2>2, <2>3, TypeParts
<1>2. CASE FetchPositions
  <2>1. UNCHANGED <<exchange, account, db, tally>>
    BY <1>2 DEF FetchPositions, exchange, engine, account, db, ghosts
  <2>2. ExchangeTyped' /\ AccountTyped' /\ StoreTyped' /\ TallyTyped'
    BY <2>1, PartsUnchanged DEF TypeOK, ExchangeTyped, EngineTyped, AccountTyped,
       StoreTyped, GhostsTyped, TallyTyped
  <2>3. EngineTyped'
    BY <1>2, <1>0, TruthType DEF FetchPositions, EngineTyped, Syncs, Shown, ExchangeTyped
  <2>4. GhostsTyped'
    BY <1>2, <1>0 DEF FetchPositions, GhostsTyped, Repairs, Entities
  <2> QED
    BY <2>2, <2>3, <2>4, TypeParts
<1>3. CASE FetchOrders
  <2>1. UNCHANGED <<exchange, db, tally>>
    BY <1>3 DEF FetchOrders, exchange, engine, account, db, ghosts
  <2>2. ExchangeTyped' /\ StoreTyped' /\ TallyTyped'
    BY <2>1, PartsUnchanged DEF TypeOK, ExchangeTyped, EngineTyped, AccountTyped,
       StoreTyped, GhostsTyped, TallyTyped
  <2>3. EngineTyped'
    BY <1>3, <1>0, EmptyTypes DEF FetchOrders, EngineTyped, Syncs
  <2>4. AccountTyped'
    BY <1>3, <1>0, EventSeqs, TruthType DEF FetchOrders, AccountTyped, Event, Shown, ExchangeTyped, EngineTyped
  <2>5. GhostsTyped'
    BY <1>3, <1>0 DEF FetchOrders, GhostsTyped, Repairs, Entities
  <2> QED
    BY <2>2, <2>3, <2>4, <2>5, TypeParts
<1>4. CASE SnapshotApplied
  <2>1. UNCHANGED <<exchange, account, db, ghosts, tally>>
    BY <1>4 DEF SnapshotApplied, exchange, engine, account, db, ghosts
  <2>2. ExchangeTyped' /\ AccountTyped' /\ StoreTyped' /\ GhostsTyped' /\ TallyTyped'
    BY <2>1, PartsUnchanged DEF TypeOK, ExchangeTyped, EngineTyped, AccountTyped,
       StoreTyped, GhostsTyped, TallyTyped
  <2>3. EngineTyped'
    BY <1>4, <1>0 DEF SnapshotApplied, EngineTyped, Syncs
  <2> QED
    BY <2>2, <2>3, TypeParts
<1>5. CASE TakeBuffer
  <2>1. UNCHANGED <<exchange, account, db, ghosts, tally>>
    BY <1>5 DEF TakeBuffer, exchange, engine, account, db, ghosts
  <2>2. ExchangeTyped' /\ AccountTyped' /\ StoreTyped' /\ GhostsTyped' /\ TallyTyped'
    BY <2>1, PartsUnchanged DEF TypeOK, ExchangeTyped, EngineTyped, AccountTyped,
       StoreTyped, GhostsTyped, TallyTyped
  <2>3. EngineTyped'
    BY <1>5, <1>0, EventSeqs DEF TakeBuffer, EngineTyped
  <2> QED
    BY <2>2, <2>3, TypeParts
<1>6. CASE ReplayNext
  <2>1. UNCHANGED <<exchange, db, ghosts, tally>>
    BY <1>6 DEF ReplayNext, exchange, engine, account, db, ghosts
  <2>2. ExchangeTyped' /\ StoreTyped' /\ GhostsTyped' /\ TallyTyped'
    BY <2>1, PartsUnchanged DEF TypeOK, ExchangeTyped, EngineTyped, AccountTyped,
       StoreTyped, GhostsTyped, TallyTyped
  <2>3. EngineTyped'
    BY <1>6, <1>0, EventSeqs DEF ReplayNext, EngineTyped, Syncs
  <2>4. AccountTyped'
    BY <1>6, <1>0, EventSeqs DEF ReplayNext, AccountTyped, EngineTyped
  <2> QED
    BY <2>2, <2>3, <2>4, TypeParts
<1>7. CASE ReplayApplied
  <2>1. UNCHANGED <<exchange, account, db, ghosts, tally>>
    BY <1>7 DEF ReplayApplied, exchange, engine, account, db, ghosts
  <2>2. ExchangeTyped' /\ AccountTyped' /\ StoreTyped' /\ GhostsTyped' /\ TallyTyped'
    BY <2>1, PartsUnchanged DEF TypeOK, ExchangeTyped, EngineTyped, AccountTyped,
       StoreTyped, GhostsTyped, TallyTyped
  <2>3. EngineTyped'
    BY <1>7, <1>0 DEF ReplayApplied, EngineTyped, Syncs
  <2> QED
    BY <2>2, <2>3, TypeParts
<1>8. CASE ReplayDone
  <2>1. UNCHANGED <<exchange, account, db, ghosts, tally>>
    BY <1>8 DEF ReplayDone, exchange, engine, account, db, ghosts
  <2>2. ExchangeTyped' /\ AccountTyped' /\ StoreTyped' /\ GhostsTyped' /\ TallyTyped'
    BY <2>1, PartsUnchanged DEF TypeOK, ExchangeTyped, EngineTyped, AccountTyped,
       StoreTyped, GhostsTyped, TallyTyped
  <2>3. EngineTyped'
    BY <1>8, <1>0 DEF ReplayDone, EngineTyped, Syncs
  <2> QED
    BY <2>2, <2>3, TypeParts
<1> QED
  BY <1>1, <1>2, <1>3, <1>4, <1>5, <1>6, <1>7, <1>8 DEF Resync

\* the steps of the coordinator keep the types
LEMMA AccountTypes ==
  ASSUME TypeOK, Account
  PROVE  TypeOK'
<1>0. ExchangeTyped /\ EngineTyped /\ AccountTyped /\ StoreTyped /\ GhostsTyped /\ TallyTyped
  BY TypeParts
<1>1. CASE Record
  <2>1. UNCHANGED <<exchange, engine, ghosts, tally>>
    BY <1>1 DEF Record, exchange, engine, account, db, ghosts
  <2>2. ExchangeTyped' /\ EngineTyped' /\ GhostsTyped' /\ TallyTyped'
    BY <2>1, PartsUnchanged DEF TypeOK, ExchangeTyped, EngineTyped, AccountTyped,
       StoreTyped, GhostsTyped, TallyTyped
  <2>3. AccountTyped'
    BY <1>1, <1>0, EventSeqs DEF Record, AccountTyped, Steps
  <2>4. StoreTyped'
    BY <1>1, <1>0, EventSeqs DEF Record, StoreTyped, AccountTyped, Event
  <2> QED
    BY <2>2, <2>3, <2>4, TypeParts
<1>2. CASE ApplyEvent
  <2>1. UNCHANGED <<exchange, engine, db, ghosts, tally>>
    BY <1>2 DEF ApplyEvent, exchange, engine, account, db, ghosts
  <2>2. ExchangeTyped' /\ EngineTyped' /\ StoreTyped' /\ GhostsTyped' /\ TallyTyped'
    BY <2>1, PartsUnchanged DEF TypeOK, ExchangeTyped, EngineTyped, AccountTyped,
       StoreTyped, GhostsTyped, TallyTyped
  <2>3. AccountTyped'
    BY <1>2, <1>0 DEF ApplyEvent, AccountTyped, Event, Shown, Steps
  <2> QED
    BY <2>2, <2>3, TypeParts
<1>3. CASE ApplySnapshot
  <2>1. UNCHANGED <<exchange, engine, db, ghosts, tally>>
    BY <1>3 DEF ApplySnapshot, exchange, engine, account, db, ghosts
  <2>2. ExchangeTyped' /\ EngineTyped' /\ StoreTyped' /\ GhostsTyped' /\ TallyTyped'
    BY <2>1, PartsUnchanged DEF TypeOK, ExchangeTyped, EngineTyped, AccountTyped,
       StoreTyped, GhostsTyped, TallyTyped
  <2>3. AccountTyped'
    BY <1>3, <1>0 DEF ApplySnapshot, AccountTyped, Event, Steps, Replaced
  <2> QED
    BY <2>2, <2>3, TypeParts
<1>4. CASE ClearTables
  <2>1. UNCHANGED <<exchange, engine, ghosts, tally>>
    BY <1>4 DEF ClearTables, exchange, engine, account, db, ghosts
  <2>2. ExchangeTyped' /\ EngineTyped' /\ GhostsTyped' /\ TallyTyped'
    BY <2>1, PartsUnchanged DEF TypeOK, ExchangeTyped, EngineTyped, AccountTyped,
       StoreTyped, GhostsTyped, TallyTyped
  <2>3. AccountTyped'
    BY <1>4, <1>0 DEF ClearTables, AccountTyped, Steps
  <2>4. StoreTyped'
    BY <1>4, <1>0, EmptyTypes DEF ClearTables, StoreTyped, Cleared
  <2> QED
    BY <2>2, <2>3, <2>4, TypeParts
<1>5. CASE WriteTables
  <2>1. UNCHANGED <<exchange, engine, ghosts, tally>>
    BY <1>5 DEF WriteTables, exchange, engine, account, db, ghosts
  <2>2. ExchangeTyped' /\ EngineTyped' /\ GhostsTyped' /\ TallyTyped'
    BY <2>1, PartsUnchanged DEF TypeOK, ExchangeTyped, EngineTyped, AccountTyped,
       StoreTyped, GhostsTyped, TallyTyped
  <2>3. AccountTyped'
    BY <1>5, <1>0 DEF WriteTables, AccountTyped, Steps
  <2>4. StoreTyped'
    BY <1>5, <1>0 DEF WriteTables, StoreTyped, AccountTyped, Shown
  <2> QED
    BY <2>2, <2>3, <2>4, TypeParts
<1>6. CASE Finish
  <2>1. UNCHANGED <<exchange, engine, tally>>
    BY <1>6 DEF Finish, exchange, engine, account, db, ghosts
  <2>2. ExchangeTyped' /\ EngineTyped' /\ TallyTyped'
    BY <2>1, PartsUnchanged DEF TypeOK, ExchangeTyped, EngineTyped, AccountTyped,
       StoreTyped, GhostsTyped, TallyTyped
  <2>3. AccountTyped'
    BY <1>6, <1>0, EmptyTypes DEF Finish, AccountTyped
  <2>4. StoreTyped'
    BY <1>6, <1>0 DEF Finish, StoreTyped
  <2>5. GhostsTyped'
    BY <1>6, <1>0 DEF Finish, GhostsTyped, ghosts
  <2> QED
    BY <2>2, <2>3, <2>4, <2>5, TypeParts
<1> QED
  BY <1>1, <1>2, <1>3, <1>4, <1>5, <1>6 DEF Account

\* the start keeps the types
LEMMA BootTypes ==
  ASSUME TypeOK, Boot
  PROVE  TypeOK'
<1>0. ExchangeTyped /\ EngineTyped /\ AccountTyped /\ StoreTyped /\ GhostsTyped /\ TallyTyped
  BY TypeParts
<1>1. CASE ReplayInbox
  <2>1. UNCHANGED <<exchange, engine, db, ghosts, tally>>
    BY <1>1 DEF ReplayInbox, exchange, engine, account, db, ghosts
  <2>2. ExchangeTyped' /\ EngineTyped' /\ StoreTyped' /\ GhostsTyped' /\ TallyTyped'
    BY <2>1, PartsUnchanged DEF TypeOK, ExchangeTyped, EngineTyped, AccountTyped,
       StoreTyped, GhostsTyped, TallyTyped
  <2>3. AccountTyped'
    BY <1>1, <1>0 DEF ReplayInbox, AccountTyped, StoreTyped, Steps
  <2> QED
    BY <2>2, <2>3, TypeParts
<1>2. CASE Started
  <2>1. UNCHANGED <<exchange, account, db, ghosts, tally>>
    BY <1>2 DEF Started, exchange, engine, account, db, ghosts
  <2>2. ExchangeTyped' /\ AccountTyped' /\ StoreTyped' /\ GhostsTyped' /\ TallyTyped'
    BY <2>1, PartsUnchanged DEF TypeOK, ExchangeTyped, EngineTyped, AccountTyped,
       StoreTyped, GhostsTyped, TallyTyped
  <2>3. EngineTyped'
    BY <1>2, <1>0 DEF Started, EngineTyped
  <2> QED
    BY <2>2, <2>3, TypeParts
<1> QED
  BY <1>1, <1>2 DEF Boot

\* a change at the exchange keeps the types
LEMMA ChangeTypes ==
  ASSUME TypeOK, NEW e \in Entities, NEW open \in BOOLEAN, Change(e, open)
  PROVE  TypeOK'
<1>0. ExchangeTyped /\ EngineTyped /\ AccountTyped /\ StoreTyped /\ GhostsTyped /\ TallyTyped
  BY TypeParts
<1>1. UNCHANGED <<engine, account, db>>
  BY DEF Change, exchange, engine, account, db, ghosts
<1>2. EngineTyped' /\ AccountTyped' /\ StoreTyped'
  BY <1>0, <1>1, PartsUnchanged
<1>3. ExchangeTyped'
  <2>1. tally.changes + 1 \in Nat
    BY <1>0 DEF TallyTyped, Tallied
  <2>2. [no |-> tally.changes + 1, rest |-> FALSE, about |-> {e},
         says |-> [Nothing EXCEPT ![e] = IF open THEN tally.changes + 1 ELSE 0]]
          \in Event
    BY <2>1 DEF Event, Shown, Nothing
  <2>3. wire' \in Seq(Event)
    BY <1>0, <2>2, EventSeqs DEF Change, ExchangeTyped
  <2>4. truth' \in [Entities -> State]
    BY <1>0, <2>1 DEF Change, ExchangeTyped, State
  <2> QED
    BY <1>0, <2>3, <2>4 DEF Change, ExchangeTyped
<1>4. GhostsTyped'
  BY <1>0, LoseTypes DEF Change, GhostsTyped
<1>5. TallyTyped'
  BY <1>0, CountTypes DEF Change, TallyTyped, Tallied
<1> QED
  BY <1>2, <1>3, <1>4, <1>5, TypeParts

\* a lost session keeps the types
LEMMA DropTypes ==
  ASSUME TypeOK, Drop
  PROVE  TypeOK'
<1>0. ExchangeTyped /\ EngineTyped /\ AccountTyped /\ StoreTyped /\ GhostsTyped /\ TallyTyped
  BY TypeParts
<1>1. UNCHANGED <<engine, account, db>>
  BY DEF Drop, exchange, engine, account, db, ghosts
<1>2. EngineTyped' /\ AccountTyped' /\ StoreTyped'
  BY <1>0, <1>1, PartsUnchanged
<1>3. ExchangeTyped'
  BY <1>0, EventSeqs DEF Drop, ExchangeTyped
<1>4. GhostsTyped'
  BY <1>0, LoseTypes, SubjectsType DEF Drop, GhostsTyped, ExchangeTyped
<1>5. TallyTyped'
  BY <1>0, CountTypes DEF Drop, TallyTyped, Tallied
<1> QED
  BY <1>2, <1>3, <1>4, <1>5, TypeParts

\* a new session keeps the types
LEMMA ConnectTypes ==
  ASSUME TypeOK, Connect
  PROVE  TypeOK'
<1>0. ExchangeTyped /\ EngineTyped /\ AccountTyped /\ StoreTyped /\ GhostsTyped /\ TallyTyped
  BY TypeParts
<1>1. UNCHANGED <<account, db, ghosts, tally>>
  BY DEF Connect, exchange, engine, account, db, ghosts
<1>2. AccountTyped' /\ StoreTyped' /\ GhostsTyped' /\ TallyTyped'
  BY <1>0, <1>1, PartsUnchanged
<1>3. ExchangeTyped'
  BY <1>0 DEF Connect, ExchangeTyped
<1>4. EngineTyped'
  BY <1>0 DEF Connect, EngineTyped
<1> QED
  BY <1>2, <1>3, <1>4, TypeParts

\* a drained stream task keeps the types
LEMMA ReceivedTypes ==
  ASSUME TypeOK, Received
  PROVE  TypeOK'
<1>0. ExchangeTyped /\ EngineTyped /\ AccountTyped /\ StoreTyped /\ GhostsTyped /\ TallyTyped
  BY TypeParts
<1>1. UNCHANGED <<exchange, account, db, ghosts, tally>>
  BY DEF Received, exchange, engine, account, db, ghosts
<1>2. ExchangeTyped' /\ AccountTyped' /\ StoreTyped' /\ GhostsTyped' /\ TallyTyped'
  BY <1>0, <1>1, PartsUnchanged
<1>3. EngineTyped'
  BY <1>0 DEF Received, EngineTyped
<1> QED
  BY <1>2, <1>3, TypeParts

\* an event that arrives keeps the types
LEMMA ReceiveTypes ==
  ASSUME TypeOK, NEW i \in DOMAIN wire, NEW again \in BOOLEAN, Receive(i, again)
  PROVE  TypeOK'
<1>0. ExchangeTyped /\ EngineTyped /\ AccountTyped /\ StoreTyped /\ GhostsTyped /\ TallyTyped
  BY TypeParts
<1>1. UNCHANGED <<db>>
  BY DEF Receive, exchange, engine, account, db, ghosts
<1>2. StoreTyped'
  BY <1>0, <1>1, PartsUnchanged
<1>3. ExchangeTyped'
  BY <1>0, WithoutType DEF Receive, ExchangeTyped
<1>4. EngineTyped'
  BY <1>0, EventSeqs DEF Receive, EngineTyped, ExchangeTyped
<1>5. AccountTyped'
  BY <1>0, EventSeqs DEF Receive, AccountTyped, ExchangeTyped
<1>6. GhostsTyped'
  BY <1>0, LoseTypes, EventSeqs DEF Receive, GhostsTyped, ExchangeTyped, Event
<1>7. TallyTyped'
  BY <1>0, CountTypes DEF Receive, TallyTyped, Tallied
<1> QED
  BY <1>2, <1>3, <1>4, <1>5, <1>6, <1>7, TypeParts

\* a failed query keeps the types
LEMMA FetchFailsTypes ==
  ASSUME TypeOK, FetchFails
  PROVE  TypeOK'
<1>0. ExchangeTyped /\ EngineTyped /\ AccountTyped /\ StoreTyped /\ GhostsTyped /\ TallyTyped
  BY TypeParts
<1>1. UNCHANGED <<exchange, account, db>>
  BY DEF FetchFails, exchange, engine, account, db, ghosts
<1>2. ExchangeTyped' /\ AccountTyped' /\ StoreTyped'
  BY <1>0, <1>1, PartsUnchanged
<1>3. EngineTyped'
  BY <1>0, EmptyTypes DEF FetchFails, EngineTyped, Syncs
<1>4. GhostsTyped'
  BY <1>0 DEF FetchFails, GhostsTyped
<1>5. TallyTyped'
  BY <1>0, CountTypes DEF FetchFails, TallyTyped, Tallied
<1> QED
  BY <1>2, <1>3, <1>4, <1>5, TypeParts

\* a failed replay keeps the types
LEMMA ReplayFailsTypes ==
  ASSUME TypeOK, ReplayFails
  PROVE  TypeOK'
<1>0. ExchangeTyped /\ EngineTyped /\ AccountTyped /\ StoreTyped /\ GhostsTyped /\ TallyTyped
  BY TypeParts
<1>1. UNCHANGED <<exchange, account, db>>
  BY DEF ReplayFails, exchange, engine, account, db, ghosts
<1>2. ExchangeTyped' /\ AccountTyped' /\ StoreTyped'
  BY <1>0, <1>1, PartsUnchanged
<1>3. EngineTyped'
  BY <1>0, EventSeqs DEF ReplayFails, EngineTyped, Syncs
<1>4. GhostsTyped'
  BY <1>0, LoseTypes, SubjectsType DEF ReplayFails, GhostsTyped, EngineTyped
<1>5. TallyTyped'
  BY <1>0, CountTypes DEF ReplayFails, TallyTyped, Tallied
<1> QED
  BY <1>2, <1>3, <1>4, <1>5, TypeParts

\* a failed insert keeps the types
LEMMA RecordFailsTypes ==
  ASSUME TypeOK, RecordFails
  PROVE  TypeOK'
<1>0. ExchangeTyped /\ EngineTyped /\ AccountTyped /\ StoreTyped /\ GhostsTyped /\ TallyTyped
  BY TypeParts
<1>1. UNCHANGED <<exchange, engine, db>>
  BY DEF RecordFails, exchange, engine, account, db, ghosts
<1>2. ExchangeTyped' /\ EngineTyped' /\ StoreTyped'
  BY <1>0, <1>1, PartsUnchanged
<1>3. AccountTyped'
  BY <1>0, EventSeqs DEF RecordFails, AccountTyped
<1>4. GhostsTyped'
  BY <1>0, LoseTypes, EventSeqs DEF RecordFails, GhostsTyped, AccountTyped, Event
<1>5. TallyTyped'
  BY <1>0, CountTypes DEF RecordFails, TallyTyped, Tallied
<1> QED
  BY <1>2, <1>3, <1>4, <1>5, TypeParts

\* a failed job keeps the types
LEMMA JobFailsTypes ==
  ASSUME TypeOK, JobFails
  PROVE  TypeOK'
<1>0. ExchangeTyped /\ EngineTyped /\ AccountTyped /\ StoreTyped /\ GhostsTyped /\ TallyTyped
  BY TypeParts
<1>1. UNCHANGED <<exchange, engine>>
  BY DEF JobFails, exchange, engine, account, db, ghosts
<1>2. ExchangeTyped' /\ EngineTyped'
  BY <1>0, <1>1, PartsUnchanged
<1>3. AccountTyped'
  BY <1>0, EmptyTypes DEF JobFails, AccountTyped, Shown, Event
<1>4. StoreTyped'
  BY <1>0 DEF JobFails, StoreTyped, Failed
<1>5. GhostsTyped'
  BY <1>0, LoseTypes DEF JobFails, GhostsTyped, AccountTyped, Event
<1>6. TallyTyped'
  BY <1>0, CountTypes DEF JobFails, TallyTyped, Tallied
<1> QED
  BY <1>2, <1>3, <1>4, <1>5, <1>6, TypeParts

\* a crash keeps the types
LEMMA CrashTypes ==
  ASSUME TypeOK, Crash
  PROVE  TypeOK'
<1>0. ExchangeTyped /\ EngineTyped /\ AccountTyped /\ StoreTyped /\ GhostsTyped /\ TallyTyped
  BY TypeParts
<1>1. ExchangeTyped'
  BY <1>0, EventSeqs, EmptySeq DEF Crash, ExchangeTyped
<1>2. EngineTyped'
  BY <1>0, EmptyTypes, EmptySeq DEF Crash, EngineTyped, Syncs
<1>3. AccountTyped'
  BY <1>0, EmptyTypes, EmptySeq DEF Crash, AccountTyped
<1>4. StoreTyped'
  BY <1>0 DEF Crash, StoreTyped, db
<1>5. GhostsTyped'
  BY <1>0 DEF Crash, GhostsTyped
<1>6. TallyTyped'
  BY <1>0, CountTypes DEF Crash, TallyTyped, Tallied
<1> QED
  BY <1>1, <1>2, <1>3, <1>4, <1>5, <1>6, TypeParts

\* a write of the engine past the queue keeps the types
LEMMA WritesTypes ==
  ASSUME TypeOK, NEW S \in SUBSET Positions, EngineWrites(S)
  PROVE  TypeOK'
<1>0. ExchangeTyped /\ EngineTyped /\ AccountTyped /\ StoreTyped /\ GhostsTyped /\ TallyTyped
  BY TypeParts
<1>1. UNCHANGED <<exchange, engine, db, ghosts>>
  BY DEF EngineWrites, exchange, engine, account, db, ghosts
<1>2. ExchangeTyped' /\ EngineTyped' /\ StoreTyped' /\ GhostsTyped'
  BY <1>0, <1>1, PartsUnchanged
<1>3. AccountTyped'
  <2>1. PICK seen \in [S -> 0..tally.changes] :
          view' = [e \in Entities |-> IF e \in S THEN seen[e] ELSE view[e]]
    BY DEF EngineWrites
  <2>2. \A e \in S : seen[e] \in Nat
    BY <1>0 DEF TallyTyped, Tallied
  <2>3. view' \in Shown
    BY <1>0, <2>1, <2>2 DEF AccountTyped, Shown
  <2>4. patched' \in SUBSET Entities
    BY <1>0 DEF EngineWrites, AccountTyped, Entities
  <2> QED
    BY <1>0, <2>3, <2>4 DEF EngineWrites, AccountTyped
<1>4. TallyTyped'
  BY <1>0, CountTypes DEF EngineWrites, TallyTyped, Tallied
<1> QED
  BY <1>2, <1>3, <1>4, TypeParts

\* every step keeps the types
LEMMA TypeStep == TypeOK /\ [Next]_vars => TypeOK'
<1> SUFFICES ASSUME TypeOK, [Next]_vars PROVE TypeOK'
  OBVIOUS
<1>1. CASE Exchange
  BY <1>1, ChangeTypes DEF Exchange
<1>2. CASE Connect
  BY <1>2, ConnectTypes
<1>3. CASE Stream
  BY <1>3, ReceivedTypes, ReceiveTypes DEF Stream
<1>4. CASE Resync
  BY <1>4, ResyncTypes
<1>5. CASE Account
  BY <1>5, AccountTypes
<1>6. CASE Boot
  BY <1>6, BootTypes
<1>7. CASE Faults
  BY <1>7, DropTypes, FetchFailsTypes, ReplayFailsTypes, RecordFailsTypes,
     JobFailsTypes, CrashTypes, ReceiveTypes DEF Faults
<1>8. CASE Writes
  BY <1>8, WritesTypes DEF Writes
<1>9. CASE UNCHANGED vars
  BY <1>9 DEF vars, TypeOK
<1> QED
  BY <1>1, <1>2, <1>3, <1>4, <1>5, <1>6, <1>7, <1>8, <1>9 DEF Next

\* Every variable keeps its type: the queue, the buffer and the inbox hold events,
\* and the memory, the runtime view and the live tables are views of the entities.
THEOREM TypeCorrect == Spec => []TypeOK
<1> QED
  BY InitTypes, TypeStep, PTL DEF Spec

-----------------------------------------------------------------------------
(* The inbox                                                                *)

\* What makes OneEventUnapplied inductive: an event in hand is the one row that is
\* "received", and a living task that has none in hand has left none behind.
InboxInv ==
  /\ OneEventUnapplied
  /\ ~Idle => pending = {job.ev}
  /\ phase = "run" /\ alive /\ Idle => pending = {}

\* a step that leaves the job and the inbox alone
LEMMA InboxKept ==
  ASSUME InboxInv, UNCHANGED <<pending, job>>,
         phase' = "run" /\ alive' => phase = "run" /\ alive
  PROVE  InboxInv'
BY DEF InboxInv, OneEventUnapplied, Idle

LEMMA InboxStep == TypeOK /\ InboxInv /\ [Next]_vars => InboxInv'
<1> SUFFICES ASSUME TypeOK, InboxInv, [Next]_vars PROVE InboxInv'
  OBVIOUS
<1>1. CASE Exchange \/ Connect \/ Stream \/ Resync \/ Writes
  <2>1. UNCHANGED <<phase, alive, pending, job>>
    BY <1>1 DEF Exchange, Connect, Stream, Resync, Writes, EngineWrites, Change,
       Received, Receive, BeginResync, FetchPositions, FetchOrders, SnapshotApplied,
       TakeBuffer, ReplayNext, ReplayApplied, ReplayDone, engine, account, db
  <2> QED
    BY <2>1, InboxKept
<1>2. CASE Record
  <2>1. CASE IsNew(Head(queue))
    <3>1. pending' = {Head(queue)} /\ job' = [step |-> "apply", ev |-> Head(queue)]
      BY <1>2, <2>1 DEF Record, InboxInv
    <3> QED
      BY <3>1 DEF InboxInv, OneEventUnapplied, Idle
  <2>2. CASE ~IsNew(Head(queue))
    <3>1. UNCHANGED <<phase, alive, pending, job>>
      BY <1>2, <2>2 DEF Record, engine
    <3> QED
      BY <3>1, InboxKept
  <2> QED
    BY <2>1, <2>2
<1>3. CASE ApplyEvent \/ ApplySnapshot \/ ClearTables \/ WriteTables
  <2>1. UNCHANGED <<phase, alive, pending>> /\ ~Idle
    BY <1>3 DEF ApplyEvent, ApplySnapshot, ClearTables, WriteTables, engine, db, Idle
  <2>2. job'.ev = job.ev /\ job'.step # "none"
    BY <1>3 DEF ApplyEvent, ApplySnapshot, ClearTables, WriteTables, TypeOK
  <2> QED
    BY <2>1, <2>2 DEF InboxInv, OneEventUnapplied, Idle
<1>4. CASE Finish
  <2>1. job' = NoJob /\ pending' = pending \ {job.ev} /\ ~Idle
    BY <1>4 DEF Finish, Idle
  <2>2. pending' = {} /\ Idle'
    BY <2>1 DEF InboxInv, NoJob, Idle
  <2> QED
    BY <2>2 DEF InboxInv, OneEventUnapplied
<1>5. CASE ReplayInbox
  <2>1. PICK ev \in pending : job' = [step |-> "apply", ev |-> ev]
    BY <1>5 DEF ReplayInbox
  <2>2. pending' = pending /\ pending = {ev}
    BY <1>5, <2>1 DEF ReplayInbox, InboxInv, OneEventUnapplied, db
  <2> QED
    BY <2>1, <2>2 DEF InboxInv, OneEventUnapplied, Idle
<1>6. CASE Started
  <2>1. pending' = {} /\ job' = job /\ Idle
    BY <1>6 DEF Started, db, account
  <2> QED
    BY <2>1 DEF InboxInv, OneEventUnapplied, Idle
<1>7. CASE \/ Drop \/ FetchFails \/ ReplayFails \/ RecordFails
           \/ \E i \in DOMAIN wire : Receive(i, TRUE)
  <2>1. UNCHANGED <<phase, pending, job>> /\ (alive' => alive)
    BY <1>7 DEF Drop, FetchFails, ReplayFails, RecordFails, Receive, engine, account,
       db
  <2> QED
    BY <2>1, InboxKept
<1>8. CASE JobFails
  <2>1. job' = NoJob /\ pending = {job.ev}
    BY <1>8 DEF JobFails, InboxInv, Idle
  <2>2. pending' = {} \/ (alive' = FALSE /\ pending' = pending)
    BY <1>8, <2>1 DEF JobFails, Failed
  <2> QED
    BY <2>1, <2>2 DEF InboxInv, OneEventUnapplied, Idle, NoJob
<1>9. CASE Crash
  <2>1. job' = NoJob /\ phase' = "boot" /\ pending' = pending
    BY <1>9 DEF Crash, db
  <2> QED
    BY <2>1 DEF InboxInv, OneEventUnapplied, Idle, NoJob
<1>10. CASE UNCHANGED vars
  BY <1>10, InboxKept DEF vars
<1> QED
  BY <1>1, <1>2, <1>3, <1>4, <1>5, <1>6, <1>7, <1>8, <1>9, <1>10
     DEF Next, Account, Boot, Faults

\* However the process is killed, its store fails or its task ends, at most one
\* event is left to be applied again, so the order of the replay cannot matter.
THEOREM InboxIsSerial == Spec => []OneEventUnapplied
<1>1. Init => InboxInv
  BY DEF Init, InboxInv, OneEventUnapplied, Idle, NoJob
<1>2. InboxInv => OneEventUnapplied
  BY DEF InboxInv
<1> QED
  BY <1>1, <1>2, TypeCorrect, InboxStep, PTL DEF Spec

-----------------------------------------------------------------------------
(* The live tables                                                          *)

\* What makes TablesFollowMemory inductive: where the tables are while a job is on
\* its way.  A REST round makes them right whatever was wrong before.
TablesInv ==
  /\ job.step \in {"none", "apply"} /\ ~torn => table = mem
  /\ job.step = "clear" => job.ev.rest
  /\ job.step = "write" /\ job.ev.rest => table = Nothing
  /\ job.step = "write" /\ ~job.ev.rest /\ ~torn =>
       \A e \in Entities \ job.ev.about : table[e] = mem[e]
  /\ job.step = "finish" /\ (job.ev.rest \/ ~torn) => table = mem

\* a step that leaves the job, the memory and the tables alone
LEMMA TablesKept ==
  ASSUME TablesInv, UNCHANGED <<mem, table, job, torn>>
  PROVE  TablesInv'
BY DEF TablesInv

LEMMA TablesStep == TypeOK /\ TablesInv /\ [Next]_vars => TablesInv'
<1> SUFFICES ASSUME TypeOK, TablesInv, [Next]_vars PROVE TablesInv'
  OBVIOUS
<1>0. /\ job \in [step : Steps, ev : Event] /\ mem \in Shown /\ table \in Shown
      /\ job.ev.rest \in BOOLEAN
      /\ job.ev.rest => job.ev.about = Entities
  BY DEF TypeOK, Event
<1>1. CASE Exchange \/ Connect \/ Stream \/ Resync \/ Started \/ Writes
  <2>1. UNCHANGED <<mem, table, job, torn>>
    BY <1>1 DEF Exchange, Connect, Stream, Resync, Started, Writes, EngineWrites,
       Change, Received, Receive, BeginResync, FetchPositions, FetchOrders,
       SnapshotApplied, TakeBuffer, ReplayNext, ReplayApplied, ReplayDone, account, db, ghosts
  <2> QED
    BY <2>1, TablesKept
<1>2. CASE Record
  <2>1. /\ UNCHANGED <<mem, table, torn>>
        /\ job.step = "none" /\ job'.step \in {"none", "apply"}
    BY <1>2 DEF Record, ghosts, Idle
  <2> QED
    BY <2>1 DEF TablesInv
<1>3. CASE ApplyEvent
  <2>1. /\ job.step = "apply" /\ ~job.ev.rest /\ UNCHANGED <<table, torn>>
        /\ job'.ev = job.ev
        /\ job'.step = IF Newer(job.ev) = {} THEN "finish" ELSE "write"
    BY <1>0, <1>3 DEF ApplyEvent, db, ghosts
  <2>2. \A e \in Entities : mem'[e] = IF e \in Newer(job.ev) THEN job.ev.says[e]
                                                             ELSE mem[e]
    BY <1>3 DEF ApplyEvent
  <2>3. Newer(job.ev) \subseteq job.ev.about
    BY DEF Newer
  <2>4. Newer(job.ev) = {} => mem' = mem
    BY <1>0, <1>3, <2>2 DEF ApplyEvent, Shown
  <2>5. \A e \in Entities \ job.ev.about : mem'[e] = mem[e]
    BY <2>2, <2>3
  <2> QED
    BY <2>1, <2>4, <2>5 DEF TablesInv
<1>4. CASE ApplySnapshot
  <2>1. job.ev.rest /\ job'.ev = job.ev /\ job'.step = "clear"
    BY <1>0, <1>4 DEF ApplySnapshot
  <2> QED
    BY <2>1 DEF TablesInv
<1>5. CASE ClearTables
  <2>1. job.step = "clear" /\ job'.ev = job.ev /\ job'.step = "write" /\ table' = Nothing
    BY <1>0, <1>5 DEF ClearTables, Cleared
  <2> QED
    BY <2>1 DEF TablesInv
<1>6. CASE WriteTables
  <2>1. /\ job.step = "write" /\ job'.ev = job.ev /\ job'.step = "finish"
        /\ UNCHANGED <<mem, torn>>
    BY <1>0, <1>6 DEF WriteTables, ghosts
  <2>2. ASSUME job.ev.rest \/ ~torn PROVE table' = mem
    <3>1. table' \in [Entities -> Nat] /\ mem \in [Entities -> Nat]
      BY <1>0, <1>6 DEF WriteTables, Shown
    <3>2. ASSUME NEW e \in Entities PROVE table'[e] = mem[e]
      <4>1. table'[e] = IF e \in job.ev.about /\ (mem[e] > 0 \/ ~job.ev.rest)
                        THEN mem[e] ELSE table[e]
        BY <1>6 DEF WriteTables
      <4>2. CASE job.ev.rest
        <5>1. table[e] = 0 /\ e \in job.ev.about
          BY <1>0, <2>1, <4>2 DEF TablesInv, Nothing
        <5> QED
          BY <3>1, <4>1, <4>2, <5>1
      <4>3. CASE ~job.ev.rest
        BY <2>1, <2>2, <4>1, <4>3 DEF TablesInv
      <4> QED
        BY <4>2, <4>3
    <3> QED
      BY <3>1, <3>2
  <2> QED
    BY <2>1, <2>2 DEF TablesInv
<1>7. CASE Finish
  <2>1. /\ job.step = "finish" /\ job' = NoJob /\ UNCHANGED <<mem, table>>
        /\ torn' = torn \/ job.ev.rest
    BY <1>7 DEF Finish, ghosts
  <2> QED
    BY <2>1 DEF TablesInv, NoJob
<1>8. CASE ReplayInbox
  <2>1. UNCHANGED <<mem, table, torn>> /\ job.step = "none" /\ job'.step = "apply"
    BY <1>8 DEF ReplayInbox, db, ghosts, Idle
  <2> QED
    BY <2>1 DEF TablesInv
<1>9. CASE \/ Drop \/ FetchFails \/ ReplayFails \/ RecordFails
           \/ \E i \in DOMAIN wire : Receive(i, TRUE)
  <2>1. UNCHANGED <<mem, table, job, torn>>
    BY <1>9 DEF Drop, FetchFails, ReplayFails, RecordFails, Receive, account, db
  <2> QED
    BY <2>1, TablesKept
<1>10. CASE JobFails \/ Crash
  <2>1. job' = NoJob /\ torn' = TRUE
    BY <1>10 DEF JobFails, Crash
  <2> QED
    BY <2>1 DEF TablesInv, NoJob
<1>11. CASE UNCHANGED vars
  BY <1>11, TablesKept DEF vars
<1> QED
  BY <1>1, <1>2, <1>3, <1>4, <1>5, <1>6, <1>7, <1>8, <1>9, <1>10, <1>11
     DEF Next, Account, Boot, Faults

\* Between events the live tables, which the web process reads, show what the
\* engine's memory shows, unless the store failed or the process restarted since
\* the last REST round: the next round puts right what either had torn.
THEOREM TablesAreRight == Spec => []TablesFollowMemory
<1>1. Init => TablesInv
  BY DEF Init, TablesInv, NoJob
<1>2. TablesInv => TablesFollowMemory
  BY DEF TablesInv, TablesFollowMemory, Idle
<1> QED
  BY <1>1, <1>2, TypeCorrect, TablesStep, PTL DEF Spec

-----------------------------------------------------------------------------
(* What no lost event touched is shown as it is                             *)

\* the events of a queue
Sent(s) == {s[i] : i \in DOMAIN s}

\* The stream events that are still to be recorded: on the socket or buffered, in
\* the hands of a replay, or queued; and what the coordinator works on.
Coming == Sent(wire) \cup Sent(buffer)
Queued == {x \in Sent(queue) : ~x.rest}
Told   == Coming \cup Sent(batch) \cup Queued
Hand   == IF Idle THEN {} ELSE {job.ev}
Said   == {x \in Hand : ~x.rest}
Snapshots == {x \in Sent(queue) : x.rest}

Flying(e) == \E x \in Told \cup Said : e \in x.about
Last(e)   == truth[e].ts

\* An event says what the exchange had: of nothing but its last change if it has the
\* number of that change.
Sound(x) ==
  \/ x.rest
  \/ /\ x.no \in 1..tally.changes
     /\ \A e \in x.about : x.no <= Last(e)
     /\ \A e \in Entities : Last(e) = x.no => e \in x.about /\ x.says[e] = Truth[e]

Numbered ==
  /\ \A e \in Entities : Last(e) <= tally.changes /\ ver[e] <= Last(e)
  /\ \A n \in recorded : n <= tally.changes
  /\ \A x \in Told \cup Hand \cup pending : Sound(x)

\* There is one snapshot at a time, it is the last of the queue, and while it is
\* fetched and applied, events are buffered.
Rounds ==
  /\ sync # "idle" => buffering
  /\ \A x \in Coming \cup Sent(batch) : ~x.rest
  /\ \A i \in DOMAIN queue :
       queue[i].rest => i = Len(queue) /\ sync = "drain" /\ Hand = Said
  /\ phase = "run" /\ Hand # Said => sync = "drain"
  /\ fresh # {} => \/ sync = "orders" /\ fresh \subseteq Positions
                   \/ sync = "drain" /\ (Snapshots # {} \/ Hand # Said)
  /\ \A x \in Said \cup pending : x.rest \/ x.no \in recorded
  /\ Idle => job = NoJob

\* A process starts with nothing, and if there is anything to replay, with every
\* entity in doubt.
Booting ==
  phase = "boot" =>
    /\ ~up /\ wire = <<>> /\ buffer = <<>> /\ batch = <<>> /\ queue = <<>>
    /\ sync = "idle" /\ fresh = {}
    /\ pending # {} \/ ~Idle => stale = Entities

\* The last change of e comes after the snapshot in hand.
Late(e) == /\ \E x \in Coming : x.no = Last(e)
           /\ Last(e) \notin recorded
           /\ \A x \in Queued \cup Said : x.no # Last(e)

\* What a snapshot says of e is true, if e matters.
Shows(v, e) == \/ e \in stale /\ e \notin fresh
               \/ v = Truth[e] /\ (e \in fresh => ~Flying(e))
               \/ Late(e)

Answers ==
  /\ sync = "orders" => \A e \in Positions : Shows(shot[e], e)
  /\ \A s \in Snapshots, e \in Entities : Shows(s.says[e], e)
  /\ phase = "run" /\ Hand # Said =>
       \A e \in Entities :
         Shows(IF job.step = "apply" THEN job.ev.says[e] ELSE mem[e], e)

\* The last change of e is still to be applied; or the memory has it, the view has
\* it or will get it, and no older event can get past the version check.
Carried(e) == \/ Last(e) \notin recorded /\ \E x \in Told : x.no = Last(e)
              \/ job.step = "apply" /\ \E x \in Said : x.no = Last(e)
Settled(e) ==
  /\ mem[e] = Truth[e]
  /\ \/ view[e] = Truth[e]
     \/ e \in patched
     \/ job.step # "apply" /\ \E x \in Said : e \in x.about
  /\ \A x \in Told : e \in x.about => x.no < ver[e] \/ x.no \in recorded
  /\ job.step = "apply" => \A x \in Said : e \in x.about => x.no < ver[e]
Right(e) == Carried(e) \/ Settled(e)

SettledInv == /\ Numbered /\ Rounds /\ Booting /\ Answers
              /\ \A e \in Entities \ stale : Right(e)

LEMMA SentEmpty == Sent(<<>>) = {}
BY DEF Sent

LEMMA SentType == ASSUME NEW s \in Seq(Event) PROVE Sent(s) \subseteq Event
BY EventSeqs DEF Sent

LEMMA SentAppend ==
  ASSUME NEW s \in Seq(Event), NEW x \in Event
  PROVE  Sent(Append(s, x)) = Sent(s) \cup {x}
<1>1. /\ Len(Append(s, x)) = Len(s) + 1 /\ Len(s) \in Nat
      /\ \A i \in 1..Len(s) : Append(s, x)[i] = s[i]
      /\ Append(s, x)[Len(s) + 1] = x
      /\ DOMAIN Append(s, x) = 1..(Len(s) + 1) /\ DOMAIN s = 1..Len(s)
  BY AppendProperties
<1>2. 1..(Len(s) + 1) = (1..Len(s)) \cup {Len(s) + 1}
  BY <1>1
<1> QED
  BY <1>1, <1>2 DEF Sent

LEMMA SentTail ==
  ASSUME NEW s \in Seq(Event), s # <<>>
  PROVE  Sent(s) = {Head(s)} \cup Sent(Tail(s))
<1>1. /\ Len(s) \in Nat /\ Len(s) >= 1 /\ DOMAIN s = 1..Len(s)
      /\ Head(s) = s[1]
      /\ DOMAIN Tail(s) = 1..(Len(s) - 1)
      /\ \A i \in 1..(Len(s) - 1) : Tail(s)[i] = s[i + 1]
  BY HeadTailProperties, EmptySeq, LenProperties
<1>2. ASSUME NEW i \in 2..Len(s) PROVE s[i] \in Sent(Tail(s))
  <2>1. i - 1 \in 1..(Len(s) - 1) /\ (i - 1) + 1 = i
    BY <1>1, <1>2
  <2> QED
    BY <1>1, <2>1 DEF Sent
<1>3. \A i \in 1..Len(s) : i = 1 \/ i \in 2..Len(s)
  BY <1>1
<1>4. Sent(s) \subseteq {Head(s)} \cup Sent(Tail(s))
  BY <1>1, <1>2, <1>3 DEF Sent
<1>5. ASSUME NEW i \in 1..(Len(s) - 1) PROVE Tail(s)[i] \in Sent(s)
  <2>1. i + 1 \in DOMAIN s
    BY <1>1, <1>5
  <2> QED
    BY <1>1, <1>5, <2>1 DEF Sent
<1>6. Head(s) \in Sent(s)
  BY <1>1 DEF Sent
<1> QED
  BY <1>1, <1>4, <1>5, <1>6 DEF Sent

LEMMA SentConcat ==
  ASSUME NEW s \in Seq(Event), NEW t \in Seq(Event)
  PROVE  Sent(s \o t) = Sent(s) \cup Sent(t)
<1>1. /\ Len(s) \in Nat /\ Len(t) \in Nat
      /\ DOMAIN (s \o t) = 1..(Len(s) + Len(t))
      /\ DOMAIN s = 1..Len(s) /\ DOMAIN t = 1..Len(t)
      /\ \A i \in 1..(Len(s) + Len(t)) :
           (s \o t)[i] = IF i <= Len(s) THEN s[i] ELSE t[i - Len(s)]
  BY ConcatProperties
<1>2. Sent(s \o t) \subseteq Sent(s) \cup Sent(t)
  <2>1. ASSUME NEW i \in 1..(Len(s) + Len(t)) PROVE (s \o t)[i] \in Sent(s) \cup Sent(t)
    <3>1. CASE i <= Len(s)
      BY <1>1, <3>1 DEF Sent
    <3>2. CASE ~(i <= Len(s))
      <4>1. i - Len(s) \in 1..Len(t)
        BY <1>1, <3>2
      <4> QED
        BY <1>1, <3>2, <4>1 DEF Sent
    <3> QED
      BY <3>1, <3>2
  <2> QED
    BY <1>1, <2>1 DEF Sent
<1>3. ASSUME NEW i \in 1..Len(s) PROVE s[i] \in Sent(s \o t)
  <2>1. i \in 1..(Len(s) + Len(t)) /\ i <= Len(s)
    BY <1>1
  <2> QED
    BY <1>1, <2>1 DEF Sent
<1>4. ASSUME NEW i \in 1..Len(t) PROVE t[i] \in Sent(s \o t)
  <2>1. /\ i + Len(s) \in 1..(Len(s) + Len(t)) /\ ~(i + Len(s) <= Len(s))
        /\ (i + Len(s)) - Len(s) = i
    BY <1>1
  <2> QED
    BY <1>1, <2>1 DEF Sent
<1> QED
  BY <1>1, <1>2, <1>3, <1>4 DEF Sent

LEMMA SubjectsConcat ==
  ASSUME NEW s \in Seq(Event), NEW t \in Seq(Event)
  PROVE  SubjectsOf(s \o t) = SubjectsOf(s) \cup SubjectsOf(t)
<1>1. \A q : SubjectsOf(q) = UNION {x.about : x \in {y \in Sent(q) : ~y.rest}}
  BY DEF SubjectsOf, Sent
<1> QED
  BY <1>1, SentConcat

\* an event that is taken out of the middle may have a copy there
LEMMA SentWithout ==
  ASSUME NEW s \in Seq(Event), NEW i \in DOMAIN s
  PROVE  Sent(s) = {s[i]} \cup Sent(Without(s, i))
<1> DEFINE a == SubSeq(s, 1, i - 1)
           b == SubSeq(s, i + 1, Len(s))
<1>1. i \in 1..Len(s) /\ Len(s) \in Nat /\ i \in Nat /\ DOMAIN s = 1..Len(s)
  OBVIOUS
<1>2. /\ a \in Seq(Event) /\ Len(a) = i - 1
      /\ \A k \in 1..(i - 1) : a[k] = s[k]
  <2>1. \A k \in 1..(i - 1) : s[k] \in Event
    BY <1>1, EventSeqs
  <2>2. SubSeq(s, 1, i - 1) \in Seq(Event)
    BY <1>1, <2>1, SubSeqProperties
  <2>3. Len(SubSeq(s, 1, i - 1)) = i - 1
    BY <1>1, SubSeqProperties
  <2>4. \A k \in 1..(i - 1) : SubSeq(s, 1, i - 1)[k] = s[k]
    <3>1. ASSUME NEW k \in 1..(i - 1) PROVE SubSeq(s, 1, i - 1)[k] = s[k]
      <4>1. SubSeq(s, 1, i - 1)[k] = s[1 + k - 1] /\ 1 + k - 1 = k
        BY <1>1, SubSeqProperties
      <4> QED
        BY <4>1
    <3> QED
      BY <3>1
  <2> QED
    BY <2>2, <2>3, <2>4
<1>3. /\ b \in Seq(Event) /\ Len(b) = Len(s) - i
      /\ \A k \in 1..(Len(s) - i) : b[k] = s[i + k]
  <2>1. \A k \in (i + 1)..Len(s) : s[k] \in Event
    BY <1>1, EventSeqs
  <2>2. SubSeq(s, i + 1, Len(s)) \in Seq(Event)
    BY <1>1, <2>1, SubSeqProperties
  <2>3. Len(SubSeq(s, i + 1, Len(s))) = Len(s) - i
    BY <1>1, SubSeqProperties
  <2>4. \A k \in 1..(Len(s) - i) : SubSeq(s, i + 1, Len(s))[k] = s[i + k]
    <3>1. ASSUME NEW k \in 1..(Len(s) - i) PROVE SubSeq(s, i + 1, Len(s))[k] = s[i + k]
      <4>1. SubSeq(s, i + 1, Len(s))[k] = s[(i + 1) + k - 1] /\ (i + 1) + k - 1 = i + k
        BY <1>1, SubSeqProperties
      <4> QED
        BY <4>1
    <3> QED
      BY <3>1
  <2> QED
    BY <2>2, <2>3, <2>4
<1> HIDE DEF a, b
<1>4. Sent(a \o b) = Sent(a) \cup Sent(b)
  BY <1>2, <1>3, SentConcat
<1>5. Sent(a) \subseteq Sent(s) /\ Sent(b) \subseteq Sent(s) /\ s[i] \in Sent(s)
  <2>1. DOMAIN a = 1..(i - 1) /\ DOMAIN b = 1..(Len(s) - i)
    BY <1>2, <1>3, LenProperties
  <2>2. \A k \in 1..(i - 1) : k \in DOMAIN s
    BY <1>1
  <2>3. \A k \in 1..(Len(s) - i) : i + k \in DOMAIN s
    BY <1>1
  <2> QED
    BY <1>2, <1>3, <2>1, <2>2, <2>3 DEF Sent
<1>6. ASSUME NEW k \in DOMAIN s PROVE s[k] \in {s[i]} \cup Sent(a) \cup Sent(b)
  <2>1. DOMAIN a = 1..(i - 1) /\ DOMAIN b = 1..(Len(s) - i)
    BY <1>2, <1>3, LenProperties
  <2>2. CASE k < i
    <3>1. k \in 1..(i - 1)
      BY <1>1, <2>2
    <3> QED
      BY <1>2, <2>1, <3>1 DEF Sent
  <2>3. CASE k > i
    <3>1. k - i \in 1..(Len(s) - i) /\ i + (k - i) = k
      BY <1>1, <2>3
    <3> QED
      BY <1>3, <2>1, <3>1 DEF Sent
  <2> QED
    BY <1>1, <2>2, <2>3
<1>7. Without(s, i) = a \o b
  BY DEF Without, a, b
<1>8. Sent(s) \subseteq {s[i]} \cup Sent(a) \cup Sent(b)
  BY <1>6 DEF Sent
<1> QED
  BY <1>4, <1>5, <1>7, <1>8

\* InFlight in terms of the events
LEMMA FlyingIs ==
  ASSUME TypeOK, Rounds, NEW e \in Entities
  PROVE  e \in InFlight <=> Flying(e)
<1>1. InFlight = SubjectsOf(wire) \cup SubjectsOf(buffer) \cup SubjectsOf(batch)
                 \cup SubjectsOf(queue) \cup SubjectsOf(<<job.ev>>)
  <2>1. /\ wire \in Seq(Event) /\ buffer \in Seq(Event) /\ batch \in Seq(Event)
        /\ queue \in Seq(Event) /\ <<job.ev>> \in Seq(Event)
    BY DEF TypeOK
  <2>2. \A s, t \in Seq(Event) : s \o t \in Seq(Event)
                              /\ SubjectsOf(s \o t) = SubjectsOf(s) \cup SubjectsOf(t)
    BY ConcatProperties, SubjectsConcat
  <2>3. PICK w \in Seq(Event), f \in Seq(Event), h \in Seq(Event), q \in Seq(Event),
              j \in Seq(Event) :
          w = wire /\ f = buffer /\ h = batch /\ q = queue /\ j = <<job.ev>>
    BY <2>1
  <2>4. w \o f \in Seq(Event) /\ SubjectsOf(w \o f) = SubjectsOf(w) \cup SubjectsOf(f)
    BY <2>2
  <2>5. /\ (w \o f) \o h \in Seq(Event)
        /\ SubjectsOf((w \o f) \o h) = SubjectsOf(w \o f) \cup SubjectsOf(h)
    BY <2>2, <2>4
  <2>6. /\ ((w \o f) \o h) \o q \in Seq(Event)
        /\ SubjectsOf(((w \o f) \o h) \o q) = SubjectsOf((w \o f) \o h) \cup SubjectsOf(q)
    BY <2>2, <2>5
  <2>7. SubjectsOf((((w \o f) \o h) \o q) \o j)
          = SubjectsOf(((w \o f) \o h) \o q) \cup SubjectsOf(j)
    BY <2>2, <2>6
  <2>8. InFlight = SubjectsOf((((w \o f) \o h) \o q) \o j)
    BY <2>3 DEF InFlight
  <2> QED
    BY <2>3, <2>4, <2>5, <2>6, <2>7, <2>8
<1>2. \A s : e \in SubjectsOf(s) <=> \E x \in Sent(s) : ~x.rest /\ e \in x.about
  BY DEF SubjectsOf, Sent
<1>3. e \in SubjectsOf(<<job.ev>>) <=> ~job.ev.rest /\ e \in job.ev.about
  BY DEF SubjectsOf
<1>4. Idle => job.ev.about = {}
  BY DEF Rounds, NoJob, NoEvent
<1> QED
  BY <1>1, <1>2, <1>3, <1>4 DEF Flying, Told, Said, Hand, Coming, Queued, Rounds

\* what the sets of events are made of
LEMMA SetTypes ==
  ASSUME TypeOK
  PROVE  /\ Coming \subseteq Event /\ Queued \subseteq Event /\ Told \subseteq Event
         /\ Sent(wire) \subseteq Event /\ Sent(buffer) \subseteq Event
         /\ Sent(batch) \subseteq Event /\ Sent(queue) \subseteq Event
         /\ Hand \subseteq Event /\ Said \subseteq Hand /\ Snapshots \subseteq Event
BY SentType DEF TypeOK, Coming, Queued, Told, Hand, Said, Snapshots

\* a step after which the events are among those before it
LEMMA NumberedKept ==
  ASSUME Numbered, UNCHANGED <<truth, ver>>, tally'.changes = tally.changes,
         recorded' \subseteq recorded,
         Told' \cup Hand' \cup pending' \subseteq Told \cup Hand \cup pending
  PROVE  Numbered'
<1>1. \A e : Last(e)' = Last(e) /\ Truth' = Truth
  BY DEF Last, Truth
<1>2. \A x : Sound(x) => Sound(x)'
  BY <1>1 DEF Sound
<1> QED
  BY <1>1, <1>2 DEF Numbered

\* a step that changes nothing of what a snapshot in hand says, as far as it matters
LEMMA ShowsKept ==
  ASSUME Numbered, Rounds, UNCHANGED <<truth, recorded>>,
         fresh' \subseteq fresh, stale \subseteq stale',
         \A x \in Coming : x \in Coming' \/ x.about \subseteq stale' \ fresh',
         Queued' \cup Said' \subseteq Queued \cup Said,
         Told' \cup Said' \subseteq Told \cup Said,
         NEW e \in Entities, NEW v, Shows(v, e)
  PROVE  Shows(v, e)'
<1>1. Last(e)' = Last(e) /\ Truth'[e] = Truth[e]
  BY DEF Last, Truth
<1>2. CASE e \in stale /\ e \notin fresh
  BY <1>2 DEF Shows
<1>3. CASE v = Truth[e] /\ (e \in fresh => ~Flying(e))
  BY <1>1, <1>3 DEF Shows, Flying
<1>4. CASE Late(e)
  <2>1. PICK x \in Coming : x.no = Last(e)
    BY <1>4 DEF Late
  <2>2. ~x.rest /\ Sound(x)
    BY DEF Rounds, Numbered, Told
  <2>3. e \in x.about
    BY <2>1, <2>2 DEF Sound
  <2>4. CASE x \in Coming'
    BY <1>1, <1>4, <2>1, <2>4 DEF Late, Shows
  <2>5. CASE x \notin Coming'
    <3>1. e \in stale' /\ e \notin fresh'
      BY <2>3, <2>5
    <3> QED
      BY <3>1 DEF Shows
  <2> QED
    BY <2>4, <2>5
<1> QED
  BY <1>2, <1>3, <1>4 DEF Shows

\* a step that moves events, drops copies, or loses events and says so
LEMMA RightKept ==
  ASSUME Numbered, Rounds, UNCHANGED <<truth, recorded, job, mem, ver, view, patched>>,
         stale \subseteq stale', Told' \subseteq Told,
         \A x \in Told : x \in Told' \/ x.no \in recorded \/ x.about \subseteq stale',
         NEW e \in Entities \ stale', Right(e)
  PROVE  Right(e)'
<1>1. Last(e)' = Last(e) /\ Truth'[e] = Truth[e] /\ Hand' = Hand /\ Said' = Said
  BY DEF Last, Truth, Hand, Said, Idle
<1>2. CASE Carried(e)
  <2>1. CASE job.step = "apply" /\ \E x \in Said : x.no = Last(e)
    BY <1>1, <2>1 DEF Carried, Right
  <2>2. CASE Last(e) \notin recorded /\ \E x \in Told : x.no = Last(e)
    <3>1. PICK x \in Told : x.no = Last(e)
      BY <2>2
    <3>2. ~x.rest /\ Sound(x)
      BY DEF Rounds, Numbered, Told, Queued
    <3>3. e \in x.about
      BY <3>1, <3>2 DEF Sound
    <3>4. x \in Told'
      BY <2>2, <3>1, <3>3
    <3> QED
      BY <1>1, <2>2, <3>1, <3>4 DEF Carried, Right
  <2> QED
    BY <1>2, <2>1, <2>2 DEF Carried
<1>3. CASE Settled(e)
  <2>1. Settled(e)'
    BY <1>1, <1>3 DEF Settled
  <2> QED
    BY <2>1 DEF Right
<1> QED
  BY <1>2, <1>3 DEF Right

\* what such a step keeps of the invariant
LEMMA Passing ==
  ASSUME SettledInv, UNCHANGED <<truth, recorded, pending, job, mem, ver, view, patched>>,
         tally'.changes = tally.changes, stale \subseteq stale', Told' \subseteq Told,
         \A x \in Told : x \in Told' \/ x.no \in recorded \/ x.about \subseteq stale'
  PROVE  Numbered' /\ \A e \in Entities \ stale' : Right(e)'
<1>1. Hand' = Hand
  BY DEF Hand, Idle
<1>2. Numbered'
  BY <1>1, NumberedKept DEF SettledInv
<1>3. ASSUME NEW e \in Entities \ stale' PROVE Right(e)'
  <2>1. Right(e)
    BY DEF SettledInv
  <2> QED
    BY <2>1, RightKept DEF SettledInv
<1> QED
  BY <1>2, <1>3

\* ... while a snapshot may be on its way
LEMMA AnswersKept ==
  ASSUME SettledInv, UNCHANGED <<truth, recorded, job, mem, phase, sync, shot>>,
         fresh' \subseteq fresh, stale \subseteq stale',
         \A x \in Coming : x \in Coming' \/ x.about \subseteq stale' \ fresh',
         Queued' \subseteq Queued, Told' \subseteq Told,
         Snapshots' \subseteq Snapshots
  PROVE  Answers'
<1>1. Hand' = Hand /\ Said' = Said
  BY DEF Hand, Said, Idle
<1>2. \A v : \A e \in Entities : Shows(v, e) => Shows(v, e)'
  <2>1. ASSUME NEW v, NEW e \in Entities, Shows(v, e) PROVE Shows(v, e)'
    BY <1>1, <2>1, ShowsKept DEF SettledInv
  <2> QED
    BY <2>1
<1>3. sync' = "orders" => \A e \in Positions : Shows(shot[e], e)'
  <2>1. ASSUME sync' = "orders", NEW e \in Positions PROVE Shows(shot[e], e)'
    <3>1. PICK v : v = shot[e]
      OBVIOUS
    <3>2. Shows(v, e)
      BY <2>1, <3>1 DEF SettledInv, Answers
    <3>3. Shows(v, e)' /\ shot'[e] = v
      BY <1>2, <3>1, <3>2 DEF Entities
    <3> QED
      BY <3>3 DEF Shows
  <2> QED
    BY <2>1
<1>4. \A s \in Snapshots', e \in Entities : Shows(s.says[e], e)'
  <2>1. ASSUME NEW s \in Snapshots', NEW e \in Entities PROVE Shows(s.says[e], e)'
    <3>1. s \in Snapshots
      OBVIOUS
    <3>2. Shows(s.says[e], e)
      BY <3>1 DEF SettledInv, Answers
    <3> QED
      BY <1>2, <3>2
  <2> QED
    BY <2>1
<1>5. phase' = "run" /\ Hand' # Said' =>
        \A e \in Entities :
          Shows(IF job.step = "apply" THEN job.ev.says[e] ELSE mem[e], e)'
  <2>1. ASSUME phase' = "run" /\ Hand' # Said', NEW e \in Entities
        PROVE  Shows(IF job.step = "apply" THEN job.ev.says[e] ELSE mem[e], e)'
    <3>1. PICK v : v = IF job.step = "apply" THEN job.ev.says[e] ELSE mem[e]
      OBVIOUS
    <3>2. Shows(v, e)
      BY <1>1, <2>1, <3>1 DEF SettledInv, Answers
    <3>3. Shows(v, e)' /\ v = IF job'.step = "apply" THEN job'.ev.says[e] ELSE mem'[e]
      BY <1>2, <3>1, <3>2
    <3> QED
      BY <3>3 DEF Shows
  <2> QED
    BY <2>1
<1> QED
  BY <1>3, <1>4, <1>5 DEF Answers

\* ... or where none is
LEMMA NoAnswers ==
  ASSUME TypeOK', Rounds', sync' \notin {"orders", "drain"}
  PROVE  Answers'
<1>1. Snapshots' = {}
  BY DEF Rounds, Snapshots, Sent
<1> QED
  BY <1>1 DEF Rounds, Answers

\* what a failure adds to the tally
LEMMA FaultCount == Count("faults") /\ TypeOK => tally'.changes = tally.changes
BY DEF Count, TypeOK, Tallied

LEMMA DropSettles ==
  ASSUME TypeOK, TypeOK', SettledInv, Drop
  PROVE  SettledInv'
<1>1. /\ up' = FALSE /\ wire' = <<>> /\ stale' = stale \cup SubjectsOf(wire)
      /\ fresh' = fresh \ SubjectsOf(wire)
      /\ UNCHANGED <<truth, phase, buffering, buffer, stream, sync, shot, batch, queue,
                     job, mem, ver, view, patched, recorded, pending>>
      /\ tally'.changes = tally.changes
  BY FaultCount DEF Drop, Lose, engine, account, db
<1>2. Coming' = Sent(buffer) /\ Queued' = Queued /\ Hand' = Hand /\ Said' = Said
      /\ Snapshots' = Snapshots /\ Told' \subseteq Told
  BY <1>1, SentEmpty DEF Coming, Queued, Told, Hand, Said, Snapshots, Idle
<1>3. ASSUME NEW x \in Sent(wire) PROVE x.about \subseteq SubjectsOf(wire)
  <2>1. ~x.rest
    BY DEF SettledInv, Rounds, Coming
  <2> QED
    BY <2>1 DEF SubjectsOf, Sent
<1>4. \A x \in Coming : x \in Coming' \/ x.about \subseteq stale' \ fresh'
  BY <1>1, <1>2, <1>3 DEF Coming
<1>5. \A x \in Told : x \in Told' \/ x.about \subseteq stale'
  BY <1>1, <1>2, <1>4 DEF Told
<1>6. Numbered' /\ \A e \in Entities \ stale' : Right(e)'
  BY <1>1, <1>2, <1>5, Passing
<1>7. Rounds'
  BY <1>1, <1>2 DEF SettledInv, Rounds, Coming, Idle
<1>8. Booting'
  BY <1>1 DEF SettledInv, Booting, Idle, TypeOK
<1>9. Answers'
  BY <1>1, <1>2, <1>4, AnswersKept
<1> QED
  BY <1>6, <1>7, <1>8, <1>9 DEF SettledInv

LEMMA ConnectSettles ==
  ASSUME TypeOK, TypeOK', SettledInv, Connect
  PROVE  SettledInv'
<1>1. /\ phase = "run" /\ buffering' = TRUE
      /\ UNCHANGED <<truth, wire, phase, buffer, stream, sync, shot, batch, queue,
                     job, mem, ver, view, patched, recorded, pending, tally, stale, fresh>>
  BY DEF Connect, account, db, ghosts
<1>2. Coming' = Coming /\ Queued' = Queued /\ Hand' = Hand /\ Said' = Said
      /\ Snapshots' = Snapshots /\ Told' = Told
  BY <1>1 DEF Coming, Queued, Told, Hand, Said, Snapshots, Idle
<1>3. Numbered' /\ \A e \in Entities \ stale' : Right(e)'
  BY <1>1, <1>2, Passing
<1>4. Rounds'
  BY <1>1, <1>2 DEF SettledInv, Rounds, Idle
<1>5. Booting'
  BY <1>1 DEF Booting
<1>6. Answers'
  BY <1>1, <1>2, AnswersKept
<1> QED
  BY <1>3, <1>4, <1>5, <1>6 DEF SettledInv

LEMMA ReceivedSettles ==
  ASSUME TypeOK, TypeOK', SettledInv, Received
  PROVE  SettledInv'
<1>1. UNCHANGED <<truth, wire, up, phase, buffering, buffer, sync, shot, batch, queue,
                  job, mem, ver, view, patched, recorded, pending, tally, stale, fresh>>
  BY DEF Received, exchange, account, db, ghosts
<1>2. Coming' = Coming /\ Queued' = Queued /\ Hand' = Hand /\ Said' = Said
      /\ Snapshots' = Snapshots /\ Told' = Told
  BY <1>1 DEF Coming, Queued, Told, Hand, Said, Snapshots, Idle
<1>3. Numbered' /\ \A e \in Entities \ stale' : Right(e)'
  BY <1>1, <1>2, Passing
<1>4. Rounds'
  BY <1>1, <1>2 DEF SettledInv, Rounds, Idle
<1>5. Booting'
  BY <1>1 DEF SettledInv, Booting, Idle
<1>6. Answers'
  BY <1>1, <1>2, AnswersKept
<1> QED
  BY <1>3, <1>4, <1>5, <1>6 DEF SettledInv

\* an event is buffered, lost because the buffer is full, or queued
LEMMA ReceiveSettles ==
  ASSUME TypeOK, TypeOK', SettledInv, NEW i \in DOMAIN wire, NEW again \in BOOLEAN,
         Receive(i, again)
  PROVE  SettledInv'
<1>1. /\ phase = "run" /\ tally'.changes = tally.changes
      /\ UNCHANGED <<truth, up, phase, buffering, sync, shot, batch, job, mem, ver,
                     view, patched, recorded, pending>>
      /\ wire' = wire \/ wire' = Without(wire, i)
  BY FaultCount DEF Receive, db
<1>2. wire[i] \in Sent(wire) /\ Sent(wire) = {wire[i]} \cup Sent(wire')
      /\ wire[i] \in Event
  <2>1. wire[i] \in Sent(wire) /\ wire[i] \in Event
    BY EventSeqs DEF Sent, TypeOK
  <2>2. CASE wire' = wire
    BY <2>1, <2>2
  <2>3. CASE wire' = Without(wire, i)
    BY <2>1, <2>3, SentWithout DEF TypeOK
  <2> QED
    BY <1>1, <2>1, <2>2, <2>3
<1>3. Hand' = Hand /\ Said' = Said /\ ~wire[i].rest
  BY <1>1, <1>2 DEF Hand, Said, Idle, SettledInv, Rounds, Coming
<1>4. Booting'
  BY <1>1 DEF Booting
<1>5. CASE buffer' = Append(buffer, wire[i]) /\ UNCHANGED <<queue, stale, fresh>>
  <2>1. Sent(buffer') = Sent(buffer) \cup {wire[i]}
    BY <1>2, <1>5, SentAppend DEF TypeOK
  <2>2. Coming' = Coming /\ Queued' = Queued /\ Snapshots' = Snapshots /\ Told' = Told
    BY <1>1, <1>2, <1>5, <2>1 DEF Coming, Queued, Snapshots, Told
  <2>3. Numbered' /\ \A e \in Entities \ stale' : Right(e)'
    BY <1>1, <1>5, <2>2, Passing
  <2>4. Rounds'
    BY <1>1, <1>3, <1>5, <2>2 DEF SettledInv, Rounds, Idle
  <2>5. Answers'
    BY <1>1, <1>5, <2>2, AnswersKept
  <2> QED
    BY <1>4, <2>3, <2>4, <2>5 DEF SettledInv
<1>6. CASE /\ stale' = stale \cup wire[i].about /\ fresh' = fresh \ wire[i].about
           /\ UNCHANGED <<buffer, queue>>
  <2>1. /\ Coming = Coming' \cup {wire[i]} /\ Queued' = Queued
        /\ Snapshots' = Snapshots /\ Told = Told' \cup {wire[i]}
    BY <1>1, <1>2, <1>6 DEF Coming, Queued, Snapshots, Told
  <2>2. wire[i].about \subseteq stale' \ fresh'
    BY <1>6
  <2>3. Numbered' /\ \A e \in Entities \ stale' : Right(e)'
    BY <1>1, <1>6, <2>1, <2>2, Passing
  <2>4. Rounds'
    BY <1>1, <1>3, <1>6, <2>1 DEF SettledInv, Rounds, Idle
  <2>5. Answers'
    BY <1>1, <1>6, <2>1, <2>2, AnswersKept
  <2> QED
    BY <1>4, <2>3, <2>4, <2>5 DEF SettledInv
<1>7. CASE ~buffering /\ queue' = Append(queue, wire[i]) /\ UNCHANGED <<buffer, stale, fresh>>
  <2>1. Sent(queue') = Sent(queue) \cup {wire[i]}
    BY <1>2, <1>7, SentAppend DEF TypeOK
  <2>2. /\ Queued' = Queued \cup {wire[i]} /\ Snapshots' = Snapshots
        /\ Coming = Coming' \cup {wire[i]} /\ Told' = Told
    BY <1>1, <1>2, <1>3, <1>7, <2>1 DEF Coming, Queued, Snapshots, Told
  <2>3. sync = "idle"
    BY <1>7 DEF SettledInv, Rounds
  <2>4. Numbered' /\ \A e \in Entities \ stale' : Right(e)'
    BY <1>1, <1>7, <2>2, Passing
  <2>5. Rounds'
    <3>1. \A j \in DOMAIN queue' : ~queue'[j].rest
      <4>1. \A x \in Sent(queue) : ~x.rest
        BY <2>3 DEF SettledInv, Rounds, Sent
      <4>2. \A x \in Sent(queue') : ~x.rest
        BY <1>3, <2>1, <4>1
      <4> QED
        BY <4>2 DEF Sent
    <3> QED
      BY <1>1, <1>3, <1>7, <2>2, <2>3, <3>1 DEF SettledInv, Rounds, Idle
  <2>6. Answers'
    BY <1>1, <2>3, <2>5, NoAnswers
  <2> QED
    BY <1>4, <2>4, <2>5, <2>6 DEF SettledInv
<1> QED
  BY <1>5, <1>6, <1>7 DEF Receive, Lose

\* of what the exchange says now, and no older event can contradict
LEMMA ShowsTruth ==
  ASSUME TypeOK, Rounds, UNCHANGED <<truth, wire, buffer, batch, job, recorded>>,
         NEW S \in SUBSET Entities, fresh' = fresh \cup (S \ InFlight),
         stale' = stale, Queued' = Queued, NEW e \in S, e \notin fresh
  PROVE  Shows(Truth[e], e)'
<1>1. Told' = Told /\ Said' = Said /\ Truth' = Truth
  BY DEF Told, Said, Hand, Idle, Truth, Coming
<1>2. e \in fresh' => ~Flying(e)
  BY FlyingIs
<1> QED
  BY <1>1, <1>2 DEF Shows, Flying

\* a resync that begins, whose query fails, or that goes on with its replay
LEMMA RoundSettles ==
  ASSUME TypeOK, TypeOK', SettledInv,
         \/ BeginResync \/ FetchFails \/ SnapshotApplied \/ ReplayApplied \/ ReplayDone
  PROVE  SettledInv'
<1>1. /\ UNCHANGED <<truth, wire, up, phase, buffer, batch, queue, job, mem, ver, view, patched,
                     recorded, pending, stale>>
      /\ fresh' = fresh \/ fresh' = {}
      /\ tally'.changes = tally.changes
      /\ sync' \notin {"orders", "drain"}
      /\ phase = "boot" => sync' = "idle"
      /\ buffering' = buffering \/ (sync' # "idle" => buffering')
  BY FaultCount DEF BeginResync, FetchFails, SnapshotApplied, ReplayApplied, ReplayDone,
     exchange, account, db, ghosts, SettledInv, Booting
<1>2. Coming' = Coming /\ Queued' = Queued /\ Hand' = Hand /\ Said' = Said
      /\ Snapshots' = Snapshots /\ Told' = Told
  BY <1>1 DEF Coming, Queued, Told, Hand, Said, Snapshots, Idle
<1>3. Numbered' /\ \A e \in Entities \ stale' : Right(e)'
  BY <1>1, <1>2, Passing
<1>4. /\ fresh' = {}
      /\ \A i \in DOMAIN queue : ~queue[i].rest
      /\ phase = "run" => Hand = Said
  <2>1. CASE SnapshotApplied \/ ReplayApplied
    <3>1. queue = <<>> /\ Idle
      BY <2>1 DEF SnapshotApplied, ReplayApplied, Drained
    <3>2. Snapshots = {} /\ Hand = {} /\ Said = {}
      BY <3>1, SentEmpty DEF Snapshots, Hand, Said
    <3>3. fresh' = fresh /\ sync # "orders"
      BY <2>1 DEF SnapshotApplied, ReplayApplied, ghosts
    <3> QED
      BY <3>1, <3>2, <3>3 DEF SettledInv, Rounds
  <2>2. CASE BeginResync \/ ReplayDone
    <3>1. sync \notin {"orders", "drain"} /\ fresh' = fresh
      BY <2>2 DEF BeginResync, ReplayDone, ghosts
    <3> QED
      BY <3>1 DEF SettledInv, Rounds
  <2>3. CASE FetchFails
    <3>1. sync \notin {"drain"} /\ fresh' = {}
      BY <2>3 DEF FetchFails
    <3> QED
      BY <3>1 DEF SettledInv, Rounds
  <2> QED
    BY <2>1, <2>2, <2>3
<1>5. sync' # "idle" => buffering'
  <2>1. CASE BeginResync \/ FetchFails \/ ReplayDone
    BY <2>1 DEF BeginResync, FetchFails, ReplayDone
  <2>2. CASE SnapshotApplied \/ ReplayApplied
    BY <2>2 DEF SnapshotApplied, ReplayApplied, SettledInv, Rounds
  <2> QED
    BY <2>1, <2>2
<1>6. Rounds'
  BY <1>1, <1>2, <1>4, <1>5 DEF SettledInv, Rounds, Idle
<1>7. Booting'
  BY <1>1, <1>4 DEF SettledInv, Booting, Idle
<1>8. Answers'
  BY <1>1, <1>6, NoAnswers
<1> QED
  BY <1>3, <1>6, <1>7, <1>8 DEF SettledInv

LEMMA FetchPositionsSettles ==
  ASSUME TypeOK, TypeOK', SettledInv, FetchPositions
  PROVE  SettledInv'
<1>1. /\ UNCHANGED <<truth, wire, up, phase, buffering, buffer, batch, queue, job, mem,
                     ver, view, patched, recorded, pending, tally, stale>>
      /\ sync = "positions" /\ sync' = "orders"
      /\ shot' = [e \in Entities |-> IF e \in Positions THEN Truth[e] ELSE shot[e]]
      /\ fresh' = fresh \cup (Positions \ InFlight)
  BY DEF FetchPositions, Repairs, exchange, account, db
<1>2. Coming' = Coming /\ Queued' = Queued /\ Hand' = Hand /\ Said' = Said
      /\ Snapshots' = Snapshots /\ Told' = Told
  BY <1>1 DEF Coming, Queued, Told, Hand, Said, Snapshots, Idle
<1>3. Numbered' /\ \A e \in Entities \ stale' : Right(e)'
  BY <1>1, <1>2, Passing
<1>4. fresh = {} /\ phase = "run" /\ Hand = Said /\ \A i \in DOMAIN queue : ~queue[i].rest
  BY <1>1 DEF SettledInv, Rounds, Booting, TypeOK
<1>5. Rounds'
  BY <1>1, <1>2, <1>4 DEF SettledInv, Rounds, Idle
<1>6. Booting'
  BY <1>1, <1>4 DEF Booting
<1>7. ASSUME NEW e \in Positions PROVE Shows(shot[e], e)'
  <2>1. Shows(Truth[e], e)'
    BY <1>1, <1>2, <1>4, ShowsTruth DEF SettledInv, Entities
  <2>2. shot'[e] = Truth[e] /\ Truth' = Truth
    BY <1>1 DEF Entities, Truth
  <2> QED
    BY <2>1, <2>2 DEF Shows
<1>8. Snapshots' = {}
  BY <1>2, <1>4 DEF Snapshots, Sent
<1>9. Answers'
  BY <1>2, <1>4, <1>7, <1>8 DEF Answers
<1> QED
  BY <1>3, <1>5, <1>6, <1>9 DEF SettledInv

\* the snapshot goes to the coordinator with both answers
LEMMA FetchOrdersSettles ==
  ASSUME TypeOK, TypeOK', SettledInv, FetchOrders
  PROVE  SettledInv'
<1>1. PICK snap :
        /\ snap = [no |-> 0, rest |-> TRUE, about |-> Entities,
                   says |-> [e \in Entities |-> IF e \in Orders THEN Truth[e] ELSE shot[e]]]
        /\ queue' = Append(queue, snap)
  BY DEF FetchOrders
<1>2. /\ UNCHANGED <<truth, wire, up, phase, buffering, buffer, batch, job, mem,
                     ver, view, patched, recorded, pending, tally, stale>>
      /\ sync = "orders" /\ sync' = "drain"
      /\ fresh' = fresh \cup (Orders \ InFlight)
  BY DEF FetchOrders, Repairs, exchange, db
<1>3. snap \in Event /\ snap.rest
  <2>1. snap.says \in Shown
    <3>1. Truth \in Shown /\ shot \in Shown
      BY TruthType DEF TypeOK
    <3> QED
      BY <1>1, <3>1 DEF Shown
  <2> QED
    BY <1>1, <2>1 DEF Event
<1>4. Sent(queue') = Sent(queue) \cup {snap}
  BY <1>1, <1>3, SentAppend DEF TypeOK
<1>5. phase = "run" /\ Hand = Said /\ (\A i \in DOMAIN queue : ~queue[i].rest)
      /\ fresh \subseteq Positions
  BY <1>2 DEF SettledInv, Rounds, Booting, TypeOK
<1>6. Snapshots = {}
  BY <1>5 DEF Snapshots, Sent
<1>7. Coming' = Coming /\ Queued' = Queued /\ Hand' = Hand /\ Said' = Said
      /\ Snapshots' = {snap} /\ Told' = Told
  BY <1>2, <1>3, <1>4, <1>6 DEF Coming, Queued, Told, Hand, Said, Snapshots, Idle
<1>8. Numbered' /\ \A e \in Entities \ stale' : Right(e)'
  BY <1>2, <1>7, Passing
<1>9. Rounds'
  <2>1. /\ Len(queue') = Len(queue) + 1 /\ Len(queue) \in Nat
        /\ DOMAIN queue' = 1..(Len(queue) + 1) /\ DOMAIN queue = 1..Len(queue)
        /\ \A i \in 1..Len(queue) : queue'[i] = queue[i]
    BY <1>1, <1>3, AppendProperties DEF TypeOK
  <2>2. \A i \in DOMAIN queue' : queue'[i].rest => i = Len(queue')
    <3>1. ASSUME NEW i \in 1..(Len(queue) + 1), i # Len(queue) + 1 PROVE ~queue'[i].rest
      <4>1. i \in 1..Len(queue)
        BY <2>1, <3>1
      <4> QED
        BY <1>5, <2>1, <4>1
    <3> QED
      BY <2>1, <3>1
  <2> QED
    BY <1>2, <1>5, <1>7, <2>2 DEF SettledInv, Rounds, Idle
<1>10. Booting'
  BY <1>2, <1>5 DEF Booting
<1>11. ASSUME NEW e \in Entities PROVE Shows(snap.says[e], e)'
  <2>1. CASE e \in Orders
    <3>1. e \notin fresh
      BY <1>5, <2>1, EntityAssumption
    <3>2. Shows(Truth[e], e)'
      BY <1>2, <1>7, <2>1, <3>1, ShowsTruth DEF SettledInv, Entities
    <3>3. snap.says[e] = Truth[e] /\ Truth' = Truth
      BY <1>1, <1>2, <2>1 DEF Truth
    <3> QED
      BY <3>2, <3>3 DEF Shows
  <2>2. CASE e \in Positions
    <3>1. snap.says[e] = shot[e] /\ Truth' = Truth /\ Last(e)' = Last(e)
      BY <1>1, <1>2, <2>2, EntityAssumption DEF Truth, Last
    <3>2. Shows(shot[e], e)
      BY <1>2, <2>2 DEF SettledInv, Answers
    <3>3. e \in fresh' <=> e \in fresh
      BY <1>2, <2>2, EntityAssumption
    <3>4. (Flying(e)' <=> Flying(e)) /\ (Late(e) => Late(e)')
      BY <1>2, <1>7, <3>1 DEF Flying, Late
    <3> QED
      BY <1>2, <3>1, <3>2, <3>3, <3>4 DEF Shows
  <2> QED
    BY <2>1, <2>2 DEF Entities
<1>12. Answers'
  BY <1>2, <1>5, <1>7, <1>11 DEF Answers
<1> QED
  BY <1>8, <1>9, <1>10, <1>12 DEF SettledInv

\* the replay takes the buffer, queues an event, or loses the rest of what it took
LEMMA ReplaySettles ==
  ASSUME TypeOK, TypeOK', SettledInv, TakeBuffer \/ ReplayNext \/ ReplayFails
  PROVE  SettledInv'
<1>1. /\ UNCHANGED <<truth, wire, up, phase, buffering, job, mem, ver, view, patched, recorded,
                     pending>>
      /\ tally'.changes = tally.changes
      /\ sync \in {"replay", "applying"} /\ sync' \notin {"orders", "drain"}
      /\ stale \subseteq stale' /\ fresh' \subseteq fresh
  BY FaultCount DEF TakeBuffer, ReplayNext, ReplayFails, exchange, account, db, ghosts,
     Lose
<1>2. /\ phase = "run" /\ fresh = {} /\ buffering /\ Hand = Said
      /\ \A i \in DOMAIN queue : ~queue[i].rest
  BY <1>1 DEF SettledInv, Rounds, Booting, TypeOK
<1>3. Hand' = Hand /\ Said' = Said
  BY <1>1 DEF Hand, Said, Idle
<1>4. /\ Told' \subseteq Told
      /\ \A x \in Told : x \in Told' \/ x.about \subseteq stale'
      /\ \A x \in Coming' \cup Sent(batch') \cup Sent(queue') : ~x.rest
  <2>0. \A x \in Coming \cup Sent(batch) \cup Sent(queue) : ~x.rest
    BY <1>2 DEF SettledInv, Rounds, Sent
  <2>1. CASE TakeBuffer
    <3>1. batch = <<>> /\ batch' = buffer /\ buffer' = <<>> /\ queue' = queue
      BY <2>1 DEF TakeBuffer, account
    <3> QED
      BY <1>1, <2>0, <3>1, SentEmpty DEF Told, Coming, Queued
  <2>2. CASE ReplayNext
    <3>1. /\ batch # <<>> /\ queue' = Append(queue, Head(batch)) /\ batch' = Tail(batch)
          /\ buffer' = buffer
      BY <2>2 DEF ReplayNext
    <3>2. Sent(batch) = {Head(batch)} \cup Sent(batch')
      BY <3>1, SentTail DEF TypeOK
    <3>3. Sent(queue') = Sent(queue) \cup {Head(batch)}
      BY <3>1, EventSeqs, SentAppend DEF TypeOK
    <3> QED
      BY <1>1, <2>0, <3>1, <3>2, <3>3 DEF Told, Coming, Queued
  <2>3. CASE ReplayFails
    <3>1. batch' = <<>> /\ stale' = stale \cup SubjectsOf(batch) /\ UNCHANGED <<buffer, queue>>
      BY <2>3 DEF ReplayFails, Lose, account
    <3>2. \A x \in Sent(batch) : x.about \subseteq SubjectsOf(batch)
      BY <2>0 DEF SubjectsOf, Sent
    <3> QED
      BY <1>1, <2>0, <3>1, <3>2, SentEmpty DEF Told, Coming, Queued
  <2> QED
    BY <2>1, <2>2, <2>3
<1>5. Numbered' /\ \A e \in Entities \ stale' : Right(e)'
  BY <1>1, <1>4, Passing
<1>6. Rounds'
  <2>1. \A i \in DOMAIN queue' : ~queue'[i].rest
    BY <1>4 DEF Sent
  <2> QED
    BY <1>1, <1>2, <1>3, <1>4, <2>1 DEF SettledInv, Rounds, Idle
<1>7. Booting'
  BY <1>1, <1>2 DEF Booting
<1>8. Answers'
  BY <1>1, <1>6, NoAnswers
<1> QED
  BY <1>5, <1>6, <1>7, <1>8 DEF SettledInv

\* where a snapshot stays true for what matters, and the job shows what it has applied
LEMMA AnswersVia ==
  ASSUME Answers, UNCHANGED <<sync, shot>>, Snapshots' \subseteq Snapshots,
         \A v : \A e \in Entities : Shows(v, e) => Shows(v, e)',
         phase' = "run" /\ Hand' # Said' =>
           \A e \in Entities :
             Shows(IF job.step = "apply" THEN job.ev.says[e] ELSE mem[e], e)'
  PROVE  Answers'
<1>1. ASSUME sync' = "orders", NEW e \in Positions PROVE Shows(shot[e], e)'
  <2>1. PICK v : v = shot[e]
    OBVIOUS
  <2>2. Shows(v, e)
    BY <1>1, <2>1 DEF Answers
  <2>3. Shows(v, e)' /\ shot'[e] = v
    BY <2>1, <2>2 DEF Entities
  <2> QED
    BY <2>3 DEF Shows
<1>2. ASSUME NEW s \in Snapshots', NEW e \in Entities PROVE Shows(s.says[e], e)'
  <2>1. Shows(s.says[e], e)
    BY DEF Answers
  <2> QED
    BY <2>1
<1> QED
  BY <1>1, <1>2 DEF Answers

\* what follows the first event of the queue: nothing, if it is a snapshot
LEMMA QueueTail ==
  ASSUME TypeOK, Rounds, queue # <<>>, NEW q \in Seq(Event), q = Tail(queue),
         NEW ev \in Event, ev = Head(queue)
  PROVE  /\ \A i \in DOMAIN q : q[i].rest => i = Len(q) /\ sync = "drain" /\ ~ev.rest
         /\ ev.rest => sync = "drain" /\ Sent(q) = {}
<1>1. PICK n \in Nat : n = Len(queue) /\ n >= 1
  BY LenProperties, EmptySeq DEF TypeOK
<1>2. /\ DOMAIN queue = 1..n /\ DOMAIN q = 1..(n - 1) /\ Len(q) = n - 1
      /\ \A i \in 1..(n - 1) : q[i] = queue[i + 1]
      /\ queue[1] = ev
  BY <1>1, HeadTailProperties, LenProperties DEF TypeOK
<1>3. ev.rest => 1 = n /\ sync = "drain"
  BY <1>1, <1>2 DEF Rounds
<1>4. ASSUME NEW i \in 1..(n - 1), q[i].rest
      PROVE  i = n - 1 /\ sync = "drain" /\ ~ev.rest
  <2>1. i + 1 \in DOMAIN queue /\ queue[i + 1].rest
    BY <1>1, <1>2, <1>4
  <2>2. i + 1 = n /\ sync = "drain"
    BY <1>1, <2>1 DEF Rounds
  <2> QED
    BY <1>1, <1>3, <2>2
<1>5. ASSUME ev.rest PROVE Sent(q) = {}
  <2>1. 1..(n - 1) = {}
    BY <1>1, <1>3, <1>5
  <2> QED
    BY <1>2, <2>1 DEF Sent
<1> QED
  BY <1>2, <1>3, <1>4, <1>5

LEMMA RecordSettles ==
  ASSUME TypeOK, TypeOK', SettledInv, Record
  PROVE  SettledInv'
<1>1. PICK ev \in Event : ev = Head(queue)
  BY EventSeqs DEF Record, TypeOK
<1>2. /\ phase = "run" /\ Idle /\ queue # <<>> /\ queue' = Tail(queue)
      /\ UNCHANGED <<truth, wire, up, phase, buffering, buffer, batch, sync, shot, mem,
                     ver, view, patched, stale, fresh, tally>>
  BY DEF Record, exchange, engine, ghosts
<1>3. Sent(queue) = {ev} \cup Sent(queue') /\ Coming' = Coming
  BY <1>1, <1>2, SentTail DEF TypeOK, Coming
<1>4. Hand = {} /\ Said = {} /\ job.step = "none"
  BY <1>2 DEF Hand, Said, Idle
<1>6. /\ \A i \in DOMAIN queue' : queue'[i].rest =>
           i = Len(queue') /\ sync = "drain" /\ ~ev.rest
      /\ ev.rest => sync = "drain" /\ Sent(queue') = {}
  <2>1. PICK q : q = queue'
    OBVIOUS
  <2>2. q \in Seq(Event) /\ q = Tail(queue)
    BY <1>2, <2>1 DEF TypeOK
  <2> QED
    BY <1>1, <1>2, <2>1, <2>2, QueueTail DEF SettledInv
<1>7. Booting'
  BY <1>2 DEF Booting
<1>8. CASE ev.rest
  <2>1. /\ recorded' = recorded /\ pending' = pending \cup {ev}
        /\ job' = [step |-> "apply", ev |-> ev]
    BY <1>1, <1>8 DEF Record, IsNew
  <2>2. /\ Hand' = {ev} /\ Said' = {} /\ Queued' = Queued /\ Told' = Told
        /\ Snapshots' = {} /\ ev \in Snapshots
    BY <1>2, <1>3, <1>6, <1>8, <2>1 DEF Hand, Said, Idle, Queued, Told, Snapshots, Coming
  <2>3. Numbered'
    <3>1. \A e : Last(e)' = Last(e) /\ Truth' = Truth
      BY <1>2 DEF Last, Truth
    <3>2. \A x : Sound(x) => Sound(x)'
      BY <1>2, <3>1 DEF Sound
    <3>3. Sound(ev)
      BY <1>8 DEF Sound
    <3> QED
      BY <1>2, <1>4, <2>1, <2>2, <3>1, <3>2, <3>3 DEF SettledInv, Numbered
  <2>4. ASSUME NEW e \in Entities \ stale' PROVE Right(e)'
    <3>1. Right(e) /\ Last(e)' = Last(e) /\ Truth' = Truth
      BY <1>2 DEF SettledInv, Last, Truth
    <3>2. Carried(e) => Carried(e)'
      BY <1>4, <2>1, <2>2, <3>1 DEF Carried
    <3>3. Settled(e) => Settled(e)'
      BY <1>2, <1>4, <2>1, <2>2, <3>1 DEF Settled
    <3> QED
      BY <3>1, <3>2, <3>3 DEF Right
  <2>5. Rounds'
    BY <1>2, <1>3, <1>6, <1>8, <2>1, <2>2 DEF SettledInv, Rounds, Idle
  <2>6. \A v : \A e \in Entities : Shows(v, e) => Shows(v, e)'
    <3>1. ASSUME NEW v, NEW e \in Entities, Shows(v, e) PROVE Shows(v, e)'
      BY <1>2, <1>3, <1>4, <2>1, <2>2, <3>1, ShowsKept DEF SettledInv
    <3> QED
      BY <3>1
  <2>7. ASSUME NEW e \in Entities PROVE Shows(job.ev.says[e], e)'
    <3>1. Shows(ev.says[e], e)
      BY <2>2 DEF SettledInv, Answers
    <3>2. PICK v : v = ev.says[e]
      OBVIOUS
    <3>3. Shows(v, e)'
      BY <2>6, <3>1, <3>2
    <3>4. job'.ev.says[e] = v
      BY <2>1, <3>2
    <3> QED
      BY <3>3, <3>4 DEF Shows
  <2>8. sync' # "orders"
    BY <1>2, <1>6, <1>8
  <2>9. job'.step = "apply"
    BY <2>1
  <2>10. Answers'
    BY <2>2, <2>7, <2>8, <2>9 DEF Answers
  <2> QED
    BY <1>7, <2>3, <2>4, <2>5, <2>10 DEF SettledInv
<1>9. CASE ~ev.rest /\ ev.no \notin recorded
  <2>1. /\ recorded' = recorded \cup {ev.no} /\ pending' = pending \cup {ev}
        /\ job' = [step |-> "apply", ev |-> ev]
    BY <1>1, <1>9 DEF Record, IsNew
  <2>2. /\ Hand' = {ev} /\ Said' = {ev} /\ Queued = Queued' \cup {ev}
        /\ Told = Told' \cup {ev} /\ Snapshots' = Snapshots
    BY <1>2, <1>3, <1>9, <2>1 DEF Hand, Said, Idle, Queued, Told, Snapshots, Coming
  <2>3. Sound(ev) /\ ev.no \in 1..tally.changes
    BY <1>9, <2>2 DEF SettledInv, Numbered, Sound
  <2>0. \A e : Last(e)' = Last(e) /\ Truth' = Truth
    BY <1>2 DEF Last, Truth
  <2>4. Numbered'
    <3>2. \A x : Sound(x) => Sound(x)'
      BY <1>2, <2>0 DEF Sound
    <3>3. \A n \in recorded' : n <= tally.changes
      BY <2>1, <2>3 DEF SettledInv, Numbered
    <3> QED
      BY <1>2, <2>0, <2>1, <2>2, <2>3, <3>2, <3>3 DEF SettledInv, Numbered
  <2>5. ASSUME NEW e \in Entities \ stale' PROVE Right(e)'
    <3>1. Right(e)
      BY <1>2 DEF SettledInv
    <3>2. CASE ev.no = Last(e)
      BY <2>0, <2>1, <2>2, <3>2 DEF Right, Carried
    <3>3. CASE ev.no # Last(e)
      <4>1. Carried(e) => Carried(e)'
        BY <1>4, <2>0, <2>1, <2>2, <3>3 DEF Carried
      <4>2. Settled(e) => Settled(e)'
        BY <1>2, <1>4, <1>9, <2>0, <2>1, <2>2 DEF Settled
      <4> QED
        BY <3>1, <4>1, <4>2 DEF Right
    <3> QED
      BY <3>2, <3>3
  <2>6. Rounds'
    BY <1>2, <1>3, <1>4, <1>6, <2>1, <2>2 DEF SettledInv, Rounds, Idle
  <2>7. \A v : \A e \in Entities : Shows(v, e) => Shows(v, e)'
    <3>1. ASSUME NEW v, NEW e \in Entities, Shows(v, e) PROVE Shows(v, e)'
      <4>1. Flying(e)' <=> Flying(e)
        BY <1>4, <2>2 DEF Flying
      <4>2. Late(e) => Late(e)'
        BY <1>3, <1>4, <2>0, <2>1, <2>2 DEF Late
      <4> QED
        BY <1>2, <2>0, <3>1, <4>1, <4>2 DEF Shows
    <3> QED
      BY <3>1
  <2>8. Answers'
    BY <1>2, <2>2, <2>7, AnswersVia DEF SettledInv
  <2> QED
    BY <1>7, <2>4, <2>5, <2>6, <2>8 DEF SettledInv
<1>10. CASE ~ev.rest /\ ev.no \in recorded
  <2>1. UNCHANGED <<recorded, pending, job>>
    BY <1>1, <1>10 DEF Record, IsNew
  <2>2. /\ Hand' = Hand /\ Said' = Said /\ Queued = Queued' \cup {ev}
        /\ Told = Told' \cup {ev} /\ Snapshots' = Snapshots
    BY <1>2, <1>3, <1>10, <2>1 DEF Hand, Said, Idle, Queued, Told, Snapshots, Coming
  <2>3. Numbered' /\ \A e \in Entities \ stale' : Right(e)'
    BY <1>2, <1>10, <2>1, <2>2, Passing
  <2>4. Rounds'
    BY <1>2, <1>3, <1>4, <1>6, <2>1, <2>2 DEF SettledInv, Rounds, Idle
  <2>5. Answers'
    BY <1>2, <1>3, <2>1, <2>2, AnswersKept
  <2> QED
    BY <1>7, <2>3, <2>4, <2>5 DEF SettledInv
<1> QED
  BY <1>8, <1>9, <1>10

LEMMA RecordFailsSettles ==
  ASSUME TypeOK, TypeOK', SettledInv, RecordFails
  PROVE  SettledInv'
<1>1. PICK ev \in Event : ev = Head(queue)
  BY EventSeqs DEF RecordFails, TypeOK
<1>2. /\ phase = "run" /\ Idle /\ queue # <<>> /\ queue' = Tail(queue)
      /\ UNCHANGED <<truth, wire, up, phase, buffering, buffer, batch, sync, shot, job,
                     mem, ver, view, patched, recorded, pending>>
      /\ tally'.changes = tally.changes
  BY FaultCount DEF RecordFails, exchange, engine, db
<1>3. Sent(queue) = {ev} \cup Sent(queue') /\ Coming' = Coming
  BY <1>1, <1>2, SentTail DEF TypeOK, Coming
<1>4. Hand = {} /\ Said = {} /\ Hand' = {} /\ Said' = {}
  BY <1>2 DEF Hand, Said, Idle
<1>6. /\ \A i \in DOMAIN queue' : queue'[i].rest =>
           i = Len(queue') /\ sync = "drain" /\ ~ev.rest
      /\ ev.rest => sync = "drain" /\ Sent(queue') = {}
  <2>1. PICK q : q = queue'
    OBVIOUS
  <2>2. q \in Seq(Event) /\ q = Tail(queue)
    BY <1>2, <2>1 DEF TypeOK
  <2> QED
    BY <1>1, <1>2, <2>1, <2>2, QueueTail DEF SettledInv
<1>7. Booting'
  BY <1>2 DEF Booting
<1>8. CASE ev.rest
  <2>1. fresh' = {} /\ stale' = stale
    BY <1>1, <1>8 DEF RecordFails
  <2>2. Queued' = Queued /\ Told' = Told /\ Snapshots' = {}
    BY <1>2, <1>3, <1>6, <1>8 DEF Queued, Told, Snapshots, Coming
  <2>3. Numbered' /\ \A e \in Entities \ stale' : Right(e)'
    BY <1>2, <2>1, <2>2, Passing
  <2>4. Rounds'
    BY <1>2, <1>3, <1>4, <1>6, <2>1 DEF SettledInv, Rounds, Idle
  <2>5. Answers'
    BY <1>2, <1>4, <1>6, <1>8, <2>2 DEF Answers
  <2> QED
    BY <1>7, <2>3, <2>4, <2>5 DEF SettledInv
<1>9. CASE ~ev.rest
  <2>1. stale' = stale \cup ev.about /\ fresh' = fresh \ ev.about
    BY <1>1, <1>9 DEF RecordFails, Lose
  <2>2. /\ Queued = Queued' \cup {ev} /\ Told = Told' \cup {ev} /\ Snapshots' = Snapshots
    BY <1>2, <1>3, <1>9 DEF Queued, Told, Snapshots, Coming
  <2>3. Numbered' /\ \A e \in Entities \ stale' : Right(e)'
    BY <1>2, <2>1, <2>2, Passing
  <2>4. Rounds'
    BY <1>2, <1>3, <1>4, <1>6, <2>1, <2>2 DEF SettledInv, Rounds, Idle
  <2>5. Answers'
    BY <1>2, <1>3, <2>1, <2>2, AnswersKept
  <2> QED
    BY <1>7, <2>3, <2>4, <2>5 DEF SettledInv
<1> QED
  BY <1>8, <1>9

\* what is in hand while a job goes on
LEMMA InHand ==
  ASSUME TypeOK, ~Idle
  PROVE  /\ Hand = {job.ev} /\ job.ev \in Event
         /\ IF job.ev.rest THEN Said = {} ELSE Said = Hand
BY DEF Hand, Said, TypeOK

LEMMA ApplyEventSettles ==
  ASSUME TypeOK, TypeOK', SettledInv, ApplyEvent
  PROVE  SettledInv'
<1>1. PICK ev \in Event : ev = job.ev
  BY DEF TypeOK
<1>2. /\ job.step = "apply" /\ ~ev.rest /\ job'.ev = ev /\ job'.step \in {"finish", "write"}
      /\ \A e \in Entities : mem'[e] = IF e \in Newer(ev) THEN ev.says[e] ELSE mem[e]
      /\ \A e \in Entities : ver'[e] = IF e \in Newer(ev) THEN ev.no ELSE ver[e]
      /\ UNCHANGED <<truth, wire, up, phase, buffering, buffer, batch, sync, shot, queue,
                     view, patched, recorded, pending, stale, fresh, tally>>
  BY <1>1 DEF ApplyEvent, exchange, engine, db, ghosts, TypeOK
<1>3. /\ Hand = {ev} /\ Said = {ev} /\ Hand' = {ev} /\ Said' = {ev} /\ ~Idle /\ ~Idle'
  BY <1>1, <1>2, InHand DEF Idle, Hand, Said
<1>4. Coming' = Coming /\ Queued' = Queued /\ Told' = Told /\ Snapshots' = Snapshots
  BY <1>2 DEF Coming, Queued, Told, Snapshots
<1>5. Sound(ev) /\ ev.no \in recorded /\ ev.no \in Nat /\ ver \in [Entities -> Nat]
      /\ \A e \in Entities : Last(e) \in Nat
  BY <1>2, <1>3 DEF SettledInv, Numbered, Rounds, Event, TypeOK, Shown, Last, State
<1>6. \A e \in Entities : Last(e)' = Last(e) /\ Truth'[e] = Truth[e]
  BY <1>2 DEF Last, Truth
<1>7. Numbered'
  <2>1. \A e \in Entities : ver'[e] <= Last(e)
    BY <1>2, <1>5 DEF SettledInv, Numbered, Newer, Sound
  <2>2. \A x : Sound(x) => Sound(x)'
    <3>1. ASSUME NEW x, Sound(x) PROVE Sound(x)'
      <4>1. Truth' = Truth /\ \A e : Last(e)' = Last(e)
        BY <1>2 DEF Truth, Last
      <4> QED
        BY <1>2, <3>1, <4>1 DEF Sound
    <3> QED
      BY <3>1
  <2> QED
    BY <1>2, <1>3, <1>4, <1>6, <2>1, <2>2 DEF SettledInv, Numbered
<1>8. ASSUME NEW e \in Entities \ stale' PROVE Right(e)'
  <2>1. Right(e)
    BY <1>2 DEF SettledInv
  <2>2. CASE e \in ev.about /\ ev.no = Last(e)
    <3>1. ver[e] <= ev.no
      BY <2>2 DEF SettledInv, Numbered
    <3>2. e \in Newer(ev)
      BY <1>5, <2>2, <3>1 DEF Newer
    <3>3. mem'[e] = Truth[e] /\ ver'[e] = Last(e)
      BY <1>2, <1>5, <2>2, <3>2 DEF Sound
    <3>4. ASSUME NEW x \in Told, e \in x.about
          PROVE  x.no < ver'[e] \/ x.no \in recorded
      <4>1. Sound(x) /\ ~x.rest /\ x.no \in Nat
        BY SetTypes DEF SettledInv, Numbered, Rounds, Told, Queued, Event
      <4>2. x.no <= Last(e)
        BY <3>4, <4>1 DEF Sound
      <4> QED
        BY <1>5, <2>2, <3>3, <4>1, <4>2
    <3>5. Settled(e)'
      BY <1>2, <1>3, <1>4, <1>6, <2>2, <3>3, <3>4 DEF Settled
    <3> QED
      BY <3>5 DEF Right
  <2>3. CASE ~(e \in ev.about /\ ev.no = Last(e))
    <3>1. ev.no # Last(e)
      BY <1>2, <1>5, <2>3 DEF Sound
    <3>2. CASE Carried(e)
      BY <1>2, <1>3, <1>4, <1>6, <3>1, <3>2 DEF Carried, Right
    <3>3. CASE Settled(e)
      <4>1. e \in ev.about => ev.no < ver[e]
        BY <1>2, <1>3, <3>3 DEF Settled
      <4>2. e \notin Newer(ev)
        <5>1. ver[e] \in Nat /\ ev.no \in Nat
          BY <1>5
        <5> QED
          BY <4>1, <5>1 DEF Newer
      <4>3. mem'[e] = mem[e] /\ ver'[e] = ver[e]
        BY <1>2, <4>2
      <4>4. Settled(e)'
        BY <1>2, <1>3, <1>4, <1>6, <3>3, <4>3 DEF Settled
      <4> QED
        BY <4>4 DEF Right
    <3> QED
      BY <2>1, <3>2, <3>3 DEF Right
  <2> QED
    BY <2>2, <2>3
<1>9. Rounds'
  BY <1>2, <1>3, <1>4 DEF SettledInv, Rounds
<1>10. Booting'
  BY <1>2, <1>3 DEF SettledInv, Booting
<1>11. \A v : \A e \in Entities : Shows(v, e) => Shows(v, e)'
  <2>1. ASSUME NEW v, NEW e \in Entities, Shows(v, e) PROVE Shows(v, e)'
    BY <1>2, <1>3, <1>4, <2>1, ShowsKept DEF SettledInv
  <2> QED
    BY <2>1
<1>12. Answers'
  BY <1>2, <1>3, <1>4, <1>11, AnswersVia DEF SettledInv
<1> QED
  BY <1>7, <1>8, <1>9, <1>10, <1>12 DEF SettledInv

LEMMA ApplySnapshotSettles ==
  ASSUME TypeOK, TypeOK', SettledInv, ApplySnapshot
  PROVE  SettledInv'
<1>1. PICK ev \in Event : ev = job.ev
  BY DEF TypeOK
<1>2. /\ job.step = "apply" /\ ev.rest /\ job'.ev = ev /\ job'.step = "clear"
      /\ mem' = ev.says
      /\ UNCHANGED <<truth, wire, up, phase, buffering, buffer, batch, sync, shot, queue,
                     ver, view, patched, recorded, pending, stale, fresh, tally>>
  BY <1>1 DEF ApplySnapshot, Replaced, exchange, engine, db, ghosts, TypeOK
<1>3. Hand = {ev} /\ Said = {} /\ Hand' = {ev} /\ Said' = {} /\ ~Idle /\ ~Idle'
  BY <1>1, <1>2, InHand DEF Idle, Hand, Said
<1>4. Coming' = Coming /\ Queued' = Queued /\ Told' = Told /\ Snapshots' = Snapshots
  BY <1>2 DEF Coming, Queued, Told, Snapshots
<1>5. Numbered'
  BY <1>2, <1>3, <1>4, NumberedKept DEF SettledInv
<1>6. \A e \in Entities : Last(e)' = Last(e) /\ Truth'[e] = Truth[e]
  BY <1>2 DEF Last, Truth
<1>7. ASSUME NEW e \in Entities \ stale' PROVE Right(e)'
  <2>1. phase = "run" /\ e \in Entities \ stale
    BY <1>2, <1>3 DEF SettledInv, Booting, TypeOK
  <2>2. Right(e) /\ Shows(ev.says[e], e)
    BY <1>1, <1>2, <1>3, <2>1 DEF SettledInv, Answers
  <2>3. Carried(e) => Carried(e)'
    BY <1>2, <1>3, <1>4, <1>6 DEF Carried
  <2>4. CASE ev.says[e] = Truth[e]
    <3>1. Settled(e) => Settled(e)'
      BY <1>2, <1>3, <1>4, <1>6, <2>4 DEF Settled
    <3> QED
      BY <2>2, <2>3, <3>1 DEF Right
  <2>5. CASE Late(e)
    <3>1. Carried(e)
      BY <2>5 DEF Late, Carried, Told
    <3> QED
      BY <2>3, <3>1 DEF Right
  <2> QED
    BY <2>1, <2>2, <2>4, <2>5 DEF Shows
<1>8. Rounds'
  BY <1>2, <1>3, <1>4 DEF SettledInv, Rounds
<1>9. Booting'
  BY <1>2, <1>3 DEF SettledInv, Booting
<1>10. \A v : \A e \in Entities : Shows(v, e) => Shows(v, e)'
  <2>1. ASSUME NEW v, NEW e \in Entities, Shows(v, e) PROVE Shows(v, e)'
    BY <1>2, <1>3, <1>4, <2>1, ShowsKept DEF SettledInv
  <2> QED
    BY <2>1
<1>11. Answers'
  <2>1. ASSUME phase' = "run", NEW e \in Entities PROVE Shows(mem[e], e)'
    <3>1. Shows(ev.says[e], e)
      BY <1>1, <1>2, <1>3, <2>1 DEF SettledInv, Answers
    <3>2. PICK v : v = ev.says[e]
      OBVIOUS
    <3>3. Shows(v, e)' /\ mem'[e] = v
      BY <1>2, <1>10, <3>1, <3>2
    <3> QED
      BY <3>3 DEF Shows
  <2>2. job'.step # "apply"
    BY <1>2
  <2>3. phase' = "run" => \A e \in Entities :
           Shows(IF job.step = "apply" THEN job.ev.says[e] ELSE mem[e], e)'
    BY <2>1, <2>2 DEF Shows
  <2> QED
    BY <1>2, <1>4, <1>10, <2>3, AnswersVia DEF SettledInv
<1> QED
  BY <1>5, <1>7, <1>8, <1>9, <1>11 DEF SettledInv

\* the tables are written: the memory has what it had
LEMMA TablesSettle ==
  ASSUME TypeOK, TypeOK', SettledInv, ClearTables \/ WriteTables
  PROVE  SettledInv'
<1>1. /\ job.step \in {"clear", "write"} /\ job'.ev = job.ev
      /\ job'.step \in {"write", "finish"}
      /\ UNCHANGED <<truth, wire, up, phase, buffering, buffer, batch, sync, shot, queue,
                     mem, ver, view, patched, recorded, pending, stale, fresh, tally>>
  BY DEF ClearTables, WriteTables, exchange, engine, ghosts, TypeOK
<1>2. Hand' = Hand /\ Said' = Said /\ ~Idle /\ ~Idle'
  BY <1>1 DEF Idle, Hand, Said
<1>3. Coming' = Coming /\ Queued' = Queued /\ Told' = Told /\ Snapshots' = Snapshots
  BY <1>1 DEF Coming, Queued, Told, Snapshots
<1>4. Numbered'
  BY <1>1, <1>2, <1>3, NumberedKept DEF SettledInv
<1>5. \A e \in Entities : Last(e)' = Last(e) /\ Truth'[e] = Truth[e]
  BY <1>1 DEF Last, Truth
<1>6. ASSUME NEW e \in Entities \ stale' PROVE Right(e)'
  <2>1. Right(e)
    BY <1>1 DEF SettledInv
  <2>2. Carried(e) => Carried(e)'
    BY <1>1, <1>2, <1>3, <1>5 DEF Carried
  <2>3. Settled(e) => Settled(e)'
    BY <1>1, <1>2, <1>3, <1>5 DEF Settled
  <2> QED
    BY <2>1, <2>2, <2>3 DEF Right
<1>7. Rounds'
  BY <1>1, <1>2, <1>3 DEF SettledInv, Rounds
<1>8. Booting'
  BY <1>1, <1>2 DEF SettledInv, Booting
<1>9. \A v : \A e \in Entities : Shows(v, e) => Shows(v, e)'
  <2>1. ASSUME NEW v, NEW e \in Entities, Shows(v, e) PROVE Shows(v, e)'
    BY <1>1, <1>2, <1>3, <2>1, ShowsKept DEF SettledInv
  <2> QED
    BY <2>1
<1>10. Answers'
  <2>1. ASSUME phase' = "run" /\ Hand' # Said', NEW e \in Entities PROVE Shows(mem[e], e)'
    <3>1. Shows(mem[e], e)
      BY <1>1, <1>2, <2>1 DEF SettledInv, Answers
    <3>2. PICK v : v = mem[e]
      OBVIOUS
    <3>3. Shows(v, e)' /\ mem'[e] = v
      BY <1>1, <1>9, <3>1, <3>2
    <3> QED
      BY <3>3 DEF Shows
  <2>2. job'.step # "apply"
    BY <1>1
  <2>3. phase' = "run" /\ Hand' # Said' => \A e \in Entities :
           Shows(IF job.step = "apply" THEN job.ev.says[e] ELSE mem[e], e)'
    BY <2>1, <2>2 DEF Shows
  <2> QED
    BY <1>1, <1>3, <1>9, <2>3, AnswersVia DEF SettledInv
<1> QED
  BY <1>4, <1>6, <1>7, <1>8, <1>10 DEF SettledInv

\* with no snapshot on its way there is nothing to show
LEMMA AnswersNone ==
  ASSUME sync' # "orders", Snapshots' = {}, Hand' = Said'
  PROVE  Answers'
BY DEF Answers

LEMMA FinishSettles ==
  ASSUME TypeOK, TypeOK', SettledInv, Finish
  PROVE  SettledInv'
<1>1. PICK ev \in Event : ev = job.ev
  BY DEF TypeOK
<1>2. /\ job.step = "finish" /\ job' = NoJob /\ view' = mem
      /\ pending' \subseteq pending
      /\ UNCHANGED <<truth, wire, up, phase, buffering, buffer, batch, sync, shot, queue,
                     mem, ver, recorded, tally>>
  BY <1>1 DEF Finish, exchange, engine
<1>3. Hand = {ev} /\ Hand' = {} /\ Said' = {} /\ ~Idle /\ Idle'
      /\ IF ev.rest THEN Said = {} ELSE Said = {ev}
  BY <1>1, <1>2, InHand DEF Idle, Hand, Said, NoJob
<1>4. Coming' = Coming /\ Queued' = Queued /\ Told' = Told /\ Snapshots' = Snapshots
  BY <1>2 DEF Coming, Queued, Told, Snapshots
<1>5. Numbered'
  BY <1>2, <1>3, <1>4, NumberedKept DEF SettledInv
<1>6. \A e \in Entities : Last(e)' = Last(e) /\ Truth'[e] = Truth[e]
  BY <1>2 DEF Last, Truth
<1>7. ASSUME NEW e \in Entities, Right(e) PROVE Right(e)'
  <2>1. Carried(e) => Carried(e)'
    BY <1>2, <1>4, <1>6 DEF Carried
  <2>2. Settled(e) => Settled(e)'
    BY <1>2, <1>3, <1>4, <1>6 DEF Settled, NoJob
  <2> QED
    BY <1>7, <2>1, <2>2 DEF Right
<1>8. CASE ev.rest /\ phase = "run"
  <2>1. stale' = stale \ fresh /\ fresh' = {}
    BY <1>1, <1>8 DEF Finish
  <2>2. sync = "drain" /\ Snapshots = {}
    BY <1>3, <1>8 DEF SettledInv, Rounds, Snapshots, Sent
  <2>3. ASSUME NEW e \in Entities \ stale' PROVE Right(e)'
    <3>1. CASE e \notin stale
      BY <1>7, <3>1 DEF SettledInv
    <3>2. CASE e \in stale
      <4>1. e \in fresh
        BY <2>1, <3>2
      <4>2. Shows(mem[e], e)
        BY <1>2, <1>3, <1>8 DEF SettledInv, Answers
      <4>3. CASE mem[e] = Truth[e] /\ ~Flying(e)
        <5>1. Settled(e)'
          BY <1>2, <1>3, <1>4, <1>6, <4>3 DEF Settled, Flying
        <5> QED
          BY <5>1 DEF Right
      <4>4. CASE Late(e)
        <5>1. Carried(e)
          BY <4>4 DEF Late, Carried, Told
        <5> QED
          BY <1>7, <5>1 DEF Right
      <4> QED
        BY <4>1, <4>2, <4>3, <4>4 DEF Shows
    <3> QED
      BY <3>1, <3>2
  <2>4. Rounds'
    BY <1>2, <1>3, <1>4, <2>1, <2>2 DEF SettledInv, Rounds
  <2>5. Booting'
    BY <1>2, <1>8 DEF Booting
  <2>6. Answers'
    BY <1>2, <1>3, <1>4, <2>2, AnswersNone
  <2> QED
    BY <1>5, <2>3, <2>4, <2>5, <2>6 DEF SettledInv
<1>9. CASE ~(ev.rest /\ phase = "run")
  <2>1. UNCHANGED <<stale, fresh>>
    BY <1>1, <1>9 DEF Finish, ghosts
  <2>2. \A e \in Entities \ stale' : Right(e)'
    BY <1>7, <2>1 DEF SettledInv
  <2>3. Rounds'
    BY <1>2, <1>3, <1>4, <1>9, <2>1 DEF SettledInv, Rounds, Booting, TypeOK
  <2>4. Booting'
    BY <1>2, <1>3, <2>1 DEF SettledInv, Booting
  <2>5. \A v : \A e \in Entities : Shows(v, e) => Shows(v, e)'
    <3>1. ASSUME NEW v, NEW e \in Entities, Shows(v, e) PROVE Shows(v, e)'
      BY <1>2, <1>3, <1>4, <2>1, <3>1, ShowsKept DEF SettledInv
    <3> QED
      BY <3>1
  <2>6. Answers'
    BY <1>2, <1>3, <1>4, <2>5, AnswersVia DEF SettledInv
  <2> QED
    BY <1>5, <2>2, <2>3, <2>4, <2>6 DEF SettledInv
<1> QED
  BY <1>8, <1>9

LEMMA JobFailsSettles ==
  ASSUME TypeOK, TypeOK', SettledInv, JobFails
  PROVE  SettledInv'
<1>1. PICK ev \in Event : ev = job.ev
  BY DEF TypeOK
<1>2. /\ job.step \in {"apply", "clear", "write"} /\ job' = NoJob
      /\ pending' \subseteq pending
      /\ UNCHANGED <<truth, wire, up, phase, buffering, buffer, batch, sync, shot, queue,
                     ver, view, patched, recorded>>
      /\ tally'.changes = tally.changes
  BY <1>1, FaultCount DEF JobFails, Failed, exchange, engine
<1>3. Hand = {ev} /\ Hand' = {} /\ Said' = {} /\ ~Idle /\ Idle'
      /\ IF ev.rest THEN Said = {} ELSE Said = {ev}
  BY <1>1, <1>2, InHand DEF Idle, Hand, Said, NoJob
<1>4. Coming' = Coming /\ Queued' = Queued /\ Told' = Told /\ Snapshots' = Snapshots
  BY <1>2 DEF Coming, Queued, Told, Snapshots
<1>5. Numbered'
  BY <1>2, <1>3, <1>4, NumberedKept DEF SettledInv
<1>6. \A e \in Entities : Last(e)' = Last(e) /\ Truth'[e] = Truth[e]
  BY <1>2 DEF Last, Truth
<1>7. CASE ev.rest
  <2>1. stale' = stale /\ fresh' = {}
    BY <1>1, <1>7 DEF JobFails
  <2>2. \A e \in Entities : \/ mem'[e] = mem[e]
                            \/ job.step = "apply" /\ mem'[e] = ev.says[e]
    BY <1>1, <1>7 DEF JobFails
  <2>3. ASSUME NEW e \in Entities \ stale' PROVE Right(e)'
    <3>1. phase = "run" /\ e \in Entities \ stale
      BY <1>3, <2>1 DEF SettledInv, Booting, TypeOK
    <3>2. Right(e) /\ (job.step = "apply" => Shows(ev.says[e], e))
      BY <1>1, <1>3, <1>7, <3>1 DEF SettledInv, Answers
    <3>3. Carried(e) => Carried(e)'
      BY <1>2, <1>3, <1>4, <1>6, <1>7 DEF Carried
    <3>4. CASE Late(e)
      <4>1. Carried(e)
        BY <3>4 DEF Late, Carried, Told
      <4> QED
        BY <3>3, <4>1 DEF Right
    <3>5. CASE mem'[e] = mem[e] \/ mem'[e] = Truth[e]
      <4>1. Settled(e) => Settled(e)'
        BY <1>2, <1>3, <1>4, <1>6, <1>7, <3>5 DEF Settled, NoJob
      <4> QED
        BY <3>2, <3>3, <4>1 DEF Right
    <3> QED
      BY <2>2, <3>1, <3>2, <3>4, <3>5 DEF Shows
  <2>4. \A i \in DOMAIN queue : ~queue[i].rest
    BY <1>3, <1>7 DEF SettledInv, Rounds
  <2>5. Rounds'
    BY <1>2, <1>3, <1>4, <2>1, <2>4 DEF SettledInv, Rounds
  <2>6. Booting'
    BY <1>2, <1>3, <2>1 DEF SettledInv, Booting
  <2>7. Answers'
    <3>1. sync # "orders"
      BY <1>3, <1>7 DEF SettledInv, Rounds, Booting, TypeOK
    <3>2. Snapshots' = {}
      BY <1>4, <2>4 DEF Snapshots, Sent
    <3> QED
      BY <1>2, <1>3, <3>1, <3>2, AnswersNone
  <2> QED
    BY <1>5, <2>3, <2>5, <2>6, <2>7 DEF SettledInv
<1>8. CASE ~ev.rest
  <2>1. stale' = stale \cup ev.about /\ fresh' = fresh \ ev.about /\ mem' = mem
    BY <1>1, <1>8 DEF JobFails, Lose
  <2>2. ASSUME NEW e \in Entities \ stale' PROVE Right(e)'
    <3>1. Right(e) /\ e \notin ev.about
      BY <2>1 DEF SettledInv
    <3>2. ev.no # Last(e)
      BY <1>3, <1>8, <3>1 DEF SettledInv, Numbered, Sound
    <3>3. Carried(e) => Carried(e)'
      BY <1>2, <1>3, <1>4, <1>6, <1>8, <3>2 DEF Carried
    <3>4. Settled(e) => Settled(e)'
      BY <1>2, <1>3, <1>4, <1>6, <1>8, <2>1, <3>1 DEF Settled, NoJob
    <3> QED
      BY <3>1, <3>3, <3>4 DEF Right
  <2>3. Rounds'
    BY <1>2, <1>3, <1>4, <1>8, <2>1 DEF SettledInv, Rounds
  <2>4. Booting'
    BY <1>2, <1>3, <2>1, SetTypes DEF SettledInv, Booting, Event
  <2>5. \A v : \A e \in Entities : Shows(v, e) => Shows(v, e)'
    <3>1. ASSUME NEW v, NEW e \in Entities, Shows(v, e) PROVE Shows(v, e)'
      BY <1>2, <1>3, <1>4, <2>1, <3>1, ShowsKept DEF SettledInv
    <3> QED
      BY <3>1
  <2>6. Answers'
    BY <1>2, <1>3, <1>4, <2>5, AnswersVia DEF SettledInv
  <2> QED
    BY <1>5, <2>2, <2>3, <2>4, <2>6 DEF SettledInv
<1> QED
  BY <1>7, <1>8

LEMMA CrashSettles ==
  ASSUME TypeOK, TypeOK', SettledInv, Crash
  PROVE  SettledInv'
<1>1. /\ up' = FALSE /\ wire' = <<>> /\ phase' = "boot" /\ buffering' = TRUE
      /\ buffer' = <<>> /\ sync' = "idle" /\ batch' = <<>> /\ queue' = <<>>
      /\ job' = NoJob /\ ver' = Nothing /\ stale' = Entities /\ fresh' = {}
      /\ UNCHANGED <<truth, recorded, pending>> /\ tally'.changes = tally.changes
  BY FaultCount DEF Crash, db
<1>2. Sent(wire') = {} /\ Sent(buffer') = {} /\ Sent(batch') = {} /\ Sent(queue') = {}
  BY <1>1, SentEmpty
<1>3. Coming' = {} /\ Queued' = {} /\ Told' = {} /\ Hand' = {} /\ Said' = {} /\ Idle'
  BY <1>1, <1>2 DEF Coming, Queued, Told, Hand, Said, Idle, NoJob
<1>4. Numbered'
  <2>1. \A e : Last(e)' = Last(e) /\ Truth' = Truth
    BY <1>1 DEF Last, Truth
  <2>2. \A x : Sound(x) => Sound(x)'
    BY <1>1, <2>1 DEF Sound
  <2>3. \A e \in Entities : ver'[e] <= Last(e)
    BY <1>1 DEF Nothing, Last, TypeOK, State
  <2> QED
    BY <1>1, <1>3, <2>1, <2>2, <2>3 DEF SettledInv, Numbered
<1>5. Rounds'
  BY <1>1, <1>2, <1>3 DEF SettledInv, Rounds, Coming
<1>6. Booting'
  BY <1>1 DEF Booting
<1>7. Answers'
  BY <1>1, <1>5, NoAnswers
<1> QED
  BY <1>1, <1>4, <1>5, <1>6, <1>7 DEF SettledInv

LEMMA BootSettles ==
  ASSUME TypeOK, TypeOK', SettledInv, Boot
  PROVE  SettledInv'
<1>1. /\ phase = "boot" /\ Idle
      /\ UNCHANGED <<truth, wire, up, buffering, buffer, sync, shot, batch, queue, mem,
                     ver, view, patched, recorded, pending, stale, fresh, tally>>
  BY DEF Boot, ReplayInbox, Started, exchange, engine, account, db, ghosts
<1>2. Coming' = Coming /\ Queued' = Queued /\ Told' = Told /\ Snapshots' = Snapshots
  BY <1>1 DEF Coming, Queued, Told, Snapshots
<1>3. /\ ~up /\ wire = <<>> /\ buffer = <<>> /\ batch = <<>> /\ queue = <<>>
      /\ sync = "idle" /\ fresh = {} /\ (pending # {} => stale = Entities)
  BY <1>1 DEF SettledInv, Booting
<1>4. CASE ReplayInbox
  <2>1. PICK ev \in pending : job' = [step |-> "apply", ev |-> ev]
    BY <1>4 DEF ReplayInbox
  <2>2. Hand' = {ev} /\ ~Idle' /\ Said' \subseteq {ev} /\ phase' = phase
    BY <1>4, <2>1 DEF Hand, Idle, Said, ReplayInbox, engine
  <2>3. Numbered'
    BY <1>1, <1>2, <2>2, NumberedKept DEF SettledInv
  <2>4. Rounds'
    BY <1>1, <1>2, <1>3, <2>2 DEF SettledInv, Rounds
  <2>5. Booting'
    BY <1>1, <1>3, <2>2 DEF Booting
  <2>6. Answers'
    BY <1>1, <1>3, <2>4, NoAnswers
  <2> QED
    BY <1>1, <1>3, <2>3, <2>4, <2>5, <2>6 DEF SettledInv
<1>5. CASE Started
  <2>1. phase' = "run" /\ pending = {} /\ job' = job
    BY <1>5 DEF Started, account
  <2>2. Hand' = Hand /\ Said' = Said /\ Hand = {} /\ Said = {} /\ (Idle' <=> Idle)
    BY <1>1, <2>1 DEF Hand, Idle, Said
  <2>3. Numbered' /\ \A e \in Entities \ stale' : Right(e)'
    BY <1>1, <1>2, <2>1, Passing
  <2>4. Rounds'
    BY <1>1, <1>2, <1>3, <2>1, <2>2 DEF SettledInv, Rounds
  <2>5. Booting'
    BY <2>1 DEF Booting
  <2>6. Answers'
    BY <1>1, <1>3, <2>4, NoAnswers
  <2> QED
    BY <2>3, <2>4, <2>5, <2>6 DEF SettledInv
<1> QED
  BY <1>4, <1>5 DEF Boot

\* a change at the exchange: its event is on its way, or it is lost
LEMMA ChangeSettles ==
  ASSUME TypeOK, TypeOK', SettledInv, NEW c \in Entities, NEW open \in BOOLEAN,
         Change(c, open)
  PROVE  SettledInv'
<1>1. PICK now \in Nat, ev \in Event :
        /\ now = tally.changes + 1
        /\ ev.no = now /\ ~ev.rest /\ ev.about = {c}
        /\ ev.says[c] = IF open THEN now ELSE 0
        /\ IF up THEN wire' = Append(wire, ev) /\ UNCHANGED <<stale, fresh>>
                 ELSE wire' = wire /\ stale' = stale \cup {c} /\ fresh' = fresh \ {c}
  <2> DEFINE now == tally.changes + 1
             ev  == [no |-> now, rest |-> FALSE, about |-> {c},
                     says |-> [Nothing EXCEPT ![c] = IF open THEN now ELSE 0]]
  <2>1. now \in Nat
    BY DEF TypeOK, Tallied
  <2>2. ev.says \in Shown
    BY <2>1, EmptyTypes DEF Shown
  <2>3. ev \in Event
    BY <2>1, <2>2 DEF Event
  <2>4. ev.says[c] = IF open THEN now ELSE 0
    BY DEF Nothing
  <2>5. IF up THEN wire' = Append(wire, ev) /\ UNCHANGED <<stale, fresh>>
              ELSE wire' = wire /\ stale' = stale \cup {c} /\ fresh' = fresh \ {c}
    BY DEF Change, Lose
  <2>6. ev.no = now /\ ~ev.rest /\ ev.about = {c}
    OBVIOUS
  <2> HIDE DEF ev, now
  <2>7. now = tally.changes + 1
    BY DEF now
  <2> QED
    BY <2>1, <2>3, <2>4, <2>5, <2>6, <2>7
<1>2. /\ truth' = [truth EXCEPT ![c] = [ts |-> now, open |-> open]]
      /\ tally'.changes = now
      /\ UNCHANGED <<up, phase, buffering, buffer, sync, shot, batch, queue, job, mem,
                     ver, view, patched, recorded, pending>>
  <2>1. tally' = [tally EXCEPT !["changes"] = @ + 1] /\ tally \in [Tallied -> Nat]
    BY DEF Change, Count, TypeOK
  <2>2. tally'.changes = tally.changes + 1
    BY <2>1 DEF Tallied
  <2> QED
    BY <1>1, <2>2 DEF Change, engine, account, db
<1>3. /\ Last(c)' = now /\ Truth'[c] = ev.says[c]
      /\ \A e \in Entities : e # c => Last(e)' = Last(e) /\ Truth'[e] = Truth[e]
  BY <1>1, <1>2 DEF Last, Truth, Visible, TypeOK, State
<1>4. /\ Queued' = Queued /\ Hand' = Hand /\ Said' = Said /\ Snapshots' = Snapshots
      /\ IF up THEN Coming' = Coming \cup {ev} /\ Told' = Told \cup {ev}
               ELSE Coming' = Coming /\ Told' = Told
  <2>1. up => Sent(wire') = Sent(wire) \cup {ev}
    BY <1>1, SentAppend DEF TypeOK
  <2> QED
    BY <1>1, <1>2, <2>1 DEF Coming, Queued, Told, Hand, Said, Idle, Snapshots
<1>5. /\ tally.changes \in Nat /\ \A e \in Entities : Last(e) \in Nat
      /\ \A x \in Told \cup Said : x.no \in Nat /\ x.no <= tally.changes
      /\ \A n \in recorded : n \in Nat /\ n <= tally.changes
  <2>1. tally.changes \in Nat /\ \A e \in Entities : Last(e) \in Nat
    BY DEF TypeOK, Tallied, Last, State
  <2>2. \A x \in Told \cup Said : ~x.rest /\ Sound(x)
    BY DEF SettledInv, Numbered, Rounds, Told, Queued, Said
  <2>3. \A x \in Told \cup Said : x.no \in 1..tally.changes
    BY <2>2 DEF Sound
  <2>4. \A n \in recorded : n \in Nat /\ n <= tally.changes
    BY DEF SettledInv, Numbered, TypeOK
  <2> QED
    BY <2>1, <2>3, <2>4
<1>6. Numbered'
  <2>1. \A e \in Entities : Last(e)' <= now /\ ver[e] <= Last(e)'
    <3>1. ASSUME NEW e \in Entities PROVE Last(e)' <= now /\ ver[e] <= Last(e)'
      <4>1. Last(e) <= tally.changes /\ ver[e] <= Last(e) /\ ver[e] \in Nat /\ Last(e) \in Nat
        BY <1>5 DEF SettledInv, Numbered, TypeOK, Shown
      <4>2. CASE e = c
        <5>1. ver[e] <= now
          BY <1>1, <1>5, <4>1
        <5> QED
          BY <1>1, <1>3, <4>2, <5>1
      <4>3. CASE e # c
        <5>1. Last(e) <= now
          BY <1>1, <1>5, <4>1
        <5> QED
          BY <1>3, <4>1, <4>3, <5>1
      <4> QED
        BY <4>2, <4>3
    <3> QED
      BY <3>1
  <2>2. ASSUME NEW x \in Told \cup Hand \cup pending PROVE Sound(x)'
    <3>1. Sound(x)
      BY DEF SettledInv, Numbered
    <3>2. CASE x.rest
      BY <3>2 DEF Sound
    <3>3. CASE ~x.rest
      <4>1. x.no \in 1..now /\ x.no # now
        BY <1>1, <1>5, <3>1, <3>3 DEF Sound
      <4>2. \A e \in x.about : x.no <= Last(e)'
        <5>1. x.about \subseteq Entities
          BY SetTypes DEF TypeOK, Event
        <5>2. ASSUME NEW e \in x.about PROVE x.no <= Last(e)'
          <6>1. CASE e = c
            BY <1>1, <1>3, <4>1, <6>1
          <6>2. CASE e # c
            BY <1>3, <3>1, <3>3, <5>1, <6>2 DEF Sound
          <6> QED
            BY <6>1, <6>2
        <5> QED
          BY <5>2
      <4>3. \A e \in Entities : Last(e)' = x.no => e \in x.about /\ x.says[e] = Truth'[e]
        BY <1>3, <3>1, <3>3, <4>1 DEF Sound
      <4> QED
        BY <1>2, <4>1, <4>2, <4>3 DEF Sound
    <3> QED
      BY <3>2, <3>3
  <2>3. Sound(ev)'
    <3>1. \A e \in Entities : Last(e)' = now => e = c
      <4>1. \A e \in Entities : Last(e) # now
        BY <1>1, <1>5 DEF SettledInv, Numbered
      <4> QED
        BY <1>3, <4>1
    <3>2. now \in 1..now
      BY <1>1, <1>5
    <3> QED
      BY <1>1, <1>2, <1>3, <3>1, <3>2 DEF Sound
  <2>4. \A n \in recorded : n <= now
    BY <1>1, <1>5
  <2>5. Told' \cup Hand' \cup pending' \subseteq Told \cup Hand \cup pending \cup {ev}
    BY <1>2, <1>4
  <2> QED
    BY <1>2, <2>1, <2>2, <2>3, <2>4, <2>5 DEF Numbered
<1>7. /\ now \notin recorded
      /\ \A x \in Told \cup Said : x.no # now
  BY <1>1, <1>5
<1>8. ASSUME NEW e \in Entities \ stale' PROVE Right(e)'
  <2>1. CASE e = c
    <3>1. up /\ ev \in Told'
      BY <1>1, <1>4, <2>1
    <3>2. Carried(e)'
      BY <1>1, <1>2, <1>3, <1>7, <2>1, <3>1 DEF Carried
    <3> QED
      BY <3>2 DEF Right
  <2>2. CASE e # c
    <3>1. Right(e)
      BY <1>1, <2>2 DEF SettledInv
    <3>2. Carried(e) => Carried(e)'
      BY <1>2, <1>3, <1>4, <2>2 DEF Carried
    <3>3. Settled(e) => Settled(e)'
      BY <1>1, <1>2, <1>3, <1>4, <2>2 DEF Settled
    <3> QED
      BY <3>1, <3>2, <3>3 DEF Right
  <2> QED
    BY <2>1, <2>2
<1>9. Rounds'
  <2>1. \A x \in Coming' \cup Sent(batch') : ~x.rest
    BY <1>1, <1>2, <1>4 DEF SettledInv, Rounds
  <2>2. (Idle' <=> Idle) /\ fresh' \subseteq fresh
    BY <1>1, <1>2 DEF Idle
  <2> QED
    BY <1>2, <1>4, <2>1, <2>2 DEF SettledInv, Rounds
<1>10. Booting'
  <2>1. phase = "boot" => wire' = wire /\ stale \subseteq stale' /\ fresh' \subseteq fresh
    BY <1>1 DEF SettledInv, Booting
  <2>2. (Idle' <=> Idle) /\ stale' \subseteq Entities
    BY <1>2 DEF Idle, TypeOK
  <2> QED
    BY <1>2, <2>1, <2>2 DEF SettledInv, Booting
<1>11. \A v : \A e \in Entities : Shows(v, e) => Shows(v, e)'
  <2>1. ASSUME NEW v, NEW e \in Entities, Shows(v, e) PROVE Shows(v, e)'
    <3>1. CASE e = c
      <4>1. CASE up
        <5>1. Late(e)'
          BY <1>1, <1>2, <1>3, <1>4, <1>7, <3>1, <4>1 DEF Late, Told
        <5> QED
          BY <5>1 DEF Shows
      <4>2. CASE ~up
        <5>1. e \in stale' /\ e \notin fresh'
          BY <1>1, <3>1, <4>2
        <5> QED
          BY <5>1 DEF Shows
      <4> QED
        BY <4>1, <4>2
    <3>2. CASE e # c
      <4>1. Flying(e)' <=> Flying(e)
        BY <1>1, <1>4, <3>2 DEF Flying
      <4>2. Late(e) => Late(e)'
        BY <1>2, <1>3, <1>4, <3>2 DEF Late
      <4>3. (e \in stale' <=> e \in stale) /\ (e \in fresh' <=> e \in fresh)
        BY <1>1, <3>2
      <4> QED
        BY <1>3, <2>1, <3>2, <4>1, <4>2, <4>3 DEF Shows
    <3> QED
      BY <3>1, <3>2
  <2> QED
    BY <2>1
<1>12. Answers'
  <2>1. ASSUME phase' = "run" /\ Hand' # Said', NEW e \in Entities
        PROVE  Shows(IF job.step = "apply" THEN job.ev.says[e] ELSE mem[e], e)'
    <3>1. PICK v : v = IF job.step = "apply" THEN job.ev.says[e] ELSE mem[e]
      OBVIOUS
    <3>2. Shows(v, e)
      BY <1>2, <1>4, <2>1, <3>1 DEF SettledInv, Answers
    <3>3. Shows(v, e)' /\ v = IF job'.step = "apply" THEN job'.ev.says[e] ELSE mem'[e]
      BY <1>2, <1>11, <3>1, <3>2
    <3> QED
      BY <3>3 DEF Shows
  <2> QED
    BY <1>2, <1>4, <1>11, <2>1, AnswersVia DEF SettledInv
<1> QED
  BY <1>6, <1>8, <1>9, <1>10, <1>12 DEF SettledInv

\* a write of the engine past the queue is accounted for, and touches nothing else
LEMMA WritesSettle ==
  ASSUME TypeOK, TypeOK', SettledInv, NEW S \in SUBSET Positions, EngineWrites(S)
  PROVE  SettledInv'
<1>1. /\ phase = "run" /\ tally'.changes = tally.changes /\ patched' = patched \cup S
      /\ UNCHANGED <<truth, wire, up, phase, buffering, buffer, sync, shot, batch, queue,
                     job, mem, ver, recorded, pending, stale, fresh>>
  BY DEF EngineWrites, exchange, engine, db, ghosts, Count, TypeOK, Tallied
<1>2. \A e \in Entities \ S : view'[e] = view[e]
  BY DEF EngineWrites
<1>3. Coming' = Coming /\ Queued' = Queued /\ Hand' = Hand /\ Said' = Said
      /\ Snapshots' = Snapshots /\ Told' = Told
  BY <1>1 DEF Coming, Queued, Told, Hand, Said, Snapshots, Idle
<1>4. \A e \in Entities : Last(e)' = Last(e) /\ Truth'[e] = Truth[e]
  BY <1>1 DEF Last, Truth
<1>5. Numbered'
  BY <1>1, <1>3, NumberedKept DEF SettledInv
<1>6. ASSUME NEW e \in Entities \ stale' PROVE Right(e)'
  <2>1. Right(e)
    BY <1>1 DEF SettledInv
  <2>2. Carried(e) => Carried(e)'
    BY <1>1, <1>3, <1>4 DEF Carried
  <2>3. Settled(e) => Settled(e)'
    BY <1>1, <1>2, <1>3, <1>4 DEF Settled
  <2> QED
    BY <2>1, <2>2, <2>3 DEF Right
<1>7. Rounds'
  BY <1>1, <1>3 DEF SettledInv, Rounds, Idle
<1>8. Booting'
  BY <1>1 DEF Booting
<1>9. Answers'
  BY <1>1, <1>3, AnswersKept
<1> QED
  BY <1>5, <1>6, <1>7, <1>8, <1>9 DEF SettledInv

LEMMA SettledStep == TypeOK /\ TypeOK' /\ SettledInv /\ [Next]_vars => SettledInv'
<1> SUFFICES ASSUME TypeOK, TypeOK', SettledInv, [Next]_vars PROVE SettledInv'
  OBVIOUS
<1>1. CASE Exchange \/ Connect \/ Stream
  BY <1>1, ChangeSettles, ConnectSettles, ReceivedSettles, ReceiveSettles
     DEF Exchange, Stream
<1>2. CASE Resync
  BY <1>2, RoundSettles, FetchPositionsSettles, FetchOrdersSettles, ReplaySettles
     DEF Resync
<1>3. CASE Account \/ Boot
  BY <1>3, RecordSettles, ApplyEventSettles, ApplySnapshotSettles, TablesSettle,
     FinishSettles, BootSettles DEF Account
<1>4. CASE Faults
  BY <1>4, DropSettles, RoundSettles, ReplaySettles, RecordFailsSettles,
     JobFailsSettles, CrashSettles, ReceiveSettles DEF Faults
<1>5. CASE Writes
  BY <1>5, WritesSettle DEF Writes
<1>6. CASE UNCHANGED vars
  <2>1. /\ UNCHANGED <<Coming, Queued, Told, Hand, Said, Snapshots, Truth>>
        /\ (Idle' <=> Idle)
    BY <1>6 DEF vars, Coming, Queued, Told, Hand, Said, Snapshots, Truth, Idle
  <2>2. \A e : Last(e)' = Last(e)
    BY <1>6 DEF vars, Last
  <2>3. \A e : (Flying(e)' <=> Flying(e)) /\ (Late(e)' <=> Late(e))
               /\ (Right(e)' <=> Right(e))
    BY <1>6, <2>1, <2>2 DEF vars, Flying, Late, Right, Carried, Settled
  <2>4. \A v, e : Shows(v, e)' <=> Shows(v, e)
    BY <1>6, <2>1, <2>3 DEF vars, Shows
  <2>5. Numbered'
    BY <1>6, <2>1, NumberedKept DEF vars, SettledInv
  <2>6. Rounds' /\ Booting'
    BY <1>6, <2>1 DEF vars, Rounds, Booting, SettledInv
  <2>7. Answers'
    <3>1. \A v : \A e \in Entities : Shows(v, e) => Shows(v, e)'
      BY <2>4
    <3>2. ASSUME phase' = "run" /\ Hand' # Said', NEW e \in Entities
          PROVE  Shows(IF job.step = "apply" THEN job.ev.says[e] ELSE mem[e], e)'
      <4>1. PICK v : v = IF job.step = "apply" THEN job.ev.says[e] ELSE mem[e]
        OBVIOUS
      <4>2. Shows(v, e)
        BY <1>6, <2>1, <3>2, <4>1 DEF SettledInv, Answers, vars
      <4>3. Shows(v, e)' /\ v = IF job'.step = "apply" THEN job'.ev.says[e] ELSE mem'[e]
        BY <1>6, <2>4, <4>1, <4>2 DEF vars
      <4> QED
        BY <4>3 DEF Shows
    <3> QED
      BY <1>6, <2>1, <3>1, <3>2, AnswersVia DEF vars, SettledInv
  <2> QED
    BY <1>6, <2>3, <2>5, <2>6, <2>7 DEF vars, SettledInv
<1> QED
  BY <1>1, <1>2, <1>3, <1>4, <1>5, <1>6 DEF Next

\* An entity of which no event was lost is in the memory as it is at the exchange as
\* soon as every event about it is applied, and the runtime shows it, unless it is a
\* position that the engine wrote since the last _sync_runtime: for any number of
\* entities, changes, copies, reorderings, resyncs, failures, restarts and writes past
\* the queue (_newer, _apply_rest_snapshot, _replay_private_event_buffer,
\* record_exchange_event, _sync_runtime).
THEOREM SettledIsRight == Spec => []SettledIsTrue
<1>1. Init => SettledInv
  <2> SUFFICES ASSUME Init PROVE SettledInv
    OBVIOUS
  <2>1. /\ Coming = {} /\ Queued = {} /\ Told = {} /\ Hand = {} /\ Said = {}
        /\ Snapshots = {} /\ Idle /\ Sent(batch) = {}
    BY SentEmpty DEF Init, Coming, Queued, Told, Hand, Said, Snapshots, Idle, NoJob
  <2>2. \A e \in Entities : Last(e) = 0 /\ Truth[e] = 0 /\ mem[e] = 0 /\ view[e] = 0
                            /\ ver[e] = 0
    BY DEF Init, Last, Truth, Visible, Nothing
  <2>3. tally.changes = 0
    BY DEF Init, Tallied
  <2>4. Numbered
    BY <2>1, <2>2, <2>3 DEF Init, Numbered
  <2>5. Rounds /\ Booting /\ Answers
    BY <2>1 DEF Init, Rounds, Booting, Answers
  <2>6. \A e \in Entities : Settled(e)
    BY <2>1, <2>2 DEF Settled
  <2> QED
    BY <2>4, <2>5, <2>6 DEF SettledInv, Right
<1>2. TypeOK /\ SettledInv => SettledIsTrue
  <2> SUFFICES ASSUME TypeOK, SettledInv, phase = "run",
                      NEW e \in Entities \ (stale \cup InFlight)
               PROVE  mem[e] = Truth[e] /\ (e \notin patched => view[e] = Truth[e])
    BY DEF SettledIsTrue
  <2>1. Right(e) /\ ~Flying(e)
    BY FlyingIs DEF SettledInv
  <2>2. \A x \in Told \cup Said : x.no = Last(e) => e \in x.about
    <3>1. \A x \in Told \cup Said : ~x.rest /\ Sound(x)
      BY DEF SettledInv, Numbered, Rounds, Told, Queued, Said
    <3> QED
      BY <3>1 DEF Sound
  <2>3. Settled(e)
    BY <2>1, <2>2 DEF Right, Carried, Flying
  <2> QED
    BY <2>1, <2>3 DEF Settled, Flying
<1> QED
  BY <1>1, <1>2, TypeCorrect, SettledStep, PTL DEF Spec

=============================================================================
