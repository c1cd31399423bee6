--------------------------- MODULE EntryGateProofs ---------------------------
(***************************************************************************)
(* Proofs about EntryGate for every value of its constants: its types, the *)
(* restart guard, and that a halt which only an operator may lift stays    *)
(* one of that kind.                                                       *)
(***************************************************************************)
EXTENDS EntryGate, SequenceTheorems, TLAPS

Labels == MainLabels \cup StreamLabels \cup SyncLabels

\* a task that applies an event of its batch has one
BatchOK == \A p \in Procs : pc[p] = "effect" => batch[p] # <<>>

\* what TypeOK says of the halt and its settings, and of the risk figures
GateTyped == /\ halted \in BOOLEAN /\ reason \in Reasons
             /\ paused \in BOOLEAN /\ code \in Codes
RiskTyped == /\ flow \in Flows /\ ledger \in {"CONFIRMED", "OPEN"}
             /\ guard \in Ages /\ crossing \in BOOLEAN /\ loss \in BOOLEAN
             /\ bypass \in BOOLEAN /\ lowered \in BOOLEAN
             /\ savedFlow \in Flows /\ savedGuard \in Ages

-----------------------------------------------------------------------------
(* Lemmas about the operators the actions are built from                    *)

\* a count of what the environment did stays a natural number
LEMMA CountTypes ==
  ASSUME NEW c \in Tallied, tally \in [Tallied -> Nat], Count(c)
  PROVE  tally' \in [Tallied -> Nat] /\ tally'[c] = tally[c] + 1
BY DEF Count

\* a halt keeps its types whether it was there before or not
LEMMA HaltTypes ==
  ASSUME TypeOK, NEW r \in Reasons, HaltUnlessHalted(r)
  PROVE  GateTyped'
BY DEF TypeOK, GateTyped, HaltUnlessHalted, Halt, Persist, Codes, gate, row

\* private events: a sequence that is taken apart or extended keeps its type
LEMMA EventSeqs ==
  ASSUME NEW s \in Seq(Events)
  PROVE  /\ s # <<>> => Head(s) \in Events /\ Tail(s) \in Seq(Events)
         /\ \A e \in Events : Append(s, e) \in Seq(Events)
         /\ <<>> \in Seq(Events)
BY EmptySeq, AppendProperties, HeadTailProperties

\* the capital-flow guard assigns its figures and the halt within their types
LEMMA UpdateGuardTypes ==
  ASSUME TypeOK, NEW r \in Reading, UpdateGuard(r)
  PROVE  /\ GateTyped'
         /\ guard' \in Ages /\ flow' \in Flows
         /\ savedFlow' \in Flows /\ savedGuard' \in Ages
BY DEF TypeOK, GateTyped, UpdateGuard, HaltUnlessHalted, Halt, Resume, Persist,
       gate, row, Reading, Ages, Flows, Reasons, Codes

\* what an applied event may change, for every kind of event
LEMMA EventEffectTypes ==
  ASSUME TypeOK, NEW e \in Events, EventEffect(e)
  PROVE  /\ GateTyped'
         /\ guard' \in Ages /\ flow' \in Flows
         /\ ledger' \in {"CONFIRMED", "OPEN"}
         /\ savedFlow' \in Flows /\ savedGuard' \in Ages
         /\ due' \in [Resyncers -> Nat]
<1> USE DEF TypeOK, GateTyped, Ages, Flows, Reasons, Codes, gate, row, saved
<1>1. CASE e.kind = "MARGIN_CALL"
  BY <1>1 DEF EventEffect, Halt, Persist
<1>2. CASE e.kind = "REVIEW"
  BY <1>2 DEF EventEffect, Halt, Persist, Resyncers
<1>3. CASE e.kind = "TRANSFER"
  BY <1>3 DEF EventEffect, HaltUnlessHalted, Halt, Persist
<1>4. CASE e.kind \notin {"MARGIN_CALL", "REVIEW", "TRANSFER"}
  <2>1. UNCHANGED <<gate, row, flow, ledger, guard, saved, due>>
    BY <1>4 DEF EventEffect
  <2>2. QED
    BY <2>1
<1> QED
  BY <1>1, <1>2, <1>3, <1>4

-----------------------------------------------------------------------------
(* Types: one lemma per group of actions                                     *)

\* the steps of startup
LEMMA StartupTypes ==
  ASSUME TypeOK, Startup
  PROVE  TypeOK'
<1> USE DEF gate, risk, row, saved, db, events, obs, Go, At
<1>1. CASE Boot
  <2>1. GateTyped'
    BY <1>1 DEF GateTyped, TypeOK, Boot, Halt, Resume, Persist, Reasons, Codes
  <2>2. RiskTyped'
    BY <1>1 DEF RiskTyped, TypeOK, Boot
  <2>3. guarded' \in BOOLEAN
    BY <1>1, ModeAssumption DEF Boot, TypeOK
  <2>4. QED
    BY <1>1, <2>1, <2>2, <2>3 DEF TypeOK, Boot, MainLabels, Returns, Procs,
       GateTyped, RiskTyped
<1>2. CASE ValidateMode
  <2>1. UNCHANGED <<gate, armed, stopped, started, status, lock, risk, events,
                  ret, due, db, obs, tally>>
    BY <1>2 DEF ValidateMode
  <2>2. pc' \in [Procs -> Labels]
    BY <1>2 DEF ValidateMode, TypeOK, Labels, Procs, MainLabels, StreamLabels
  <2>3. QED
    BY <2>1, <2>2 DEF TypeOK, Labels
<1>3. CASE ValidateModeFails
  <2>1. tally' \in [Tallied -> Nat]
    BY <1>3, CountTypes DEF ValidateModeFails, TypeOK, Tallied
  <2>2. GateTyped'
    BY <1>3 DEF GateTyped, TypeOK, ValidateModeFails, Halt, Persist, Reasons,
       Codes
  <2>3. QED
    BY <1>3, <2>1, <2>2 DEF TypeOK, ValidateModeFails, MainLabels, Returns,
       Procs, GateTyped
<1>4. CASE WaitConnected
  BY <1>4 DEF TypeOK, WaitConnected, MainLabels, Returns, Procs, SyncLabels
<1>5. CASE WaitConnectedFails
  <2>1. GateTyped'
    BY <1>5 DEF GateTyped, TypeOK, WaitConnectedFails, Halt, Persist, Reasons,
       Codes
  <2>2. QED
    BY <1>5, <2>1 DEF TypeOK, WaitConnectedFails, MainLabels, Returns, Procs,
       SyncLabels, Arms, GateTyped
<1>6. CASE FinishBaseline
  <2>1. GateTyped'
    BY <1>6 DEF GateTyped, TypeOK, FinishBaseline, Halt, Persist, Reasons,
       Codes
  <2>2. UNCHANGED <<armed, stopped, started, status, lock, risk, ret, buffer,
                  batch, hand, applied, due, saved, obs>>
    BY <1>6 DEF FinishBaseline
  <2>3. pc' \in [Procs -> Labels]
    BY <1>6 DEF FinishBaseline, TypeOK, Labels, Procs, MainLabels
  <2>4. buffering' \in BOOLEAN
    BY <1>6 DEF FinishBaseline
  <2>5. tally' \in [Tallied -> Nat]
    BY <1>6, CountTypes DEF FinishBaseline, TypeOK, Tallied
  <2>6. QED
    BY <2>1, <2>2, <2>3, <2>4, <2>5 DEF TypeOK, Labels, GateTyped
<1>7. CASE StartupComplete
  BY <1>7 DEF TypeOK, StartupComplete, MainLabels, Returns, Procs
<1> QED
  BY <1>1, <1>2, <1>3, <1>4, <1>5, <1>6, <1>7 DEF Startup

\* the stream task's own steps
LEMMA StreamTypes ==
  ASSUME TypeOK, Stream
  PROVE  TypeOK'
<1> USE DEF gate, risk, row, saved, db, events, obs, Go, At
<1>1. CASE Connect
  <2>1. tally' \in [Tallied -> Nat]
    BY <1>1, CountTypes DEF Connect, SetStatus, TypeOK, Tallied
  <2>2. UNCHANGED <<gate, armed, stopped, started, lock, risk, events, ret,
                  due, db, obs>>
    BY <1>1 DEF Connect, SetStatus
  <2>3. /\ status' \in {"UNKNOWN", "LIVE", "RESYNCING", "DISCONNECTED"}

    BY <1>1 DEF Connect, SetStatus
  <2>4. pc' \in [Procs -> Labels]
    BY <1>1 DEF Connect, TypeOK, Labels, Procs, SetStatus, StreamLabels
  <2>5. QED
    BY <2>1, <2>2, <2>3, <2>4 DEF TypeOK, Labels
<1>2. CASE Opened
  <2>1. UNCHANGED <<gate, armed, stopped, started, status, lock, risk,
                  buffer, batch, hand, applied, ret, db, obs, tally>>
    BY <1>2 DEF Opened
  <2>2. pc' \in [Procs -> Labels]
    BY <1>2 DEF Opened, TypeOK, Labels, Procs, StreamLabels
  <2>3. due' \in [Resyncers -> Nat]
    BY <1>2 DEF Opened, TypeOK, Resyncers
  <2>4. buffering' \in BOOLEAN
    BY <1>2 DEF Opened, TypeOK
  <2>5. QED
    BY <2>1, <2>2, <2>3, <2>4 DEF TypeOK, Labels
<1>3. CASE Lost
  <2>1. GateTyped'
    BY <1>3, HaltTypes DEF GateTyped, Lost, Reasons
  <2>2. QED
    BY <1>3, <2>1 DEF TypeOK, Lost, Arms, StreamLabels, Procs, GateTyped
<1>4. CASE SpawnVerify
  BY <1>4 DEF TypeOK, SpawnVerify, Resyncers, StreamLabels, Procs
<1>5. CASE Rotated
  <2>1. GateTyped'
    BY <1>5, HaltTypes DEF GateTyped, Rotated, Reasons
  <2>2. QED
    BY <1>5, <2>1 DEF TypeOK, Rotated, Arms, StreamLabels, Procs, GateTyped
<1>6. CASE Closed
  BY <1>6 DEF TypeOK, Closed, StreamLabels, Procs
<1>7. CASE Applied
  <2>1. /\ GateTyped'
        /\ guard' \in Ages /\ flow' \in Flows
        /\ ledger' \in {"CONFIRMED", "OPEN"}
        /\ savedFlow' \in Flows /\ savedGuard' \in Ages
        /\ due' \in [Resyncers -> Nat]
    BY <1>7, EventEffectTypes DEF Applied, TypeOK
  <2>2. hand' \in Events
    BY <1>7 DEF Applied, NoEvent, Events, AllEventKinds
  <2>3. QED
    BY <1>7, <2>1, <2>2 DEF TypeOK, Applied, StreamLabels, Procs, GateTyped
<1> QED
  BY <1>1, <1>2, <1>3, <1>4, <1>5, <1>6, <1>7 DEF Stream

\* operator commands and what they run
LEMMA OperatorTypes ==
  ASSUME TypeOK, Operator \/ Resumes
  PROVE  TypeOK'
<1> USE DEF gate, risk, row, saved, db, events, obs, Go, At
<1>1. CASE Pause \/ CancelAndFlatten
  <2> PICK c \in {"PAUSE", "FLATTEN"} : PausedBy(c)
    BY <1>1 DEF Pause, CancelAndFlatten
  <2>1. tally' \in [Tallied -> Nat]
    BY CountTypes DEF PausedBy, Command, TypeOK, Tallied
  <2>2. GateTyped'
    BY DEF GateTyped, TypeOK, PausedBy, Command, Halt, Persist, Reasons,
       Codes
  <2>3. QED
    BY <2>1, <2>2 DEF TypeOK, PausedBy, Command, GateTyped
<1>2. CASE StopEngine
  <2>1. tally' \in [Tallied -> Nat]
    BY <1>2, CountTypes DEF StopEngine, Command, TypeOK, Tallied
  <2>2. GateTyped'
    BY <1>2 DEF GateTyped, TypeOK, StopEngine, Command, Halt, Persist,
       Reasons, Codes
  <2>3. QED
    BY <1>2, <2>1, <2>2 DEF TypeOK, StopEngine, Command, GateTyped
<1>3. CASE ResumeBegins("RESUME", "resume")
  <2>1. tally' \in [Tallied -> Nat]
    BY <1>3, CountTypes DEF ResumeBegins, Command, TypeOK, Tallied
  <2>2. QED
    BY <1>3, <2>1 DEF TypeOK, ResumeBegins, Command, MainLabels, Returns,
       Procs
<1>4. CASE ResumeBegins("RESUME_ALL", "resume_all")
  <2>1. tally' \in [Tallied -> Nat]
    BY <1>4, CountTypes DEF ResumeBegins, Command, TypeOK, Tallied
  <2>2. QED
    BY <1>4, <2>1 DEF TypeOK, ResumeBegins, Command, MainLabels, Returns,
       Procs
<1>5. CASE ResumeStrategy
  <2>1. GateTyped'
    BY <1>5 DEF GateTyped, TypeOK, ResumeStrategy, Halt, Resume, Persist,
       Reasons, Codes
  <2>2. bypass' \in BOOLEAN
    BY <1>5 DEF ResumeStrategy, GrantsBypass, TypeOK
  <2>3. QED
    BY <1>5, <2>1, <2>2 DEF TypeOK, ResumeStrategy, MainLabels, Returns,
       Procs, GateTyped
<1>6. CASE ResumeAllChecked
  <2>1. GateTyped'
    BY <1>6 DEF GateTyped, TypeOK, ResumeAllChecked, Halt, Resume, Persist,
       Reasons, Codes
  <2>2. bypass' \in BOOLEAN
    BY <1>6 DEF ResumeAllChecked, GrantsBypass, TypeOK
  <2>3. QED
    BY <1>6, <2>1, <2>2 DEF TypeOK, ResumeAllChecked, MainLabels, Returns,
       Procs, GateTyped
<1>7. CASE ResumeAllRefused
  BY <1>7 DEF TypeOK, ResumeAllRefused, MainLabels, Returns, Procs
<1>8. CASE ResumeAllDone
  <2>1. GateTyped'
    BY <1>8 DEF GateTyped, TypeOK, ResumeAllDone, Halt, Resume, Persist,
       Reasons, Codes
  <2>2. QED
    BY <1>8, <2>1 DEF TypeOK, ResumeAllDone, MainLabels, Returns, Procs,
       GateTyped
<1>9. CASE ChangeLimits
  <2>1. tally' \in [Tallied -> Nat]
    BY <1>9, CountTypes DEF ChangeLimits, Command, TypeOK, Tallied
  <2>2. crossing' \in BOOLEAN /\ loss' \in BOOLEAN /\ lowered' \in BOOLEAN
    BY <1>9 DEF ChangeLimits
  <2>3. QED
    BY <1>9, <2>1, <2>2 DEF TypeOK, ChangeLimits, Command, MainLabels, Returns,
       Procs
<1> QED
  BY <1>1, <1>2, <1>3, <1>4, <1>5, <1>6, <1>7, <1>8, <1>9 DEF Operator, Resumes

\* the strategy cycle
LEMMA CycleTypes ==
  ASSUME TypeOK, Cycle
  PROVE  TypeOK'
<1> USE DEF gate, risk, row, saved, db, events, obs, Go, At
<1>1. CASE BreakerDefers
  <2>1. GateTyped'
    BY <1>1, HaltTypes DEF GateTyped, BreakerDefers, Reasons
  <2>2. QED
    BY <1>1, <2>1 DEF TypeOK, BreakerDefers, MainLabels, Returns, Procs,
       SyncLabels, Snapshot, StartsCycle, GateTyped
<1>2. CASE BreakerTrips
  <2>1. GateTyped'
    BY <1>2 DEF GateTyped, TypeOK, BreakerTrips, Halt, Persist, Reasons,
       Codes, BreachCode
  <2>2. pc' \in [Procs -> Labels] /\ ret' \in Returns
    BY <1>2 DEF BreakerTrips, TypeOK, Labels, MainLabels, Returns, Procs,
       SyncLabels, Snapshot, StartsCycle
  <2>3. QED
    BY <1>2, <2>1, <2>2 DEF TypeOK, BreakerTrips, Labels, GateTyped
<1>3. CASE BreakerQuiet
  <2>1. pc' \in [Procs -> Labels] /\ ret' \in Returns
    BY <1>3 DEF BreakerQuiet, TypeOK, Labels, MainLabels, Returns, Procs,
       SyncLabels, Snapshot, StartsCycle
  <2>2. QED
    BY <1>3, <2>1 DEF TypeOK, BreakerQuiet, Labels
<1>4. CASE RecheckQuiet
  BY <1>4 DEF TypeOK, RecheckQuiet, MainLabels, Returns, Procs
<1>5. CASE Hold
  BY <1>5 DEF TypeOK, Hold, MainStep, MainLabels, Returns, Procs
<1>6. CASE Admit
  BY <1>6 DEF TypeOK, Admit, MainStep, MainLabels, Returns, Procs
<1>7. CASE Reject
  BY <1>7 DEF TypeOK, Reject, MainStep, MainLabels, Returns, Procs
<1>8. CASE Submit
  BY <1>8 DEF TypeOK, Submit, MainStep, MainLabels, Returns, Procs
<1>9. CASE NextSymbol
  BY <1>9 DEF TypeOK, NextSymbol, MainStep, MainLabels, Returns, Procs
<1>10. CASE EndCycle
  BY <1>10 DEF TypeOK, EndCycle, MainLabels, Returns, Procs, SyncLabels,
     Snapshot, StartsCycle
<1>11. CASE CheckLimits
  <2>1. GateTyped'
    <3>1. CASE HaltUnlessHalted("flow")
      BY <3>1, HaltTypes DEF Reasons
    <3>2. CASE ~HaltUnlessHalted("flow")
      BY <1>11, <3>2 DEF CheckLimits, GateTyped, TypeOK, Halt, Persist, Reasons,
         Codes, BreachCode
    <3>3. QED
      BY <3>1, <3>2
  <2>2. pc' \in [Procs -> Labels] /\ ret' \in Returns
    BY <1>11 DEF CheckLimits, TypeOK, Labels, MainLabels, Returns, Procs
  <2>3. QED
    BY <1>11, <2>1, <2>2 DEF TypeOK, CheckLimits, Labels, GateTyped
<1>12. CASE RefreshFails
  <2>1. tally' \in [Tallied -> Nat]
    BY <1>12, CountTypes DEF RefreshFails, TypeOK, Tallied
  <2>2. GateTyped'
    BY <1>12 DEF GateTyped, TypeOK, RefreshFails, Halt, Persist, Reasons, Codes
  <2>3. pc' \in [Procs -> Labels]
    BY <1>12 DEF RefreshFails, TypeOK, Labels, MainLabels, Procs
  <2>4. QED
    BY <1>12, <2>1, <2>2, <2>3 DEF TypeOK, RefreshFails, Labels, GateTyped
<1> QED
  BY <1>1, <1>2, <1>3, <1>4, <1>5, <1>6, <1>7, <1>8, <1>9, <1>10, <1>11, <1>12
     DEF Cycle

\* a new day, the age of the guard, the end of the process
LEMMA LifeTypes ==
  ASSUME TypeOK, RollDay \/ GuardAges \/ Shutdown \/ Restart
  PROVE  TypeOK'
<1> USE DEF gate, risk, row, saved, db, events, obs, Go, At
<1>1. CASE RollDay
  <2>1. tally' \in [Tallied -> Nat]
    BY <1>1, CountTypes DEF RollDay, TypeOK, Tallied
  <2>2. RiskTyped'
    BY <1>1 DEF RiskTyped, TypeOK, RollDay, Flows, Ages
  <2>3. QED
    BY <1>1, <2>1, <2>2 DEF TypeOK, RollDay, RiskTyped
<1>2. CASE GuardAges
  <2>1. RiskTyped'
    BY <1>2 DEF RiskTyped, TypeOK, GuardAges, Flows, Ages
  <2>2. QED
    BY <1>2, <2>1 DEF TypeOK, GuardAges, RiskTyped
<1>3. CASE Shutdown
  <2>1. GateTyped'
    BY <1>3 DEF GateTyped, TypeOK, Shutdown, Fresh, Reasons
  <2>2. RiskTyped'
    BY <1>3 DEF RiskTyped, TypeOK, Shutdown, Fresh, Flows, Ages
  <2>3. hand' \in Events /\ buffer' \in Seq(Events)
    BY <1>3 DEF Shutdown, Fresh, NoEvent, Events, AllEventKinds
  <2>4. pc' \in [Procs -> Labels] /\ ret' \in Returns
    BY <1>3 DEF Shutdown, Fresh, Labels, MainLabels, Returns, StreamLabels,
       SyncLabels
  <2>5. batch' \in [Procs -> Seq(Events)]
    BY <1>3, EmptySeq DEF Shutdown, Fresh
  <2>6. due' \in [Resyncers -> Nat] /\ applied' \in Nat
    BY <1>3 DEF Shutdown, Fresh, TypeOK, Tallied
  <2>7. QED
    BY <1>3, <2>1, <2>2, <2>3, <2>4, <2>5, <2>6 DEF TypeOK, Shutdown, Fresh,
       Labels, GateTyped, RiskTyped
<1>4. CASE Restart
  <2>1. tally' \in [Tallied -> Nat]
    BY <1>4, CountTypes DEF Restart, Fresh, TypeOK, Tallied
  <2>2. GateTyped'
    BY <1>4 DEF GateTyped, TypeOK, Restart, Fresh, Reasons
  <2>3. RiskTyped'
    BY <1>4 DEF RiskTyped, TypeOK, Restart, Fresh, Flows, Ages
  <2>4. hand' \in Events /\ buffer' \in Seq(Events)
    BY <1>4 DEF Restart, Fresh, NoEvent, Events, AllEventKinds
  <2>5. pc' \in [Procs -> Labels] /\ ret' \in Returns
    BY <1>4 DEF Restart, Fresh, Labels, MainLabels, Returns, StreamLabels,
       SyncLabels
  <2>6. batch' \in [Procs -> Seq(Events)]
    BY <1>4, EmptySeq DEF Restart, Fresh
  <2>7. due' \in [Resyncers -> Nat] /\ applied' \in Nat
    BY <1>4 DEF Restart, Fresh, TypeOK, Tallied
  <2>8. QED
    BY <1>4, <2>1, <2>2, <2>3, <2>4, <2>5, <2>6, <2>7 DEF TypeOK, Restart,
       Fresh, Labels, GateTyped, RiskTyped
<1> QED
  BY <1>1, <1>2, <1>3, <1>4

\* what the exchange and the network do
LEMMA NetworkTypes ==
  ASSUME TypeOK, Network
  PROVE  TypeOK'
<1> USE DEF gate, risk, row, saved, db, events, obs, Go, At
<1>1. CASE Drop
  <2>1. UNCHANGED <<tally>>
    BY <1>1 DEF Drop, SetStatus
  <2>2. /\ status' \in {"UNKNOWN", "LIVE", "RESYNCING", "DISCONNECTED"}
        /\ UNCHANGED <<gate, armed, stopped, started, lock, risk, events, ret,
                       due, db, obs>>
    BY <1>1 DEF Drop, SetStatus
  <2>3. pc' \in [Procs -> Labels]
    BY <1>1 DEF Drop, TypeOK, Labels, Procs, SetStatus, StreamLabels
  <2>4. QED
    BY <2>1, <2>2, <2>3 DEF TypeOK, Labels
<1>2. CASE Rotate
  <2>1. UNCHANGED <<tally>>
    BY <1>2 DEF Rotate, SetStatus
  <2>2. /\ status' \in {"UNKNOWN", "LIVE", "RESYNCING", "DISCONNECTED"}
        /\ UNCHANGED <<gate, armed, stopped, started, lock, risk, events, ret,
                       due, db, obs>>
    BY <1>2 DEF Rotate, SetStatus
  <2>3. pc' \in [Procs -> Labels]
    BY <1>2 DEF Rotate, TypeOK, Labels, Procs, SetStatus, StreamLabels
  <2>4. QED
    BY <2>1, <2>2, <2>3 DEF TypeOK, Labels
<1>3. CASE KeepAlive
  BY <1>3 DEF TypeOK, KeepAlive
<1>4. CASE HealthFails
  <2>1. tally' \in [Tallied -> Nat]
    BY <1>4, CountTypes DEF HealthFails, SetStatus, TypeOK, Tallied
  <2>2. /\ status' \in {"UNKNOWN", "LIVE", "RESYNCING", "DISCONNECTED"}
        /\ UNCHANGED <<gate, armed, stopped, started, lock, risk, events, ret,
                       due, db, obs>>
    BY <1>4 DEF HealthFails, SetStatus
  <2>3. pc' \in [Procs -> Labels]
    BY <1>4 DEF HealthFails, TypeOK, Labels, Procs, SetStatus, StreamLabels
  <2>4. QED
    BY <1>4, <2>1, <2>2, <2>3 DEF TypeOK, HealthFails, SetStatus, Labels
<1>5. CASE \E k \in EventKinds : Receive(k)
  <2> PICK k \in EventKinds : Receive(k)
    BY <1>5
  <2>1. tally' \in [Tallied -> Nat]
    BY CountTypes DEF Receive, TypeOK, Tallied
  <2>2. [no |-> tally["events"] + 1, kind |-> k] \in Events
    BY InputAssumption DEF Events, TypeOK, Tallied
  <2>3. buffer' \in Seq(Events)
    <3>1. CASE buffer' = buffer
      BY <3>1 DEF TypeOK
    <3>2. CASE buffer' = Append(buffer, [no |-> tally["events"] + 1, kind |-> k])
      BY <3>2, <2>2, EventSeqs DEF TypeOK
    <3>3. QED
      BY <3>1, <3>2 DEF Receive
  <2>4. hand' \in Events /\ applied' \in Nat
    <3>1. tally["events"] + 1 \in Nat
      BY DEF TypeOK, Tallied
    <3>2. CASE buffering
      BY <3>2 DEF Receive, TypeOK
    <3>3. CASE ~buffering
      BY <2>2, <3>1, <3>3 DEF Receive
    <3>4. QED
      BY <3>2, <3>3
  <2>5. pc' \in [Procs -> Labels]
    BY DEF Receive, TypeOK, Labels, StreamLabels, Procs
  <2>6. GateTyped'
    BY DEF GateTyped, Receive, Halt, Persist, TypeOK, Reasons, Codes
  <2>7. QED
    BY <2>1, <2>3, <2>4, <2>5, <2>6 DEF TypeOK, Receive, GateTyped, Labels
<1> QED
  BY <1>1, <1>2, <1>3, <1>4, <1>5 DEF Network

\* the steps of a REST resync, of any task that runs one
LEMMA ResyncTypes ==
  ASSUME TypeOK, BatchOK, NEW p \in Syncing, Resync(p)
  PROVE  TypeOK'
<1> USE DEF gate, risk, row, saved, db, events, obs, Go, At
<1>1. CASE Acquire(p)
  <2>1. pc' \in [Procs -> Labels]
    BY <1>1 DEF Acquire, TypeOK, Labels, Procs, SyncLabels, Syncing
  <2>2. due' \in [Resyncers -> Nat]
    BY <1>1 DEF Acquire, Due, TypeOK, Resyncers
  <2>3. QED
    BY <1>1, <2>1, <2>2 DEF TypeOK, Acquire, StartBuffering, Labels
<1>2. CASE RestAnswers(p)
  <2>1. pc' \in [Procs -> Labels]
    BY <1>2 DEF RestAnswers, TypeOK, Labels, Procs, SyncLabels, Syncing
  <2>2. QED
    BY <1>2, <2>1 DEF TypeOK, RestAnswers, Labels
<1>3. CASE \E r \in Readings : ApplySnapshot(p, r)
  <2> PICK r \in Readings : ApplySnapshot(p, r)
    BY <1>3
  <2>1. r \in Reading
    BY InputAssumption
  <2>2. pc' \in [Procs -> Labels]
    BY DEF ApplySnapshot, TypeOK, Labels, SyncLabels, Procs, Syncing
  <2>3. /\ ledger' \in {"CONFIRMED", "OPEN"} /\ loss' \in BOOLEAN
        /\ lowered' \in BOOLEAN
    BY <2>1 DEF ApplySnapshot, TypeOK, Reading
  <2>4. /\ GateTyped' /\ crossing' \in BOOLEAN
        /\ guard' \in Ages /\ flow' \in Flows
        /\ savedFlow' \in Flows /\ savedGuard' \in Ages
    <3>1. CASE r.valid
      BY <2>1, <3>1, UpdateGuardTypes DEF ApplySnapshot, Reading
    <3>2. CASE ~r.valid
      BY <2>1, <3>2 DEF ApplySnapshot, TypeOK, GateTyped, Reading, Flows
    <3>3. QED
      BY <3>1, <3>2
  <2>5. QED
    BY <2>2, <2>3, <2>4 DEF TypeOK, ApplySnapshot, GateTyped, Labels
<1>4. CASE Replay(p)
  <2>1. pc' \in [Procs -> Labels]
    BY <1>4 DEF Replay, TypeOK, Labels, SyncLabels, Procs, Syncing
  <2>2. p \in Procs /\ Pending(p) \in Seq(Events) /\ Pending(p) # <<>>
    BY <1>4 DEF Replay, Pending, TypeOK, Procs, Syncing
  <2>3. batch' \in [Procs -> Seq(Events)] /\ buffer' \in Seq(Events)
    BY <1>4, <2>2, EmptySeq DEF Replay, TypeOK
  <2>4. applied' \in Nat
    BY <1>4, <2>2, EventSeqs DEF Replay, Events
  <2>5. QED
    BY <1>4, <2>1, <2>3, <2>4 DEF TypeOK, Replay, Labels
<1>5. CASE ReplayEffect(p)
  <2>1. pc' \in [Procs -> Labels]
    BY <1>5 DEF ReplayEffect, TypeOK, Labels, SyncLabels, Procs, Syncing
  <2>2. p \in Procs /\ batch[p] \in Seq(Events) /\ batch[p] # <<>>
    BY <1>5 DEF ReplayEffect, BatchOK, TypeOK, Procs, Syncing
  <2>3. Head(batch[p]) \in Events /\ Tail(batch[p]) \in Seq(Events)
    BY <2>2, EventSeqs
  <2>4. batch' \in [Procs -> Seq(Events)]
    BY <1>5, <2>2, <2>3 DEF ReplayEffect, TypeOK
  <2>5. /\ GateTyped'
        /\ guard' \in Ages /\ flow' \in Flows
        /\ ledger' \in {"CONFIRMED", "OPEN"}
        /\ savedFlow' \in Flows /\ savedGuard' \in Ages
        /\ due' \in [Resyncers -> Nat]
    BY <1>5, <2>3, EventEffectTypes DEF ReplayEffect
  <2>6. QED
    BY <1>5, <2>1, <2>4, <2>5 DEF TypeOK, ReplayEffect, GateTyped, Labels
<1>6. CASE FinishReplay(p)
  <2>1. GateTyped'
    BY <1>6 DEF GateTyped, TypeOK, FinishReplay, Halt, Resume, Persist,
       Reasons, Codes
  <2>2. UNCHANGED <<stopped, started, status, lock, risk, ret, buffer, batch,
                  hand, applied, due, saved, obs, tally>>
    BY <1>6 DEF FinishReplay
  <2>3. pc' \in [Procs -> Labels]
    BY <1>6 DEF FinishReplay, TypeOK, Labels, Procs, SyncLabels, Syncing
  <2>4. armed' \in BOOLEAN /\ buffering' \in BOOLEAN
    BY <1>6 DEF FinishReplay, TypeOK
  <2>5. QED
    BY <2>1, <2>2, <2>3, <2>4 DEF TypeOK, Labels, GateTyped
<1>7. CASE Release(p)
  <2>1. pc' \in [Procs -> Labels] /\ ret' \in Returns
    BY <1>7 DEF Release, TypeOK, Labels, Procs, SyncLabels, Syncing,
       MainLabels, Returns
  <2>2. QED
    BY <1>7, <2>1 DEF TypeOK, Release, Labels
<1>8. CASE CheckProtection(p)
  <2>1. pc' \in [Procs -> Labels]
    BY <1>8 DEF CheckProtection, TypeOK, Labels, Procs, SyncLabels, Syncing
  <2>2. QED
    BY <1>8, <2>1 DEF TypeOK, CheckProtection, Labels
<1> QED
  BY <1>1, <1>2, <1>3, <1>4, <1>5, <1>6, <1>7, <1>8 DEF Resync

\* a REST round that fails, by the task that made it
LEMMA RestFailsTypes ==
  ASSUME TypeOK, NEW p \in Syncing, RestFails(p)
  PROVE  TypeOK'
<1> USE DEF gate, risk, row, saved, db, events, obs, Go, At
<1>1. tally' \in [Tallied -> Nat]
  BY CountTypes DEF RestFails, TypeOK, Tallied
<1>2. GateTyped'
  BY DEF RestFails, GateTyped, Halt, Persist, TypeOK, Reasons, Codes
<1>3. pc' \in [Procs -> Labels] /\ lock' \in Syncing \cup {"free"}
  BY DEF RestFails, TypeOK, Labels, Procs, Syncing, MainLabels, SyncLabels
<1>4. QED
  BY <1>1, <1>2, <1>3 DEF TypeOK, RestFails, GateTyped, Labels

-----------------------------------------------------------------------------
(* Every step preserves the types                                            *)

\* a task that begins to apply an event has just taken one; no other action
\* shortens a batch, and ReplayEffect leaves the label
LEMMA BatchStep ==
  ASSUME TypeOK, BatchOK, [Next]_vars
  PROVE  BatchOK'
<1> USE DEF TypeOK, BatchOK, events, Go, At
<1>1. CASE Startup
  BY <1>1 DEF Startup, Boot, ValidateMode, ValidateModeFails, WaitConnected,
         WaitConnectedFails, FinishBaseline, StartupComplete, Procs
<1>2. CASE Stream
  BY <1>2 DEF Stream, Connect, SetStatus, Opened, Lost, SpawnVerify, Rotated,
         Closed, Applied, Procs
<1>3. CASE Network
  BY <1>3 DEF Network, Drop, Rotate, SetStatus, KeepAlive, HealthFails,
         Receive, Procs
<1>4. CASE Operator
  BY <1>4 DEF Operator, Pause, CancelAndFlatten, PausedBy, StopEngine,
         ChangeLimits, ResumeBegins, Procs
<1>5. CASE Resumes
  BY <1>5 DEF Resumes, ResumeStrategy, ResumeAllChecked, ResumeAllRefused,
         ResumeAllDone, Procs, Returns
<1>6. CASE Cycle
  BY <1>6 DEF Cycle, BreakerDefers, BreakerTrips, BreakerQuiet, RecheckQuiet,
         CheckLimits, Hold, Admit, Reject, Submit, RefreshFails, NextSymbol,
         EndCycle, MainStep, Snapshot, StartsCycle, Procs, Returns
<1>7. CASE RollDay \/ GuardAges
  BY <1>7 DEF RollDay, GuardAges
<1>8. CASE Shutdown \/ Restart
  BY <1>8 DEF Shutdown, Restart, Fresh
<1>9. ASSUME NEW p \in Syncing, Resync(p)
      PROVE  BatchOK'
  <2>1. p \in Procs
    BY DEF Syncing, Procs
  <2>2. CASE Replay(p)
    BY <2>1, <2>2 DEF Replay
  <2>3. CASE ReplayEffect(p)
    BY <2>1, <2>3 DEF ReplayEffect
  <2>4. CASE Release(p)
    BY <2>1, <2>4 DEF Release, Returns
  <2>5. CASE Acquire(p) \/ RestAnswers(p) \/ FinishReplay(p) \/ CheckProtection(p)
    BY <2>1, <2>5 DEF Acquire, RestAnswers, FinishReplay, CheckProtection
  <2>6. CASE \E r \in Readings : ApplySnapshot(p, r)
    BY <2>1, <2>6 DEF ApplySnapshot
  <2>7. QED
    BY <1>9, <2>2, <2>3, <2>4, <2>5, <2>6 DEF Resync
<1>10. ASSUME NEW p \in Syncing, RestFails(p)
       PROVE  BatchOK'
  BY <1>10 DEF RestFails, Syncing, Procs
<1>11. CASE UNCHANGED vars
  BY <1>11 DEF vars
<1> QED
  BY <1>1, <1>2, <1>3, <1>4, <1>5, <1>6, <1>7, <1>8, <1>9, <1>10, <1>11 DEF Next

\* the initial state has the types
LEMMA InitTypes ==
  ASSUME Init
  PROVE  TypeOK /\ BatchOK
<1>1. hand \in Events /\ buffer \in Seq(Events)
  BY EmptySeq DEF Init, NoEvent, Events, AllEventKinds
<1>2. batch \in [Procs -> Seq(Events)] /\ tally \in [Tallied -> Nat]
  BY EmptySeq DEF Init
<1>3. /\ pc \in [Procs -> Labels] /\ ret \in Returns
      /\ due \in [Resyncers -> Nat]
  BY DEF Init, Labels, MainLabels, Returns, StreamLabels, SyncLabels
<1>4. GateTyped /\ RiskTyped
  BY DEF Init, GateTyped, RiskTyped, Reasons, Codes, Flows, Ages
<1>5. BatchOK
  BY DEF Init, BatchOK
<1> QED
  BY <1>1, <1>2, <1>3, <1>4, <1>5 DEF Init, TypeOK, GateTyped, RiskTyped, Labels

\* Every variable keeps its type in every behaviour: the gate, the figures of the
\* capital-flow guard, the events in the buffer and in the replays, the settings;
\* and a replay never applies an event it does not have.
THEOREM TypeCorrect == Spec => [](TypeOK /\ BatchOK)
<1>1. Init => TypeOK /\ BatchOK
  BY InitTypes
<1>2. TypeOK /\ BatchOK /\ [Next]_vars => (TypeOK /\ BatchOK)'
  <2> SUFFICES ASSUME TypeOK, BatchOK, [Next]_vars
               PROVE  TypeOK' /\ BatchOK'
    OBVIOUS
  <2>1. TypeOK'
    <3>1. CASE \E p \in Syncing : Resync(p) \/ RestFails(p)
      BY <3>1, ResyncTypes, RestFailsTypes
    <3>2. CASE UNCHANGED vars
      BY <3>2 DEF vars, TypeOK
    <3>3. QED
      BY <3>1, <3>2, StartupTypes, StreamTypes, NetworkTypes, OperatorTypes,
         CycleTypes, LifeTypes DEF Next
  <2>2. BatchOK'
    BY BatchStep
  <2>3. QED
    BY <2>1, <2>2
<1>3. QED
  BY <1>1, <1>2, PTL DEF Spec

-----------------------------------------------------------------------------
(* A halt that only an operator may lift                                     *)

\* a halt that neither a resync nor the capital-flow guard may lift
ManualHalt == halted /\ ~armed /\ reason # "flow"

\* the actions that may end such a halt, or that start the process anew
EndsHalt == Boot \/ ResumeStrategy \/ ResumeAllDone \/ Shutdown \/ Restart

\* every other action keeps it: a resync lifts only when armed, the capital-flow
\* guard only its own halt, and a fault or an event arms nothing while halted
LEMMA ManualHaltKept ==
  ASSUME TypeOK, ManualHalt, [Next]_vars, ~EndsHalt
  PROVE  ManualHalt'
<1> USE DEF EndsHalt
<1>0. SUFFICES \/ UNCHANGED <<gate, armed>>
               \/ halted' = TRUE /\ reason' # "flow" /\ armed' = armed
  <2>1. CASE UNCHANGED <<gate, armed>>
    BY <2>1 DEF ManualHalt, gate
  <2>2. CASE halted' = TRUE /\ reason' # "flow" /\ armed' = armed
    BY <2>2 DEF ManualHalt
  <2>3. QED
    BY <2>1, <2>2
<1>1. CASE Startup
  BY <1>1 DEF Startup, ValidateMode, ValidateModeFails, WaitConnected,
         WaitConnectedFails, FinishBaseline, StartupComplete, Arms, Halt,
         ManualHalt, TypeOK
<1>2. CASE Stream
  <2>1. CASE Applied
    BY <2>1 DEF Applied, EventEffect, HaltUnlessHalted, Halt, ManualHalt
  <2>2. CASE Connect \/ Opened \/ SpawnVerify \/ Closed
    BY <2>2 DEF Connect, SetStatus, Opened, SpawnVerify, Closed
  <2>3. CASE Lost \/ Rotated
    BY <2>3 DEF Lost, Rotated, Arms, HaltUnlessHalted, ManualHalt, TypeOK
  <2>4. QED
    BY <1>2, <2>1, <2>2, <2>3 DEF Stream
<1>3. CASE Network
  BY <1>3 DEF Network, Drop, Rotate, SetStatus, KeepAlive, HealthFails,
         Receive, Halt
<1>4. CASE Operator
  BY <1>4 DEF Operator, Pause, CancelAndFlatten, PausedBy, StopEngine,
         ChangeLimits, ResumeBegins, Halt
<1>5. CASE Resumes
  BY <1>5 DEF Resumes, ResumeAllChecked, ResumeAllRefused
<1>6. CASE Cycle
  BY <1>6 DEF Cycle, BreakerDefers, BreakerTrips, BreakerQuiet, RecheckQuiet,
         CheckLimits, Hold, Admit, Reject, Submit, RefreshFails, NextSymbol,
         EndCycle, MainStep, HaltUnlessHalted, Halt, ManualHalt
<1>7. CASE RollDay \/ GuardAges
  BY <1>7 DEF RollDay, GuardAges
<1>8. ASSUME NEW p \in Syncing, Resync(p)
      PROVE  \/ UNCHANGED <<gate, armed>>
             \/ halted' = TRUE /\ reason' # "flow" /\ armed' = armed
  <2>1. CASE ReplayEffect(p)
    BY <2>1 DEF ReplayEffect, EventEffect, HaltUnlessHalted, Halt, ManualHalt
  <2>2. CASE FinishReplay(p)
    BY <2>2 DEF FinishReplay, Lifts, ManualHalt
  <2>3. CASE \E r \in Readings : ApplySnapshot(p, r)
    BY <2>3 DEF ApplySnapshot, UpdateGuard, HaltUnlessHalted, ManualHalt
  <2>4. CASE Acquire(p) \/ RestAnswers(p) \/ Replay(p) \/ Release(p)
               \/ CheckProtection(p)
    BY <2>4 DEF Acquire, RestAnswers, Replay, Release, CheckProtection
  <2>5. QED
    BY <1>8, <2>1, <2>2, <2>3, <2>4 DEF Resync
<1>9. ASSUME NEW p \in Syncing, RestFails(p)
      PROVE  \/ UNCHANGED <<gate, armed>>
             \/ halted' = TRUE /\ reason' # "flow" /\ armed' = armed
  BY <1>9 DEF RestFails, Halt
<1>10. CASE UNCHANGED vars
  BY <1>10 DEF vars, gate
<1> QED
  BY <1>1, <1>2, <1>3, <1>4, <1>5, <1>6, <1>7, <1>8, <1>9, <1>10 DEF Next

\* guarded and lifted change only with the actions of EndsHalt
LEMMA ObsStep ==
  ASSUME [Next]_vars, ~EndsHalt
  PROVE  UNCHANGED <<guarded, lifted>>
<1> USE DEF EndsHalt, obs
<1>1. CASE Startup
  BY <1>1 DEF Startup, ValidateMode, ValidateModeFails, WaitConnected,
         WaitConnectedFails, FinishBaseline, StartupComplete
<1>2. CASE Stream \/ Network
  BY <1>2 DEF Stream, Connect, SetStatus, Opened, Lost, SpawnVerify, Rotated,
         Closed, Applied, Network, Drop, Rotate, KeepAlive, HealthFails, Receive
<1>3. CASE Operator \/ Resumes
  BY <1>3 DEF Operator, Pause, CancelAndFlatten, PausedBy, StopEngine,
         ChangeLimits, ResumeBegins, Resumes, ResumeAllChecked, ResumeAllRefused
<1>4. CASE Cycle \/ RollDay \/ GuardAges
  BY <1>4 DEF Cycle, BreakerDefers, BreakerTrips, BreakerQuiet, RecheckQuiet,
         CheckLimits, Hold, Admit, Reject, Submit, RefreshFails, NextSymbol,
         EndCycle, MainStep, RollDay, GuardAges
<1>5. CASE \E p \in Syncing : Resync(p) \/ RestFails(p)
  BY <1>5 DEF Resync, Acquire, RestAnswers, ApplySnapshot, Replay, ReplayEffect,
         FinishReplay, Release, CheckProtection, RestFails
<1>6. CASE UNCHANGED vars
  BY <1>6 DEF vars
<1> QED
  BY <1>1, <1>2, <1>3, <1>4, <1>5, <1>6 DEF Next

\* A manual pause, a margin call, a tripped breaker or a failed query is lifted
\* by an operator's resume only: no resync (_rest_resync_with_event_buffer), no
\* attributed transfer (_update_capital_flow_guard) and no later fault turns it
\* into a halt that lifts itself, while the process lives.
THEOREM ManualHaltsLast == Spec => OnlyOperatorLifts
<1>1. TypeOK /\ BatchOK /\ [Next]_vars =>
        [halted /\ ~armed /\ reason # "flow" =>
           \/ halted' /\ ~armed' /\ reason' # "flow"
           \/ OperatorResumes \/ ProcessEnds \/ Booting]_vars
  <2> SUFFICES ASSUME TypeOK, BatchOK, [Next]_vars, ManualHalt
               PROVE  ManualHalt' \/ OperatorResumes \/ ProcessEnds \/ Booting
    BY DEF ManualHalt
  <2>1. CASE ~EndsHalt
    BY <2>1, ManualHaltKept
  <2>2. CASE Boot
    BY <2>2 DEF Boot, At, Booting
  <2>3. CASE ResumeStrategy \/ ResumeAllDone
    BY <2>3 DEF ResumeStrategy, ResumeAllDone, At, Go, OperatorResumes, TypeOK,
           Procs, Returns
  <2>4. CASE Shutdown \/ Restart
    BY <2>4 DEF Shutdown, Restart, Fresh, ProcessEnds, Procs
  <2>5. QED
    BY <2>1, <2>2, <2>3, <2>4 DEF EndsHalt
<1>2. QED
  BY <1>1, TypeCorrect, PTL DEF Spec, OnlyOperatorLifts

-----------------------------------------------------------------------------
(* The restart guard                                                         *)

\* before the settings are read nothing is armed and no stream task exists
BootOK == pc["main"] = "boot" => ~armed /\ ~guarded /\ pc["stream"] = "off"

LEMMA BootStep ==
  ASSUME TypeOK, BatchOK, BootOK, [Next]_vars
  PROVE  BootOK'
<1> USE DEF TypeOK, BootOK, Go, At, Procs, Syncing, obs
<1>1. CASE Startup
  BY <1>1 DEF Startup, Boot, ValidateMode, ValidateModeFails, WaitConnected,
         WaitConnectedFails, FinishBaseline, StartupComplete
<1>2. CASE Stream
  BY <1>2 DEF Stream, Connect, SetStatus, Opened, Lost, SpawnVerify, Rotated,
         Closed, Applied
<1>3. CASE Network
  BY <1>3 DEF Network, Drop, Rotate, SetStatus, KeepAlive, HealthFails, Receive
<1>4. CASE Operator
  BY <1>4 DEF Operator, Pause, CancelAndFlatten, PausedBy, StopEngine,
         ChangeLimits, ResumeBegins, Command
<1>5. CASE Resumes
  BY <1>5 DEF Resumes, ResumeStrategy, ResumeAllChecked, ResumeAllRefused,
         ResumeAllDone, Returns
<1>6. CASE Cycle
  BY <1>6 DEF Cycle, BreakerDefers, BreakerTrips, BreakerQuiet, RecheckQuiet,
         CheckLimits, Hold, Admit, Reject, Submit, RefreshFails, NextSymbol,
         EndCycle, MainStep, Snapshot, StartsCycle, Returns
<1>7. CASE RollDay \/ GuardAges
  BY <1>7 DEF RollDay, GuardAges
<1>8. CASE Shutdown \/ Restart
  BY <1>8 DEF Shutdown, Restart, Fresh
<1>9. ASSUME NEW p \in Syncing, Resync(p)
      PROVE  BootOK'
  <2>1. CASE FinishReplay(p)
    BY <2>1 DEF FinishReplay
  <2>2. CASE Release(p)
    BY <2>2 DEF Release, Returns
  <2>3. CASE \E r \in Readings : ApplySnapshot(p, r)
    BY <2>3 DEF ApplySnapshot
  <2>4. CASE Acquire(p)
    BY <2>4 DEF Acquire, Resyncers
  <2>5. CASE RestAnswers(p) \/ Replay(p)
    BY <2>5 DEF RestAnswers, Replay
  <2>6. CASE ReplayEffect(p) \/ CheckProtection(p)
    BY <2>6 DEF ReplayEffect, CheckProtection
  <2>7. QED
    BY <1>9, <2>1, <2>2, <2>3, <2>4, <2>5, <2>6 DEF Resync
<1>10. ASSUME NEW p \in Syncing, RestFails(p)
       PROVE  BootOK'
  BY <1>10 DEF RestFails
<1>11. CASE UNCHANGED vars
  BY <1>11 DEF vars
<1> QED
  BY <1>1, <1>2, <1>3, <1>4, <1>5, <1>6, <1>7, <1>8, <1>9, <1>10, <1>11 DEF Next

\* The pause a process starts with (mainnet, or persisted before) holds until an
\* operator resumes, whatever stream faults, resyncs, events, transfers and
\* startup failures come before. RestartGuardInv is the inductive form.
THEOREM RestartGuardHolds == Spec => []RestartGuard
<1>1. Init => RestartGuardInv /\ BootOK
  BY DEF Init, RestartGuardInv, BootOK, Procs
<1>2. TypeOK /\ BatchOK /\ RestartGuardInv /\ BootOK /\ [Next]_vars
        => (RestartGuardInv /\ BootOK)'
  <2> SUFFICES ASSUME TypeOK, BatchOK, RestartGuardInv, BootOK, [Next]_vars
               PROVE  RestartGuardInv' /\ BootOK'
    OBVIOUS
  <2>1. BootOK'
    BY BootStep
  <2>2. RestartGuardInv'
    <3>1. CASE ~EndsHalt /\ ManualHalt
      BY <3>1, ManualHaltKept, ObsStep DEF RestartGuardInv, ManualHalt
    <3>2. CASE ~EndsHalt /\ ~ManualHalt
      BY <3>2, ObsStep DEF RestartGuardInv, ManualHalt
    <3>3. CASE Boot
      BY <3>3, ModeAssumption DEF Boot, BootOK, RestartGuardInv, At, Halt, Resume
    <3>4. CASE ResumeStrategy \/ ResumeAllDone
      BY <3>4 DEF ResumeStrategy, ResumeAllDone, RestartGuardInv
    <3>5. CASE Shutdown \/ Restart
      BY <3>5 DEF Shutdown, Restart, Fresh, RestartGuardInv
    <3>6. QED
      BY <3>1, <3>2, <3>3, <3>4, <3>5 DEF EndsHalt
  <2>3. QED
    BY <2>1, <2>2
<1>3. RestartGuardInv => RestartGuard
  BY DEF RestartGuardInv, RestartGuard
<1>4. QED
  BY <1>1, <1>2, <1>3, TypeCorrect, PTL DEF Spec
=============================================================================
