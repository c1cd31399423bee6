------------------------- MODULE EntryGateEventProofs -------------------------
(***************************************************************************)
(* Proofs about EntryGate, continued: private events and REST answers.  At *)
(* most one task is between asking for a REST answer and lifting the pause *)
(* of a stream fault, and events wait in the buffer meanwhile; hence every *)
(* event is applied in order, and none before an older answer.             *)
(***************************************************************************)
EXTENDS EntryGateProofs

\* The startup baseline asks REST without the lock.  It is alone only if no
\* stream fault and no event under review spawns a reconcile task before it ends.
QuietStartup == ~DropsWhileBooting /\ "REVIEW" \notin EventKinds

\* a task between its request and the release of the lock
Past(p) == pc[p] \in {"rest", "snap", "replay", "effect", "release"}
\* ... while events have to wait
Asking(p) == pc[p] \in {"rest", "snap", "replay", "effect"}

Starting == {"boot", "validate", "wait", "booted", "failed_mode", "exit"}
Running  == {"lock", "release", "idle", "recheck", "symbol", "submit", "after",
             "resume", "resume_all", "enable", "limits"}

\* who has the lock, and that a startup is alone
LockOK ==
  /\ \A p \in Resyncers : Past(p) => lock = p
  /\ started /\ Past("main") => lock = "main"
  /\ pc["main"] \in Starting \cup Running \cup {"rest", "snap", "replay", "effect"}
  /\ pc["main"] \in Starting => ~started
  /\ pc["main"] \in Running => started
  /\ ~started => /\ \A p \in Resyncers : pc[p] = "idle" /\ due[p] = 0
                 /\ pc["stream"] \in {"off", "down", "open", "up", "apply"}

\* every event is of a kind the stream delivers
Known    == {e \in Events : e.kind \in EventKinds \cup {"OTHER"}}
EventsOK == /\ buffer \in Seq(Known) /\ hand \in Known
            /\ \A p \in Procs : batch[p] \in Seq(Known)

\* while a REST answer is awaited or applied, events wait
BufferOK ==
  /\ \A p \in Syncing : Asking(p) => buffering
  /\ pc["main"] \in {"boot", "validate", "wait"} => buffering
  /\ ~buffering => buffer = <<>>
  /\ \A p \in Syncing : batch[p] # <<>> => pc[p] \in {"replay", "effect"}

-----------------------------------------------------------------------------
(* The kinds of events                                                      *)

\* events: a sequence that is taken apart or extended keeps its kinds
LEMMA KnownSeqs ==
  ASSUME NEW s \in Seq(Known)
  PROVE  /\ s # <<>> => Head(s) \in Known /\ Tail(s) \in Seq(Known)
         /\ \A e \in Known : Append(s, e) \in Seq(Known)
         /\ <<>> \in Seq(Known)
BY EmptySeq, AppendProperties, HeadTailProperties

LEMMA NoEventKnown == NoEvent \in Known
BY DEF NoEvent, Known, Events, AllEventKinds

LEMMA KindsStep ==
  ASSUME TypeOK, BatchOK, EventsOK, [Next]_vars
  PROVE  EventsOK'
<1> USE DEF EventsOK, events
<1>1. CASE Startup
  BY <1>1 DEF Startup, Boot, ValidateMode, ValidateModeFails, WaitConnected,
         WaitConnectedFails, FinishBaseline, StartupComplete
<1>2. CASE Stream
  BY <1>2, NoEventKnown DEF Stream, Connect, SetStatus, Opened, Lost,
         SpawnVerify, Rotated, Closed, Applied
<1>3. CASE Network
  <2>1. CASE \E k \in EventKinds : Receive(k)
    <3> PICK k \in EventKinds : Receive(k)
      BY <2>1
    <3> DEFINE e == [no |-> tally["events"] + 1, kind |-> k]
    <3>1. e \in Known
      BY InputAssumption DEF Known, Events, TypeOK, Tallied
    <3> HIDE DEF e
    <3>2. /\ buffer' \in {buffer, Append(buffer, e)} /\ hand' \in {hand, e}
          /\ batch' = batch
      BY DEF Receive, e
    <3>3. QED
      BY <3>1, <3>2, KnownSeqs
  <2>2. CASE ~ \E k \in EventKinds : Receive(k)
    BY <1>3, <2>2 DEF Network, Drop, Rotate, SetStatus, KeepAlive, HealthFails
  <2>3. QED
    BY <2>1, <2>2
<1>4. CASE Operator
  BY <1>4 DEF Operator, Pause, CancelAndFlatten, PausedBy, StopEngine,
         ChangeLimits, ResumeBegins
<1>5. CASE Resumes
  BY <1>5 DEF Resumes, ResumeStrategy, ResumeAllChecked, ResumeAllRefused,
         ResumeAllDone
<1>6. CASE Cycle
  BY <1>6 DEF Cycle, BreakerDefers, BreakerTrips, BreakerQuiet, RecheckQuiet,
         CheckLimits, Hold, Admit, Reject, Submit, RefreshFails, NextSymbol,
         EndCycle, MainStep
<1>7. CASE RollDay \/ GuardAges
  BY <1>7 DEF RollDay, GuardAges
<1>8. CASE Shutdown \/ Restart
  BY <1>8, NoEventKnown, KnownSeqs DEF Shutdown, Restart, Fresh
<1>9. ASSUME NEW p \in Syncing, Resync(p) \/ RestFails(p)
      PROVE  EventsOK'
  <2>0. p \in Procs /\ batch \in [Procs -> Seq(Events)]
    BY DEF Syncing, Procs, TypeOK
  <2>1. CASE Replay(p)
    <3>1. Pending(p) \in Seq(Known)
      BY <2>0 DEF Pending
    <3>2. batch' = [batch EXCEPT ![p] = Pending(p)] /\ hand' = hand
      BY <2>1 DEF Replay
    <3>3. buffer' = buffer \/ buffer' = <<>>
      BY <2>1 DEF Replay
    <3>4. QED
      BY <2>0, <3>1, <3>2, <3>3, KnownSeqs
  <2>2. CASE ReplayEffect(p)
    <3>1. batch[p] # <<>>
      BY <2>0, <2>2 DEF ReplayEffect, At, BatchOK
    <3>2. Tail(batch[p]) \in Seq(Known)
      BY <2>0, <3>1, KnownSeqs
    <3>3. QED
      BY <2>0, <2>2, <3>2 DEF ReplayEffect
  <2>3. CASE ~(Replay(p) \/ ReplayEffect(p))
    BY <1>9, <2>3 DEF Resync, Acquire, StartBuffering, RestAnswers, ApplySnapshot,
           FinishReplay, Release, CheckProtection, RestFails
  <2>4. QED
    BY <2>1, <2>2, <2>3
<1>10. CASE UNCHANGED vars
  BY <1>10 DEF vars
<1> QED
  BY <1>1, <1>2, <1>3, <1>4, <1>5, <1>6, <1>7, <1>8, <1>9, <1>10 DEF Next

-----------------------------------------------------------------------------
(* The lock                                                                 *)

LEMMA LockStep ==
  ASSUME TypeOK, BatchOK, EventsOK, LockOK, QuietStartup, [Next]_vars
  PROVE  LockOK'
<1> USE DEF TypeOK, LockOK, Past, Starting, Running, Go, At, Procs, Syncing,
        Resyncers
<1>1. CASE Startup
  <2>1. CASE Boot \/ ValidateModeFails \/ WaitConnected
    <3>1. /\ UNCHANGED <<lock, started, due>> /\ pc["main"] \in {"boot", "validate", "wait"}
          /\ \E l \in {"validate", "failed_mode", "rest"} : Go("main", l)
      BY <2>1 DEF Boot, ValidateModeFails, WaitConnected
    <3>2. QED
      BY <3>1
  <2>2. CASE ValidateMode
    BY <2>2 DEF ValidateMode
  <2>3. CASE FinishBaseline
    BY <2>3 DEF FinishBaseline
  <2>4. CASE StartupComplete
    BY <2>4 DEF StartupComplete
  <2>5. QED
    BY <1>1, <2>1, <2>2, <2>3, <2>4 DEF Startup, WaitConnectedFails, QuietStartup
<1>2. CASE Stream
  <2>1. CASE Applied
    <3>1. hand.kind # "REVIEW" \/ started
      BY DEF EventsOK, Known, QuietStartup
    <3>2. CASE started
      BY <2>1, <3>2 DEF Applied
    <3>3. CASE ~started
      BY <2>1, <3>1, <3>3 DEF Applied, EventEffect
    <3>4. QED
      BY <3>2, <3>3
  <2>2. CASE Connect \/ Opened \/ SpawnVerify \/ Closed
    BY <2>2 DEF Connect, SetStatus, Opened, SpawnVerify, Closed
  <2>3. CASE Lost \/ Rotated
    BY <2>3 DEF Lost, Rotated
  <2>4. QED
    BY <1>2, <2>1, <2>2, <2>3 DEF Stream
<1>3. CASE Network
  <2>1. CASE Drop \/ Rotate
    BY <2>1 DEF Drop, Rotate, SetStatus, MayDrop, QuietStartup
  <2>2. CASE KeepAlive
    BY <2>2 DEF KeepAlive
  <2>3. CASE HealthFails
    BY <2>3 DEF HealthFails, SetStatus, MayDrop, QuietStartup
  <2>4. CASE \E k \in EventKinds : Receive(k)
    <3>1. /\ UNCHANGED <<lock, started, due>> /\ pc["stream"] = "up"
          /\ pc' = pc \/ Go("stream", "apply")
      BY <2>4 DEF Receive
    <3>2. QED
      BY <3>1
  <2>5. QED
    BY <1>3, <2>1, <2>2, <2>3, <2>4 DEF Network
<1>4. CASE Operator
  <2>1. /\ UNCHANGED <<lock, started, due>> /\ pc["main"] \in {"idle", "after"}
        /\ \/ pc' = pc
           \/ \E l \in {"limits", "resume", "resume_all"} : Go("main", l)
    BY <1>4 DEF Operator, Pause, CancelAndFlatten, PausedBy, StopEngine,
           ChangeLimits, ResumeBegins, Command
  <2>2. QED
    BY <2>1
<1>5. CASE Resumes
  BY <1>5 DEF Resumes, ResumeStrategy, ResumeAllChecked, ResumeAllRefused,
         ResumeAllDone, Returns
<1>6. CASE Cycle
  BY <1>6 DEF Cycle, BreakerDefers, BreakerTrips, BreakerQuiet, RecheckQuiet,
         CheckLimits, Hold, Admit, Reject, Submit, RefreshFails, NextSymbol,
         EndCycle, MainStep, Snapshot, StartsCycle, Returns
<1>7. CASE RollDay \/ GuardAges
  BY <1>7 DEF RollDay, GuardAges
<1>8. CASE Shutdown \/ Restart
  BY <1>8 DEF Shutdown, Restart, Fresh
<1>9. ASSUME NEW p \in Syncing, Resync(p)
      PROVE  LockOK'
  <2>1. CASE FinishReplay(p)
    BY <2>1 DEF FinishReplay
  <2>2. CASE Release(p)
    BY <2>2 DEF Release, Returns
  <2>3. CASE \E r \in Readings : ApplySnapshot(p, r)
    BY <2>3 DEF ApplySnapshot
  <2>4. CASE Acquire(p)
    BY <2>4 DEF Acquire, Due
  <2>5. CASE RestAnswers(p) \/ Replay(p)
    <3>1. /\ UNCHANGED <<lock, started, due>> /\ Asking(p)
          /\ Go(p, "snap") \/ Go(p, "effect")
      BY <2>5 DEF RestAnswers, Replay, Asking
    <3>2. QED
      BY <3>1 DEF Asking
  <2>6. CASE ReplayEffect(p)
    <3>1. batch[p] \in Seq(Known) /\ batch[p] # <<>>
      BY <2>6 DEF ReplayEffect, BatchOK, EventsOK
    <3>2. Head(batch[p]).kind # "REVIEW"
      BY <3>1, KnownSeqs DEF Known, QuietStartup
    <3>3. due' = due
      BY <2>6, <3>2 DEF ReplayEffect, EventEffect
    <3>4. QED
      BY <2>6, <3>3 DEF ReplayEffect
  <2>7. CASE CheckProtection(p)
    BY <2>7 DEF CheckProtection
  <2>8. QED
    BY <1>9, <2>1, <2>2, <2>3, <2>4, <2>5, <2>6, <2>7 DEF Resync
<1>10. ASSUME NEW p \in Syncing, RestFails(p)
       PROVE  LockOK'
  BY <1>10 DEF RestFails
<1>11. CASE UNCHANGED vars
  BY <1>11 DEF vars
<1> QED
  BY <1>1, <1>2, <1>3, <1>4, <1>5, <1>6, <1>7, <1>8, <1>9, <1>10, <1>11 DEF Next

\* two tasks are never both between a request and the release of the lock
LEMMA OneTaskPast ==
  ASSUME LockOK, NEW p \in Syncing, NEW q \in Syncing, Past(p), Past(q)
  PROVE  p = q
BY DEF LockOK, Past, Syncing, Resyncers

-----------------------------------------------------------------------------
(* The buffer                                                               *)

\* a step of another task that takes nothing out of the buffer
LEMMA BufferFrame ==
  ASSUME BufferOK, UNCHANGED <<buffering, batch>>, ~buffering => buffer' = buffer,
         \A q \in Syncing : pc'[q] = pc[q]
  PROVE  BufferOK'
<1>1. buffering' = buffering /\ batch' = batch /\ pc'["main"] = pc["main"]
  BY DEF Syncing
<1>2. \A q \in Syncing : Asking(q)' => Asking(q)
  BY DEF Asking
<1>3. (~buffering => buffer = <<>>)'
  BY <1>1 DEF BufferOK
<1>4. (\A q \in Syncing : batch[q] # <<>> => pc[q] \in {"replay", "effect"})'
  BY <1>1 DEF BufferOK
<1> QED
  BY <1>1, <1>2, <1>3, <1>4 DEF BufferOK

LEMMA BufferStep ==
  ASSUME TypeOK, BatchOK, EventsOK, LockOK, BufferOK, QuietStartup, [Next]_vars
  PROVE  BufferOK'
<1> USE DEF TypeOK, BufferOK, Asking, Go, At, Procs, Syncing, Resyncers, events
<1>1. CASE Startup
  <2>1. CASE Boot \/ ValidateMode \/ ValidateModeFails \/ WaitConnected
    BY <2>1 DEF Boot, ValidateMode, ValidateModeFails, WaitConnected
  <2>2. CASE FinishBaseline
    BY <2>2 DEF FinishBaseline, Pending, LockOK
  <2>3. CASE StartupComplete
    BY <2>3 DEF StartupComplete
  <2>4. QED
    BY <1>1, <2>1, <2>2, <2>3 DEF Startup, WaitConnectedFails, QuietStartup
<1>2. CASE Stream
  BY <1>2 DEF Stream, Connect, SetStatus, Opened, Lost, SpawnVerify, Rotated,
         Closed, Applied
<1>3. CASE Network
  <2>1. CASE \E k \in EventKinds : Receive(k)
    <3>1. /\ UNCHANGED <<buffering, batch>>
          /\ pc' = pc \/ Go("stream", "apply")
          /\ ~buffering => buffer' = buffer
      BY <2>1 DEF Receive
    <3>2. \A q \in Syncing : pc'[q] = pc[q]
      BY <3>1
    <3>3. QED
      BY <3>1, <3>2, BufferFrame
  <2>2. CASE ~ \E k \in EventKinds : Receive(k)
    BY <1>3, <2>2 DEF Network, Drop, Rotate, SetStatus, KeepAlive, HealthFails
  <2>3. QED
    BY <2>1, <2>2
<1>4. CASE Operator
  BY <1>4 DEF Operator, Pause, CancelAndFlatten, PausedBy, StopEngine,
         ChangeLimits, ResumeBegins, Command
<1>5. CASE Resumes
  BY <1>5 DEF Resumes, ResumeStrategy, ResumeAllChecked, ResumeAllRefused,
         ResumeAllDone, Returns
<1>6. CASE Cycle
  BY <1>6 DEF Cycle, BreakerDefers, BreakerTrips, BreakerQuiet, RecheckQuiet,
         CheckLimits, Hold, Admit, Reject, Submit, RefreshFails, NextSymbol,
         EndCycle, MainStep, Snapshot, StartsCycle, Returns
<1>7. CASE RollDay \/ GuardAges
  BY <1>7 DEF RollDay, GuardAges
<1>8. CASE Shutdown \/ Restart
  BY <1>8 DEF Shutdown, Restart, Fresh
<1>9. ASSUME NEW p \in Syncing, Resync(p)
      PROVE  BufferOK'
  <2>1. CASE FinishReplay(p)
    <3>1. /\ Past(p) /\ buffer' = <<>> /\ buffer = <<>> /\ batch[p] = <<>>
          /\ batch' = batch /\ Go(p, "release")
      BY <2>1 DEF FinishReplay, Pending, Past
    <3>2. \A q \in Syncing : Asking(q) => q = p
      BY <3>1, OneTaskPast DEF Past
    <3>3. \A q \in Syncing : ~Asking(q)' /\ batch'[q] = <<>>
      BY <3>1, <3>2
    <3>4. pc'["main"] \notin {"boot", "validate", "wait"}
      BY <3>1 DEF LockOK, Past, Starting
    <3>5. QED
      BY <3>1, <3>3, <3>4
  <2>2. CASE Release(p)
    BY <2>2 DEF Release, Returns
  <2>3. CASE \E r \in Readings : ApplySnapshot(p, r)
    BY <2>3 DEF ApplySnapshot
  <2>4. CASE Acquire(p)
    <3>1. buffering' /\ batch' = batch /\ Go(p, "rest") /\ pc[p] \in {"lock", "idle"}
      BY <2>4 DEF Acquire, StartBuffering, Due
    <3>2. QED
      BY <3>1
  <2>5. CASE RestAnswers(p)
    BY <2>5 DEF RestAnswers
  <2>6. CASE Replay(p)
    BY <2>6 DEF Replay
  <2>7. CASE ReplayEffect(p)
    BY <2>7 DEF ReplayEffect
  <2>8. CASE CheckProtection(p)
    BY <2>8 DEF CheckProtection
  <2>9. QED
    BY <1>9, <2>1, <2>2, <2>3, <2>4, <2>5, <2>6, <2>7, <2>8 DEF Resync
<1>10. ASSUME NEW p \in Syncing, RestFails(p)
       PROVE  BufferOK'
  BY <1>10 DEF RestFails
<1>11. CASE UNCHANGED vars
  BY <1>11 DEF vars
<1> QED
  BY <1>1, <1>2, <1>3, <1>4, <1>5, <1>6, <1>7, <1>8, <1>9, <1>10, <1>11 DEF Next

SyncOK == TypeOK /\ BatchOK /\ EventsOK /\ LockOK /\ BufferOK

LEMMA SyncInit == Init => SyncOK
<1> SUFFICES ASSUME Init PROVE SyncOK
  OBVIOUS
<1>1. TypeOK /\ BatchOK
  BY InitTypes
<1>2. EventsOK
  BY NoEventKnown, EmptySeq DEF Init, EventsOK
<1>3. LockOK /\ BufferOK
  BY DEF Init, LockOK, BufferOK, Past, Asking, Starting, Running, Procs, Syncing,
     Resyncers
<1> QED
  BY <1>1, <1>2, <1>3 DEF SyncOK

THEOREM SyncCorrect == ASSUME QuietStartup PROVE Spec => []SyncOK
<1>1. SyncOK /\ TypeOK' /\ BatchOK' /\ [Next]_vars => SyncOK'
  BY KindsStep, LockStep, BufferStep DEF SyncOK
<1>2. QED
  BY SyncInit, <1>1, TypeCorrect, PTL DEF Spec

\* a step that hands an event to the projection
LEMMA AppliedBy ==
  ASSUME TypeOK, [Next]_vars, applied' # applied
  PROVE  \/ \E p \in Syncing : Replay(p)
         \/ ~buffering /\ \E k \in EventKinds : Receive(k)
         \/ ProcessEnds
<1> USE DEF events
<1>1. CASE Startup \/ Stream
  BY <1>1 DEF Startup, Boot, ValidateMode, ValidateModeFails, WaitConnected,
         WaitConnectedFails, FinishBaseline, StartupComplete,
         Stream, Connect, SetStatus, Opened, Lost, SpawnVerify, Rotated,
         Closed, Applied
<1>2. CASE Network
  BY <1>2 DEF Network, Drop, Rotate, SetStatus, KeepAlive, HealthFails, Receive
<1>3. CASE Operator \/ Resumes
  BY <1>3 DEF Operator, Pause, CancelAndFlatten, PausedBy, StopEngine,
         ChangeLimits, ResumeBegins, Resumes, ResumeStrategy, ResumeAllChecked,
         ResumeAllRefused, ResumeAllDone
<1>4. CASE Cycle \/ RollDay \/ GuardAges
  BY <1>4 DEF Cycle, BreakerDefers, BreakerTrips, BreakerQuiet, RecheckQuiet,
         CheckLimits, Hold, Admit, Reject, Submit, RefreshFails, NextSymbol,
         EndCycle, MainStep, RollDay, GuardAges
<1>5. CASE Shutdown \/ Restart
  BY <1>5 DEF Shutdown, Restart, Fresh, ProcessEnds, Procs
<1>6. ASSUME NEW p \in Syncing, Resync(p) \/ RestFails(p)
      PROVE  Replay(p)
  BY <1>6 DEF Resync, Acquire, StartBuffering, RestAnswers, ApplySnapshot,
         ReplayEffect, FinishReplay, Release, CheckProtection, RestFails
<1>7. CASE UNCHANGED vars
  BY <1>7 DEF vars
<1> QED
  BY <1>1, <1>2, <1>3, <1>4, <1>5, <1>6, <1>7 DEF Next

\* No private event is handed to the projection while a task holds a REST answer
\* it has not applied: events wait in the buffer from the request on, and the one
\* task that replays them is the one that applied its answer before.
THEOREM SnapshotsComeFirst ==
  ASSUME QuietStartup PROVE Spec => NoEventOvertakesSnapshot
<1>1. SyncOK /\ [Next]_vars
        => [applied' # applied /\ ~ProcessEnds =>
              \A p \in Syncing : pc[p] # "snap"]_vars
  <2> SUFFICES ASSUME SyncOK, [Next]_vars, applied' # applied, ~ProcessEnds,
                      NEW p \in Syncing, pc[p] = "snap"
               PROVE  FALSE
    OBVIOUS
  <2>1. buffering /\ Past(p)
    BY DEF SyncOK, BufferOK, Asking, Past
  <2>2. PICK q \in Syncing : Replay(q)
    BY <2>1, AppliedBy DEF SyncOK
  <2>3. p = q
    BY <2>1, <2>2, OneTaskPast DEF SyncOK, Past, Replay, At
  <2>4. QED
    BY <2>2, <2>3 DEF Replay, At
<1>2. QED
  BY <1>1, SyncCorrect, PTL DEF Spec, NoEventOvertakesSnapshot

-----------------------------------------------------------------------------
(* Every event once and in order                                            *)

\* the waiting events w follow the a events applied, up to the n received
InOrder(w, a, n) == /\ a + Len(w) = n
                    /\ \A i \in 1..Len(w) : w[i].no = a + i

\* the first waiting event is the next one, and applying it keeps the order
LEMMA NextInOrder ==
  ASSUME NEW w \in Seq(Events), w # <<>>, NEW a \in Nat, NEW n \in Nat,
         InOrder(w, a, n)
  PROVE  Head(w).no = a + 1 /\ InOrder(Tail(w), a + 1, n)
<1>1. /\ Len(w) \in Nat \ {0} /\ Len(Tail(w)) = Len(w) - 1
      /\ \A i \in 1..Len(Tail(w)) : Tail(w)[i] = w[i + 1]
  BY EmptySeq, HeadTailProperties
<1>2. Head(w) = w[1]
  BY <1>1
<1>3. QED
  BY <1>1, <1>2 DEF InOrder

\* an event received is the last one
LEMMA LastInOrder ==
  ASSUME NEW w \in Seq(Events), NEW e \in Events, NEW a \in Nat, NEW n \in Nat,
         InOrder(w, a, n), e.no = n + 1
  PROVE  InOrder(Append(w, e), a, n + 1)
BY AppendProperties, LenProperties DEF InOrder

LEMMA AppendToConcat ==
  ASSUME NEW s \in Seq(Events), NEW t \in Seq(Events), NEW e \in Events
  PROVE  s \o Append(t, e) = Append(s \o t, e)
<1>1. <<e>> \in Seq(Events) /\ s \o t \in Seq(Events)
  BY ConcatProperties
<1>2. Append(t, e) = t \o <<e>> /\ Append(s \o t, e) = (s \o t) \o <<e>>
  BY <1>1, AppendIsConcat
<1>3. QED
  BY <1>1, <1>2, ConcatAssociative

LEMMA FirstOfConcat ==
  ASSUME NEW s \in Seq(Events), s # <<>>, NEW t \in Seq(Events)
  PROVE  /\ s \o t \in Seq(Events) /\ s \o t # <<>>
         /\ Head(s \o t) = Head(s) /\ Tail(s \o t) = Tail(s) \o t
<1>1. /\ Len(s) \in Nat \ {0} /\ Len(t) \in Nat
      /\ Tail(s) \in Seq(Events) /\ Len(Tail(s)) = Len(s) - 1
      /\ \A i \in 1..Len(Tail(s)) : Tail(s)[i] = s[i + 1]
  BY EmptySeq, LenProperties, HeadTailProperties
<1>2. /\ s \o t \in Seq(Events) /\ Len(s \o t) = Len(s) + Len(t)
      /\ \A i \in 1..Len(s) + Len(t) :
           (s \o t)[i] = IF i <= Len(s) THEN s[i] ELSE t[i - Len(s)]
  BY ConcatProperties
<1>3. s \o t # <<>>
  BY <1>1, <1>2, EmptySeq
<1>4. Head(s \o t) = Head(s)
  BY <1>1, <1>2
<1>5. /\ Tail(s \o t) \in Seq(Events) /\ Len(Tail(s \o t)) = Len(s) + Len(t) - 1
      /\ \A i \in 1..Len(Tail(s \o t)) : Tail(s \o t)[i] = (s \o t)[i + 1]
  BY <1>2, <1>3, HeadTailProperties
<1>6. /\ Tail(s) \o t \in Seq(Events) /\ Len(Tail(s) \o t) = Len(s) + Len(t) - 1
      /\ \A i \in 1..Len(s) + Len(t) - 1 :
           (Tail(s) \o t)[i] = IF i <= Len(s) - 1 THEN Tail(s)[i]
                               ELSE t[i - (Len(s) - 1)]
  BY <1>1, ConcatProperties
<1>7. \A i \in 1..Len(Tail(s \o t)) : Tail(s \o t)[i] = (Tail(s) \o t)[i]
  <2> TAKE i \in 1..Len(Tail(s \o t))
  <2>1. CASE i <= Len(s) - 1
    BY <2>1, <1>1, <1>2, <1>5, <1>6
  <2>2. CASE i > Len(s) - 1
    BY <2>2, <1>1, <1>2, <1>5, <1>6
  <2>3. QED
    BY <2>1, <2>2, <1>1, <1>5
<1>8. QED
  BY <1>2, <1>3, <1>4, <1>5, <1>6, <1>7, SeqEqual

\* no task but p has events to apply
Others(p) == \A q \in Syncing \ {p} : batch[q] = <<>>

LEMMA InFlightTypes ==
  ASSUME TypeOK, BatchOK, NEW p \in Syncing
  PROVE  /\ InFlight(p) \in Seq(Events)
         /\ batch[p] = <<>> => InFlight(p) = <<>>
<1>1. p \in Procs /\ batch[p] \in Seq(Events)
  BY DEF Syncing, Procs, TypeOK
<1>2. pc[p] = "effect" => batch[p] # <<>>
  BY <1>1 DEF BatchOK
<1>3. QED
  BY <1>1, <1>2, HeadTailProperties DEF InFlight

\* the events of one task and of the buffer are then all that wait
LEMMA WaitingIs ==
  ASSUME TypeOK, BatchOK, NEW p \in Syncing, Others(p)
  PROVE  Waiting = InFlight(p) \o buffer
<1>1. /\ "main" \in Syncing /\ "periodic" \in Syncing /\ "verify" \in Syncing
      /\ "adhoc" \in Syncing
      /\ p \in {"main", "periodic", "verify", "adhoc"}
  BY DEF Syncing, Resyncers
<1>2. /\ \A q \in Syncing : InFlight(q) \in Seq(Events)
      /\ \A q \in Syncing : q # p => InFlight(q) = <<>>
      /\ buffer \in Seq(Events)
  BY InFlightTypes DEF Others, TypeOK
<1>3. /\ <<>> \in Seq(Events) /\ <<>> \o <<>> = <<>>
      /\ InFlight(p) \o <<>> = InFlight(p) /\ <<>> \o InFlight(p) = InFlight(p)
  BY <1>2, EmptySeq, ConcatEmptySeq
<1>4. CASE p = "main"
  <2>1. Waiting = InFlight("main") \o <<>> \o <<>> \o <<>> \o buffer
    BY <1>1, <1>2, <1>4 DEF Waiting
  <2>2. QED
    BY <1>3, <1>4, <2>1
<1>5. CASE p = "periodic"
  <2>1. Waiting = <<>> \o InFlight("periodic") \o <<>> \o <<>> \o buffer
    BY <1>1, <1>2, <1>5 DEF Waiting
  <2>2. QED
    BY <1>3, <1>5, <2>1
<1>6. CASE p = "verify"
  <2>1. Waiting = <<>> \o <<>> \o InFlight("verify") \o <<>> \o buffer
    BY <1>1, <1>2, <1>6 DEF Waiting
  <2>2. QED
    BY <1>3, <1>6, <2>1
<1>7. CASE p = "adhoc"
  <2>1. Waiting = <<>> \o <<>> \o <<>> \o InFlight("adhoc") \o buffer
    BY <1>1, <1>2, <1>7 DEF Waiting
  <2>2. QED
    BY <1>3, <1>7, <2>1
<1>8. QED
  BY <1>1, <1>4, <1>5, <1>6, <1>7

\* the same of the state after a step
LEMMA WaitingWillBe ==
  \A p \in Syncing : (TypeOK /\ BatchOK /\ Others(p)
                        => Waiting = InFlight(p) \o buffer)'
<1>1. \A p \in Syncing : TypeOK /\ BatchOK /\ Others(p)
                            => Waiting = InFlight(p) \o buffer
  BY WaitingIs
<1>2. (\A p \in Syncing : TypeOK /\ BatchOK /\ Others(p)
                             => Waiting = InFlight(p) \o buffer)'
  BY <1>1, PTL
<1>3. QED
  BY <1>2

\* a task that is past its request is the one
LEMMA PastIsAlone ==
  ASSUME SyncOK, NEW p \in Syncing, Past(p)
  PROVE  Others(p)
<1> SUFFICES ASSUME NEW q \in Syncing, batch[q] # <<>>
             PROVE  q = p
  BY DEF Others
<1>1. Past(q)
  BY DEF SyncOK, BufferOK, Past
<1>2. QED
  BY <1>1, OneTaskPast DEF SyncOK

LEMMA OneHasEvents ==
  ASSUME SyncOK
  PROVE  \E p \in Syncing : Others(p)
<1>1. CASE \E p \in Syncing : Past(p)
  BY <1>1, PastIsAlone
<1>2. CASE \A p \in Syncing : ~Past(p)
  BY <1>2 DEF SyncOK, BufferOK, Past, Others, Syncing
<1>3. QED
  BY <1>1, <1>2

\* what the order of the waiting events depends on
NoEventMoves == /\ UNCHANGED <<batch, buffer, applied>>
                /\ tally'["events"] = tally["events"]
                /\ \A p \in Syncing : (pc'[p] = "effect") = (pc[p] = "effect")

\* all but four kinds of step leave it alone
LEMMA EventsStay ==
  ASSUME TypeOK, [Next]_vars
  PROVE  \/ NoEventMoves
         \/ \E p \in Syncing : Replay(p) \/ ReplayEffect(p)
         \/ \E k \in EventKinds : Receive(k)
         \/ Shutdown \/ Restart
<1> USE DEF TypeOK, Go, At, Procs, Syncing, Resyncers, events, Count, Tallied
<1>1. CASE Startup
  <2>1. CASE Boot \/ ValidateMode \/ ValidateModeFails \/ WaitConnected
    BY <2>1 DEF Boot, ValidateMode, ValidateModeFails, WaitConnected, NoEventMoves
  <2>2. CASE WaitConnectedFails \/ FinishBaseline \/ StartupComplete
    BY <2>2 DEF WaitConnectedFails, FinishBaseline, StartupComplete, NoEventMoves
  <2>3. QED
    BY <1>1, <2>1, <2>2 DEF Startup
<1>2. CASE Stream
  BY <1>2 DEF Stream, Connect, SetStatus, Opened, Lost, SpawnVerify, Rotated,
         Closed, Applied, NoEventMoves
<1>3. CASE Network
  BY <1>3 DEF Network, Drop, Rotate, SetStatus, KeepAlive, HealthFails, NoEventMoves
<1>4. CASE Operator
  BY <1>4 DEF Operator, Pause, CancelAndFlatten, PausedBy, StopEngine,
         ChangeLimits, ResumeBegins, Command, NoEventMoves
<1>5. CASE Resumes
  BY <1>5 DEF Resumes, ResumeStrategy, ResumeAllChecked, ResumeAllRefused,
         ResumeAllDone, Returns, NoEventMoves
<1>6. CASE Cycle
  BY <1>6 DEF Cycle, BreakerDefers, BreakerTrips, BreakerQuiet, RecheckQuiet,
         CheckLimits, Hold, Admit, Reject, Submit, RefreshFails, NextSymbol,
         EndCycle, MainStep, Snapshot, StartsCycle, Returns,
         NoEventMoves
<1>7. CASE RollDay \/ GuardAges
  BY <1>7 DEF RollDay, GuardAges, NoEventMoves
<1>8. ASSUME NEW p \in Syncing, Resync(p) \/ RestFails(p),
             ~(Replay(p) \/ ReplayEffect(p))
      PROVE  NoEventMoves
  <2>1. CASE Release(p)
    BY <2>1 DEF Release, Returns, NoEventMoves
  <2>2. CASE \E r \in Readings : ApplySnapshot(p, r)
    BY <2>2 DEF ApplySnapshot, NoEventMoves
  <2>3. CASE Acquire(p)
    BY <2>3 DEF Acquire, Due, StartBuffering, NoEventMoves
  <2>4. CASE RestAnswers(p) \/ CheckProtection(p)
    BY <2>4 DEF RestAnswers, CheckProtection, NoEventMoves
  <2>5. CASE FinishReplay(p)
    BY <2>5 DEF FinishReplay, NoEventMoves
  <2>6. CASE RestFails(p)
    BY <2>6 DEF RestFails, NoEventMoves
  <2>7. QED
    BY <1>8, <2>1, <2>2, <2>3, <2>4, <2>5, <2>6 DEF Resync
<1>9. CASE UNCHANGED vars
  BY <1>9 DEF vars, NoEventMoves
<1> QED
  BY <1>1, <1>2, <1>3, <1>4, <1>5, <1>6, <1>7, <1>8, <1>9 DEF Next

LEMMA InOrderStep ==
  ASSUME SyncOK, SyncOK', EventsInOrder, QuietStartup, BufferLimit >= MaxEvents,
         [Next]_vars
  PROVE  EventsInOrder'
<1> DEFINE n == tally["events"]
<1>1. /\ TypeOK /\ BatchOK /\ TypeOK' /\ BatchOK'
      /\ applied \in Nat /\ n \in Nat /\ buffer \in Seq(Events)
      /\ batch \in [Procs -> Seq(Events)] /\ Syncing \subseteq Procs
  BY DEF SyncOK, TypeOK, Tallied, Syncing, Procs
<1>2. InOrder(Waiting, applied, n)
  BY DEF EventsInOrder, InOrder
<1>3. PICK o \in Syncing : Others(o)
  BY OneHasEvents
<1>4. Waiting = InFlight(o) \o buffer /\ Waiting \in Seq(Events)
  BY <1>1, <1>3, WaitingIs, InFlightTypes, ConcatProperties
<1> SUFFICES InOrder(Waiting', applied', n')
  BY DEF EventsInOrder, InOrder
<1>5. CASE NoEventMoves
  <2>1. \A p \in Syncing : InFlight(p)' = InFlight(p)
    BY <1>5, <1>1 DEF NoEventMoves, InFlight
  <2>2. Waiting' = Waiting
    BY <2>1, <1>5 DEF Waiting, NoEventMoves, Syncing, Resyncers
  <2>3. QED
    BY <2>2, <1>2, <1>5 DEF NoEventMoves
<1>6. ASSUME NEW p \in Syncing, Replay(p)
      PROVE  InOrder(Waiting', applied', n')
  <2>1. /\ Others(p) /\ Others(p)' /\ p \in Procs
    BY <1>6, <1>1, PastIsAlone DEF Past, Replay, At, Others
  <2>2. /\ Pending(p) \in Seq(Events) /\ Pending(p) # <<>>
        /\ buffer' \in Seq(Events)
        /\ InFlight(p) = batch[p]
    BY <1>6, <1>1, <2>1, EmptySeq DEF Replay, Pending, At, InFlight
  <2>3. Waiting = Pending(p) \o buffer'
    <3>1. CASE batch[p] # <<>>
      BY <3>1, <1>6, <1>1, <2>1, <2>2, WaitingIs DEF Replay, Pending
    <3>2. CASE batch[p] = <<>>
      <4>1. Waiting = <<>> \o buffer /\ Pending(p) = buffer /\ buffer' = <<>>
        BY <3>2, <1>6, <1>1, <2>1, <2>2, WaitingIs DEF Replay, Pending
      <4>2. QED
        BY <4>1, <1>1, ConcatEmptySeq
    <3>3. QED
      BY <3>1, <3>2
  <2>4. InFlight(p)' = Tail(Pending(p))
    BY <1>6, <1>1, <2>1 DEF Replay, InFlight, Go, TypeOK
  <2>5. Waiting' = Tail(Pending(p)) \o buffer'
    <3>1. (Waiting = InFlight(p) \o buffer)'
      BY <1>1, <2>1, WaitingWillBe
    <3>2. QED
      BY <3>1, <2>4
  <2>6. /\ Waiting # <<>> /\ Waiting' = Tail(Waiting)
        /\ Head(Waiting) = Head(Pending(p))
    BY <2>2, <2>3, <2>5, FirstOfConcat
  <2>7. applied' = Head(Waiting).no /\ n' = n
    BY <1>6, <2>6 DEF Replay
  <2>8. applied' = applied + 1 /\ InOrder(Tail(Waiting), applied + 1, n)
    BY <1>1, <1>2, <1>4, <2>6, <2>7, NextInOrder
  <2>9. QED
    BY <2>6, <2>7, <2>8
<1>7. ASSUME NEW p \in Syncing, ReplayEffect(p)
      PROVE  InOrder(Waiting', applied', n')
  <2>1. /\ Others(p) /\ Others(p)' /\ p \in Procs
    BY <1>7, <1>1, PastIsAlone DEF Past, ReplayEffect, At, Others
  <2>2. InFlight(p)' = InFlight(p) /\ buffer' = buffer
    BY <1>7, <1>1, <2>1 DEF ReplayEffect, At, Go, InFlight, TypeOK
  <2>3. (Waiting = InFlight(p) \o buffer)'
    BY <1>1, <2>1, WaitingWillBe
  <2>4. Waiting' = Waiting
    BY <1>1, <2>1, <2>2, <2>3, WaitingIs
  <2>5. QED
    BY <2>4, <1>2, <1>7 DEF ReplayEffect
<1>8. ASSUME NEW k \in EventKinds, Receive(k), buffering
      PROVE  InOrder(Waiting', applied', n')
  <2> DEFINE e == [no |-> n + 1, kind |-> k]
  <2>1. e \in Events /\ n' = n + 1 /\ n < MaxEvents /\ e.no = n + 1
    BY <1>1, <1>8, InputAssumption DEF Receive, Count, Events, TypeOK, Tallied
  <2>2. Len(buffer) < BufferLimit
    <3>1. Len(Waiting) = Len(InFlight(o)) + Len(buffer)
      BY <1>1, <1>3, <1>4, InFlightTypes, ConcatProperties
    <3>2. Len(InFlight(o)) \in Nat /\ Len(buffer) \in Nat
      BY <1>1, InFlightTypes, LenProperties
    <3>3. Len(Waiting) <= n
      BY <1>1, <1>2, <3>1, <3>2 DEF InOrder
    <3>4. QED
      BY <3>1, <3>2, <3>3, <2>1, <1>1, BoundAssumption
  <2>3. /\ buffer' = Append(buffer, e) /\ UNCHANGED <<batch, applied>>
        /\ pc' = pc
    BY <1>8, <2>2, <1>1, BoundAssumption, LenProperties DEF Receive
  <2> HIDE DEF e
  <2>4. InFlight(o)' = InFlight(o) /\ Others(o)'
    BY <1>3, <2>3 DEF InFlight, Others
  <2>5. (Waiting = InFlight(o) \o buffer)'
    BY <1>1, <2>4, WaitingWillBe
  <2>6. Waiting' = Append(Waiting, e)
    BY <1>1, <1>4, <2>1, <2>3, <2>4, <2>5, InFlightTypes, AppendToConcat
  <2>7. QED
    BY <1>1, <1>2, <1>4, <2>1, <2>3, <2>6, LastInOrder
<1>9. ASSUME NEW k \in EventKinds, Receive(k), ~buffering
      PROVE  InOrder(Waiting', applied', n')
  <2>1. buffer = <<>> /\ \A p \in Syncing : batch[p] = <<>>
    BY <1>9 DEF SyncOK, BufferOK, Asking
  <2>2. /\ buffer' = buffer /\ batch' = batch /\ applied' = n + 1 /\ n' = n + 1
    BY <1>9, <1>1 DEF Receive, Count, TypeOK, Tallied
  <2>3. Others(o)' /\ InFlight(o)' = <<>>
    BY <2>1, <2>2, <1>1 DEF Others, InFlight, BatchOK
  <2>4. (Waiting = InFlight(o) \o buffer)'
    BY <1>1, <2>3, WaitingWillBe
  <2>5. Waiting' = <<>>
    BY <2>1, <2>2, <2>3, <2>4, EmptySeq, ConcatEmptySeq
  <2>6. QED
    BY <2>2, <2>5, <1>1 DEF InOrder
<1>10. CASE Shutdown \/ Restart
  <2>1. /\ buffer' = <<>> /\ applied' = n /\ n' = n
        /\ \A p \in Syncing : batch'[p] = <<>>
    BY <1>10, <1>1 DEF Shutdown, Restart, Fresh, Count, TypeOK, Tallied
  <2>2. Others(o)' /\ InFlight(o)' = <<>>
    BY <2>1, <1>1 DEF Others, InFlight, BatchOK
  <2>3. (Waiting = InFlight(o) \o buffer)'
    BY <1>1, <2>2, WaitingWillBe
  <2>4. Waiting' = <<>>
    BY <2>1, <2>2, <2>3, EmptySeq, ConcatEmptySeq
  <2>5. QED
    BY <2>1, <2>4, <1>1 DEF InOrder
<1> QED
  BY <1>1, <1>5, <1>6, <1>7, <1>8, <1>9, <1>10, EventsStay

\* With a buffer that holds every event of the run, every private event reaches the
\* projection once and in the order received, through resyncs that fail, reconnects
\* and process ends: the events applied are a prefix of those received, and what is
\* in the buffer and in the hand of the one replaying task is the rest, in order.
THEOREM OrderedEvents ==
  ASSUME QuietStartup, BufferLimit >= MaxEvents
  PROVE  Spec => []EventsInOrder
<1>1. Init => EventsInOrder
  <2> SUFFICES ASSUME Init PROVE EventsInOrder
    OBVIOUS
  <2>1. Waiting = <<>>
    <3>1. SyncOK /\ "main" \in Syncing
      BY SyncInit DEF Syncing
    <3>2. Others("main") /\ batch["main"] = <<>> /\ buffer = <<>>
      BY DEF Init, Others, Syncing, Procs
    <3>3. Waiting = InFlight("main") \o buffer /\ InFlight("main") = <<>>
      BY <3>1, <3>2, WaitingIs, InFlightTypes DEF SyncOK
    <3>4. QED
      BY <3>2, <3>3, EmptySeq, ConcatEmptySeq
  <2>2. QED
    BY <2>1 DEF Init, EventsInOrder, Tallied
<1>2. EventsInOrder /\ SyncOK /\ SyncOK' /\ [Next]_vars => EventsInOrder'
  BY InOrderStep
<1>3. QED
  BY <1>1, <1>2, SyncCorrect, PTL DEF Spec

-----------------------------------------------------------------------------
(* The drawdown breaker                                                     *)

\* every balance the engine fetches parses; with one that does not,
\* _submit_rest_account_snapshot overwrites the flow status and skips the guard
BalancesParse == \A r \in Readings : r.valid

\* a drawdown that may trip the breaker has been attributed
FlowOK == /\ flow # "RECONCILING" /\ crossing /\ ~bypass /\ ~lowered
               => ledger = "CONFIRMED" /\ guard = "old"
          /\ pc["main"] = "boot" =>
               /\ ~crossing /\ ~started
               /\ \A p \in Resyncers : pc[p] = "idle" /\ due[p] = 0

\* the figures FlowOK relates
figures == <<flow, ledger, guard, crossing, bypass, lowered>>

\* a step that leaves the figures and the start of the process alone
LEMMA FlowFrame ==
  ASSUME FlowOK, UNCHANGED figures, pc'["main"] # "boot"
  PROVE  FlowOK'
BY DEF FlowOK, figures

\* an event on a transfer withdraws the attribution, the others touch no figure
LEMMA FlowOfEvent ==
  ASSUME NEW e, EventEffect(e)
  PROVE  UNCHANGED <<flow, ledger, guard>> \/ flow' = "RECONCILING"
BY DEF EventEffect

\* a fresh drawdown figure is attributed or the guard waits
LEMMA FlowOfReading ==
  ASSUME TypeOK, NEW r \in Reading, UpdateGuard(r), ledger' = r.ledger,
         crossing' = r.crossing, bypass' = bypass
  PROVE  flow' # "RECONCILING" /\ crossing' /\ ~bypass'
           => ledger' = "CONFIRMED" /\ guard' = "old"
BY DEF UpdateGuard, GuardWaits, TypeOK, Reading

LEMMA FlowStep ==
  ASSUME TypeOK, BatchOK, BootOK, FlowOK, BalancesParse, [Next]_vars
  PROVE  FlowOK'
<1> USE DEF TypeOK, Go, At, Procs, Syncing, Resyncers, figures, risk
<1>1. CASE Startup
  <2>1. CASE Boot
    BY <2>1 DEF Boot, FlowOK
  <2>2. CASE ~Boot
    BY <1>1, <2>2, FlowFrame DEF Startup, ValidateMode, ValidateModeFails,
           WaitConnected, WaitConnectedFails, FinishBaseline, StartupComplete
  <2>3. QED
    BY <2>1, <2>2
<1>2. CASE Stream
  <2>1. pc["main"] # "boot" /\ pc'["main"] = pc["main"]
    BY <1>2 DEF Stream, Connect, SetStatus, Opened, Lost, SpawnVerify, Rotated,
           Closed, Applied, BootOK
  <2>2. CASE Applied
    BY <2>1, <2>2, FlowOfEvent DEF Applied, FlowOK
  <2>3. CASE ~Applied
    BY <1>2, <2>1, <2>3, FlowFrame DEF Stream, Connect, SetStatus, Opened, Lost,
           SpawnVerify, Rotated, Closed
  <2>4. QED
    BY <2>2, <2>3
<1>3. CASE Network
  BY <1>3, FlowFrame DEF Network, Drop, Rotate, SetStatus, KeepAlive, HealthFails,
         Receive, BootOK
<1>4. CASE Operator
  <2>1. CASE ChangeLimits
    BY <2>1 DEF ChangeLimits, Command, FlowOK
  <2>2. CASE ~ChangeLimits
    BY <1>4, <2>2, FlowFrame DEF Operator, Pause, CancelAndFlatten, PausedBy,
           StopEngine, ResumeBegins, Command
  <2>3. QED
    BY <2>1, <2>2
<1>5. CASE Resumes
  <2>1. /\ pc["main"] # "boot" /\ pc'["main"] # "boot"
        /\ UNCHANGED <<flow, ledger, guard, crossing, lowered>>
    BY <1>5 DEF Resumes, ResumeStrategy, ResumeAllChecked, ResumeAllRefused,
           ResumeAllDone, Returns
  <2>2. bypass' = bypass \/ bypass' = TRUE
    BY <1>5 DEF Resumes, ResumeStrategy, ResumeAllChecked, ResumeAllRefused,
           ResumeAllDone, GrantsBypass
  <2>3. QED
    BY <2>1, <2>2 DEF FlowOK
<1>6. CASE Cycle
  BY <1>6, FlowFrame DEF Cycle, BreakerDefers, BreakerTrips, BreakerQuiet,
         RecheckQuiet, CheckLimits, Hold, Admit, Reject, Submit, RefreshFails,
         NextSymbol, EndCycle, MainStep, Snapshot, StartsCycle, Returns
<1>7. CASE RollDay
  BY <1>7 DEF RollDay, FlowOK
<1>8. CASE GuardAges
  BY <1>8 DEF GuardAges, FlowOK
<1>9. CASE Shutdown \/ Restart
  BY <1>9 DEF Shutdown, Restart, Fresh, FlowOK
<1>10. ASSUME NEW p \in Syncing, Resync(p)
       PROVE  FlowOK'
  <2>1. pc["main"] # "boot" /\ pc'["main"] # "boot"
    <3>1. pc["main"] # "boot"
      <4> SUFFICES ASSUME pc["main"] = "boot" PROVE FALSE
        OBVIOUS
      <4>1. pc[p] \in {"boot", "idle"} /\ ~Due(p)
        BY DEF FlowOK, Due
      <4>2. QED
        BY <1>10, <4>1 DEF Resync, Acquire, RestAnswers, ApplySnapshot, Replay,
               ReplayEffect, FinishReplay, Release, CheckProtection
    <3>2. pc'["main"] # "boot"
      BY <1>10, <3>1 DEF Resync, Acquire, RestAnswers, ApplySnapshot, Replay,
             ReplayEffect, FinishReplay, Release, CheckProtection, Returns
    <3>3. QED
      BY <3>1, <3>2
  <2>2. CASE ReplayEffect(p)
    BY <2>1, <2>2, FlowOfEvent DEF ReplayEffect, FlowOK
  <2>3. CASE \E r \in Readings : ApplySnapshot(p, r)
    <3> PICK r \in Readings : ApplySnapshot(p, r)
      BY <2>3
    <3>1. r \in Reading /\ r.valid
      BY InputAssumption DEF BalancesParse
    <3>2. /\ UpdateGuard(r) /\ ledger' = r.ledger /\ crossing' = r.crossing
          /\ bypass' = bypass
      BY <3>1 DEF ApplySnapshot
    <3>3. QED
      BY <2>1, <3>1, <3>2, FlowOfReading DEF FlowOK
  <2>4. CASE ~(ReplayEffect(p) \/ \E r \in Readings : ApplySnapshot(p, r))
    <3>1. UNCHANGED figures
      BY <1>10, <2>4 DEF Resync, Acquire, RestAnswers, Replay, FinishReplay,
             Release, CheckProtection
    <3>2. QED
      BY <2>1, <3>1, FlowFrame
  <2>5. QED
    BY <2>2, <2>3, <2>4
<1>11. ASSUME NEW p \in Syncing, RestFails(p)
       PROVE  FlowOK'
  BY <1>11, FlowFrame DEF RestFails, FlowOK
<1>12. CASE UNCHANGED vars
  BY <1>12 DEF vars, FlowOK
<1> QED
  BY <1>1, <1>2, <1>3, <1>4, <1>5, <1>6, <1>7, <1>8, <1>9, <1>10, <1>11, <1>12
     DEF Next

\* only the circuit breaker, of the cycle or of new limits, halts for the breaker
LEMMA BreakerHalts ==
  ASSUME [Next]_vars, reason' = "breaker", reason # "breaker"
  PROVE  Trips
<1> USE DEF gate, db, Halt, Resume, HaltUnlessHalted
<1>1. CASE Startup
  BY <1>1 DEF Startup, Boot, ValidateMode, ValidateModeFails, WaitConnected,
         WaitConnectedFails, FinishBaseline, StartupComplete
<1>2. CASE Stream
  BY <1>2 DEF Stream, Connect, SetStatus, Opened, Lost, SpawnVerify, Rotated,
         Closed, Applied, EventEffect
<1>3. CASE Network
  BY <1>3 DEF Network, Drop, Rotate, SetStatus, KeepAlive, HealthFails, Receive
<1>4. CASE Operator \/ Resumes
  BY <1>4 DEF Operator, Pause, CancelAndFlatten, PausedBy, StopEngine,
         ChangeLimits, ResumeBegins, Resumes, ResumeStrategy, ResumeAllChecked,
         ResumeAllRefused, ResumeAllDone
<1>5. CASE Cycle
  BY <1>5 DEF Cycle, BreakerDefers, BreakerTrips, BreakerQuiet, RecheckQuiet,
         CheckLimits, Hold, Admit, Reject, Submit, RefreshFails, NextSymbol,
         EndCycle, MainStep
<1>6. CASE RollDay \/ GuardAges
  BY <1>6 DEF RollDay, GuardAges
<1>7. CASE Shutdown \/ Restart
  BY <1>7 DEF Shutdown, Restart, Fresh
<1>8. ASSUME NEW p \in Syncing, Resync(p) \/ RestFails(p)
      PROVE  FALSE
  <2>1. CASE \E r \in Readings : ApplySnapshot(p, r)
    BY <2>1 DEF ApplySnapshot, UpdateGuard
  <2>2. CASE ReplayEffect(p)
    BY <2>2 DEF ReplayEffect, EventEffect
  <2>3. CASE FinishReplay(p)
    BY <2>3 DEF FinishReplay
  <2>4. CASE RestFails(p)
    BY <2>4 DEF RestFails
  <2>5. CASE Acquire(p) \/ RestAnswers(p) \/ Replay(p) \/ Release(p)
               \/ CheckProtection(p)
    BY <2>5 DEF Acquire, RestAnswers, Replay, Release, CheckProtection
  <2>6. QED
    BY <1>8, <2>1, <2>2, <2>3, <2>4, <2>5 DEF Resync
<1>9. CASE UNCHANGED vars
  BY <1>9 DEF vars
<1> QED
  BY <1>1, <1>2, <1>3, <1>4, <1>5, <1>6, <1>7, <1>8, <1>9 DEF Next

\* The drawdown breaker, which closes positions, trips only on a complete income
\* ledger and with a guard that is 30 s old, whatever transfers, resyncs, operator
\* bypasses, new days and restarts come before, as long as the balances parse.
THEOREM DrawdownTripsLate ==
  ASSUME BalancesParse PROVE Spec => DrawdownTripIsAttributed
<1>1. Init => BootOK /\ FlowOK
  BY DEF Init, BootOK, FlowOK, Procs, Resyncers
<1>2. TypeOK /\ BatchOK /\ BootOK /\ FlowOK /\ [Next]_vars => (BootOK /\ FlowOK)'
  BY BootStep, FlowStep
<1>3. FlowOK /\ [Next]_vars
        => [DrawdownTrips => lowered \/ (ledger = "CONFIRMED" /\ guard = "old")]_vars
  BY BreakerHalts DEF FlowOK, Trips, Breached, DrawdownTrips
<1>4. QED
  BY <1>1, <1>2, <1>3, TypeCorrect, PTL DEF Spec, DrawdownTripIsAttributed

-----------------------------------------------------------------------------
(* No entries without a live stream                                         *)

\* Three things lift a halt while the stream is down, each by a decision of its
\* own: an operator's resume, the end of an attribution, and a health callback
\* that raised before it halted.  Without them only a resync is left.
OnlyResyncsLift == /\ {"RESUME", "RESUME_ALL"} \cap Commands = {}
                   /\ "TRANSFER" \notin EventKinds
                   /\ \A r \in Readings : ~r.crossing
                   /\ MaxHealthFailures = 0

\* the capital-flow guard is never raised and no resume command runs
CalmOK == /\ guard = "off" /\ savedGuard = "off" /\ reason # "flow"
          /\ flow # "RECONCILING" /\ savedFlow # "RECONCILING"
          /\ pc["main"] \notin {"resume", "resume_all", "enable"}

BeforeStream == {"boot", "validate", "wait", "failed_mode", "exit"}

\* entries are open without a LIVE stream only before the startup has waited for
\* one, or for the moment in which the callback that will halt them is due
LiveOK ==
  /\ ~halted /\ status # "LIVE" /\ pc["stream"] \notin {"lost", "rotate"}
       => status = "UNKNOWN" /\ pc["main"] \in BeforeStream
  /\ status = "UNKNOWN" => pc["stream"] \in {"off", "down"}
  /\ pc["main"] = "boot" => status = "UNKNOWN"
  /\ pc["main"] \in {"boot", "validate"} => pc["stream"] = "off"
  /\ pc["main"] \in BeforeStream => ~started


LEMMA CalmStep ==
  ASSUME TypeOK, BatchOK, EventsOK, CalmOK, OnlyResyncsLift, [Next]_vars
  PROVE  CalmOK'
<1> USE DEF TypeOK, CalmOK, Go, At, Procs, Syncing, Resyncers, Halt, Resume,
        HaltUnlessHalted, gate, risk, saved, db
<1>1. CASE Startup
  BY <1>1 DEF Startup, Boot, ValidateMode, ValidateModeFails, WaitConnected,
         WaitConnectedFails, FinishBaseline, StartupComplete
<1>2. CASE Stream
  <2>1. CASE Applied
    <3>1. hand.kind # "TRANSFER"
      BY DEF EventsOK, Known, OnlyResyncsLift
    <3>2. QED
      BY <2>1, <3>1 DEF Applied, EventEffect
  <2>2. CASE ~Applied
    BY <1>2, <2>2 DEF Stream, Connect, SetStatus, Opened, Lost, SpawnVerify,
           Rotated, Closed
  <2>3. QED
    BY <2>1, <2>2
<1>3. CASE Network
  BY <1>3 DEF Network, Drop, Rotate, SetStatus, KeepAlive, HealthFails, Receive
<1>4. CASE Operator
  BY <1>4 DEF Operator, Pause, CancelAndFlatten, PausedBy, StopEngine,
         ChangeLimits, ResumeBegins, Command, OnlyResyncsLift
<1>5. CASE Resumes
  BY <1>5 DEF Resumes, ResumeStrategy, ResumeAllChecked, ResumeAllRefused,
         ResumeAllDone
<1>6. CASE Cycle
  BY <1>6 DEF Cycle, BreakerDefers, BreakerTrips, BreakerQuiet, RecheckQuiet,
         CheckLimits, Hold, Admit, Reject, Submit, RefreshFails, NextSymbol,
         EndCycle, MainStep, Snapshot, StartsCycle, Returns
<1>7. CASE RollDay \/ GuardAges
  BY <1>7 DEF RollDay, GuardAges
<1>8. CASE Shutdown \/ Restart
  BY <1>8 DEF Shutdown, Restart, Fresh
<1>9. ASSUME NEW p \in Syncing, Resync(p)
      PROVE  CalmOK'
  <2>1. CASE ReplayEffect(p)
    <3>1. batch[p] \in Seq(Known) /\ batch[p] # <<>>
      BY <2>1 DEF ReplayEffect, BatchOK, EventsOK
    <3>2. Head(batch[p]).kind # "TRANSFER"
      BY <3>1, KnownSeqs DEF Known, OnlyResyncsLift
    <3>3. UNCHANGED <<flow, guard, saved>> /\ (reason' # "flow")
      BY <2>1, <3>2 DEF ReplayEffect, EventEffect
    <3>4. QED
      BY <2>1, <3>3 DEF ReplayEffect
  <2>2. CASE \E r \in Readings : ApplySnapshot(p, r)
    <3> PICK r \in Readings : ApplySnapshot(p, r)
      BY <2>2
    <3>1. r \in Reading /\ ~r.crossing
      BY InputAssumption DEF OnlyResyncsLift
    <3>2. guard' = "off" /\ savedGuard' = "off"
      BY <3>1 DEF ApplySnapshot, UpdateGuard, GuardWaits
    <3>3. /\ flow' # "RECONCILING" /\ savedFlow' # "RECONCILING"
          /\ reason' # "flow"
      BY <3>1 DEF ApplySnapshot, UpdateGuard, GuardWaits, Reading
    <3>4. QED
      BY <3>2, <3>3 DEF ApplySnapshot
  <2>3. CASE Acquire(p) \/ RestAnswers(p) \/ Replay(p)
    BY <2>3 DEF Acquire, RestAnswers, Replay
  <2>4. CASE FinishReplay(p)
    BY <2>4 DEF FinishReplay
  <2>5. CASE Release(p) \/ CheckProtection(p)
    BY <2>5 DEF Release, CheckProtection, Returns
  <2>6. QED
    BY <1>9, <2>1, <2>2, <2>3, <2>4, <2>5 DEF Resync
<1>10. ASSUME NEW p \in Syncing, RestFails(p)
       PROVE  CalmOK'
  BY <1>10 DEF RestFails
<1>11. CASE UNCHANGED vars
  BY <1>11 DEF vars
<1> QED
  BY <1>1, <1>2, <1>3, <1>4, <1>5, <1>6, <1>7, <1>8, <1>9, <1>10, <1>11 DEF Next

\* a step that leaves the stream and the startup alone and lifts nothing, unless
\* the stream is LIVE
LEMMA LiveFrame ==
  ASSUME TypeOK, LiveOK, status' = status, started' = started,
         pc'["stream"] = pc["stream"],
         halted' = halted \/ halted' = TRUE \/ status = "LIVE",
         pc'["main"] \in BeforeStream <=> pc["main"] \in BeforeStream,
         pc'["main"] = pc["main"] \/ pc'["main"] \notin {"boot", "validate"}
  PROVE  LiveOK'
BY DEF LiveOK, TypeOK

LEMMA LiveStep ==
  ASSUME TypeOK, BatchOK, EventsOK, BootOK, CalmOK, LiveOK, OnlyResyncsLift,
         [Next]_vars
  PROVE  LiveOK'
<1> USE DEF TypeOK, Go, At, Procs, Syncing, Resyncers, gate, db, BeforeStream
<1>1. CASE Startup
  <2>1. CASE Boot
    BY <2>1 DEF Boot, LiveOK, BootOK
  <2>2. CASE ValidateMode
    BY <2>2 DEF ValidateMode, LiveOK
  <2>3. CASE ValidateModeFails
    BY <2>3, LiveFrame DEF ValidateModeFails, Halt
  <2>4. CASE WaitConnected
    BY <2>4 DEF WaitConnected, Connected, LiveOK
  <2>5. CASE WaitConnectedFails
    BY <2>5 DEF WaitConnectedFails, Halt, LiveOK
  <2>6. CASE FinishBaseline
    <3>1. /\ pc["main"] = "replay" /\ Go("main", "booted") /\ ~started
          /\ halted' = halted \/ halted' = TRUE
          /\ status' = status /\ started' = started
      BY <2>6 DEF FinishBaseline, Halt
    <3>2. QED
      BY <3>1, LiveFrame
  <2>7. CASE StartupComplete
    BY <2>7 DEF StartupComplete, LiveOK
  <2>8. QED
    BY <1>1, <2>1, <2>2, <2>3, <2>4, <2>5, <2>6, <2>7 DEF Startup
<1>2. CASE Stream
  <2>1. pc["main"] # "boot"
    BY <1>2 DEF Stream, Connect, SetStatus, Opened, Lost, SpawnVerify, Rotated,
           Closed, Applied, BootOK
  <2>2. CASE Applied
    <3>1. halted' = halted \/ halted' = TRUE
      BY <2>2 DEF Applied, EventEffect, HaltUnlessHalted, Halt
    <3>2. /\ pc["stream"] = "apply" /\ pc'["stream"] = "up" /\ status' = status
          /\ started' = started /\ pc'["main"] = pc["main"]
      BY <2>2 DEF Applied
    <3>3. QED
      BY <3>1, <3>2 DEF LiveOK
  <2>3. CASE Connect \/ Opened \/ SpawnVerify \/ Closed
    BY <2>1, <2>3 DEF Connect, SetStatus, Opened, SpawnVerify, Closed, LiveOK
  <2>4. CASE Lost \/ Rotated
    <3>1. halted' = TRUE
      BY <2>4 DEF Lost, Rotated, HaltUnlessHalted, Halt
    <3>2. QED
      BY <2>1, <2>4, <3>1 DEF Lost, Rotated, LiveOK
  <2>5. QED
    BY <1>2, <2>2, <2>3, <2>4 DEF Stream
<1>3. CASE Network
  <2>1. pc["main"] # "boot"
    BY <1>3 DEF Network, Drop, Rotate, SetStatus, KeepAlive, HealthFails, Receive,
           BootOK
  <2>2. CASE Drop \/ Rotate
    BY <2>1, <2>2 DEF Drop, Rotate, SetStatus, LiveOK
  <2>3. CASE KeepAlive
    BY <2>1, <2>3 DEF KeepAlive, LiveOK
  <2>4. CASE HealthFails
    BY <2>4 DEF HealthFails, OnlyResyncsLift, Tallied
  <2>5. CASE \E k \in EventKinds : Receive(k)
    <3>1. /\ pc["stream"] = "up" /\ pc'["stream"] \in {"up", "apply"}
          /\ status' = status /\ started' = started /\ pc'["main"] = pc["main"]
          /\ halted' = halted \/ halted' = TRUE
      BY <2>5 DEF Receive, Halt
    <3>2. QED
      BY <3>1 DEF LiveOK
  <2>6. QED
    BY <1>3, <2>2, <2>3, <2>4, <2>5 DEF Network
<1>4. CASE Operator
  BY <1>4, LiveFrame DEF Operator, Pause, CancelAndFlatten, PausedBy,
         StopEngine, ChangeLimits, ResumeBegins, Command, Halt, OnlyResyncsLift
<1>5. CASE Resumes
  BY <1>5 DEF Resumes, ResumeStrategy, ResumeAllChecked, ResumeAllRefused,
         ResumeAllDone, CalmOK
<1>6. CASE Cycle
  <2>1. /\ pc["main"] \in {"idle", "recheck", "symbol", "submit", "after", "limits"}
        /\ \E l \in {"lock", "idle", "symbol", "submit", "after", "recheck"} :
             Go("main", l)
        /\ status' = status /\ started' = started
    BY <1>6 DEF Cycle, BreakerDefers, BreakerTrips, BreakerQuiet, RecheckQuiet,
           CheckLimits, Hold, Admit, Reject, Submit, RefreshFails, NextSymbol,
           EndCycle, MainStep, Snapshot, StartsCycle, Returns
  <2>2. halted' = halted \/ halted' = TRUE
    BY <1>6 DEF Cycle, BreakerDefers, BreakerTrips, BreakerQuiet, RecheckQuiet,
           CheckLimits, Hold, Admit, Reject, Submit, RefreshFails, NextSymbol,
           EndCycle, MainStep, Halt, HaltUnlessHalted
  <2>3. QED
    BY <2>1, <2>2, LiveFrame
<1>7. CASE RollDay \/ GuardAges
  BY <1>7, LiveFrame DEF RollDay, GuardAges
<1>8. CASE Shutdown \/ Restart
  BY <1>8 DEF Shutdown, Restart, Fresh, LiveOK
<1>9. ASSUME NEW p \in Syncing, Resync(p)
      PROVE  LiveOK'
  <2>1. /\ status' = status /\ started' = started /\ pc'["stream"] = pc["stream"]
        /\ pc'["main"] \in BeforeStream <=> pc["main"] \in BeforeStream
        /\ pc'["main"] = pc["main"] \/ pc'["main"] \notin {"boot", "validate"}
    <3>1. CASE Acquire(p) \/ RestAnswers(p) \/ Replay(p)
      BY <3>1 DEF Acquire, Due, RestAnswers, Replay
    <3>2. CASE FinishReplay(p) \/ CheckProtection(p)
      <4>1. /\ pc[p] \in {"replay", "check"}
            /\ Go(p, "release") \/ Go(p, "idle")
            /\ status' = status /\ started' = started
        BY <3>2 DEF FinishReplay, CheckProtection
      <4>2. QED
        BY <4>1
    <3>3. CASE Release(p)
      BY <3>3 DEF Release, Returns
    <3>4. CASE ReplayEffect(p) \/ \E r \in Readings : ApplySnapshot(p, r)
      BY <3>4 DEF ReplayEffect, ApplySnapshot
    <3>5. QED
      BY <1>9, <3>1, <3>2, <3>3, <3>4 DEF Resync
  <2>2. halted' = halted \/ halted' = TRUE \/ status = "LIVE"
    <3>1. CASE ReplayEffect(p)
      BY <3>1 DEF ReplayEffect, EventEffect, HaltUnlessHalted, Halt
    <3>2. CASE \E r \in Readings : ApplySnapshot(p, r)
      BY <3>2 DEF ApplySnapshot, UpdateGuard, HaltUnlessHalted, Halt, CalmOK
    <3>3. CASE FinishReplay(p)
      BY <3>3 DEF FinishReplay, Lifts
    <3>4. CASE Acquire(p) \/ RestAnswers(p) \/ Replay(p) \/ Release(p)
                 \/ CheckProtection(p)
      BY <3>4 DEF Acquire, RestAnswers, Replay, Release, CheckProtection
    <3>5. QED
      BY <1>9, <3>1, <3>2, <3>3, <3>4 DEF Resync
  <2>3. QED
    BY <2>1, <2>2, LiveFrame
<1>10. ASSUME NEW p \in Syncing, RestFails(p)
       PROVE  LiveOK'
  <2>1. /\ pc[p] = "rest" /\ status' = status /\ started' = started
        /\ halted' = halted \/ halted' = TRUE
        /\ \E l \in {"idle", "release", "booted"} : Go(p, l)
    BY <1>10 DEF RestFails, Halt
  <2>2. QED
    BY <2>1, LiveFrame
<1>11. CASE UNCHANGED vars
  BY <1>11, LiveFrame DEF vars
<1> QED
  BY <1>1, <1>2, <1>3, <1>4, <1>5, <1>6, <1>7, <1>8, <1>9, <1>10, <1>11 DEF Next

\* A started engine whose stream is not LIVE admits no entry once the health callback
\* has run: the resyncs that end while the stream is away, rotations, reconnects,
\* failed startups and restarts lift no halt before the stream is LIVE again.
THEOREM EntriesWaitForStream ==
  ASSUME OnlyResyncsLift PROVE Spec => []EntriesNeedLiveStream
<1>1. Init => EventsOK /\ BootOK /\ CalmOK /\ LiveOK
  BY SyncInit DEF SyncOK, Init, BootOK, CalmOK, LiveOK, Procs, BeforeStream
<1>2. TypeOK /\ BatchOK /\ EventsOK /\ BootOK /\ CalmOK /\ LiveOK /\ [Next]_vars
        => (EventsOK /\ BootOK /\ CalmOK /\ LiveOK)'
  BY KindsStep, BootStep, CalmStep, LiveStep
<1>3. LiveOK => EntriesNeedLiveStream
  BY DEF LiveOK, EntriesNeedLiveStream
<1>4. QED
  BY <1>1, <1>2, <1>3, TypeCorrect, PTL DEF Spec
=============================================================================
