---------------------------- MODULE TradeCycles ----------------------------
(***************************************************************************)
(* The cycles that replay_trade_cycles cuts a scope into, computed fill by *)
(* fill as the code does, and what they should be: the stretches between   *)
(* the moments the position is flat or changes its side.                   *)
(***************************************************************************)
EXTENDS TradeReconcile, SequencesExt, FiniteSetsExt

Side(p) == IF p > 0 THEN "long" ELSE "short"

Cycle(side, owners, qty, carry) ==
  [side |-> side, owners |-> owners, opened |-> qty, closed |-> 0,
   status |-> "open", carry |-> carry]

\* A position held before the scope is a cycle of its own.
Carried(p) == [pos |-> p,
               cycles |-> IF p = 0 THEN <<>>
                          ELSE <<Cycle(Side(p), {"external"}, Abs(p), TRUE)>>]

WithLast(cs, c) == [cs EXCEPT ![Len(cs)] = c]

\* A fill in the direction of the position opens a cycle or adds to it.
Added(b, i, qty) ==
  [pos |-> b.pos + qty,
   cycles |->
     IF b.cycles = <<>> \/ Last(b.cycles).status = "closed"
     THEN Append(b.cycles, Cycle(Side(qty), {fills[i].owner}, Abs(qty), FALSE))
     ELSE WithLast(b.cycles, [Last(b.cycles) EXCEPT
                                !.opened = @ + Abs(qty),
                                !.owners = @ \cup {fills[i].owner}])]

\* A fill against the position closes what it can of the cycle.
Exited(c, qty, owner) ==
  [c EXCEPT !.closed = @ + qty, !.owners = @ \cup {owner},
            !.status = IF c.closed + qty = c.opened THEN "closed"
                       ELSE "partial"]

\* Mutant: a reversal counts wholly as the exit of the old cycle.
ReducedWhole(b, i, qty) ==
  [pos |-> b.pos + qty,
   cycles |-> WithLast(b.cycles, Exited(Last(b.cycles),
                                        Min({Abs(b.pos), Abs(qty)}),
                                        fills[i].owner))]

\* The rest of a reversal opens the next cycle.
Reduced(b, i, qty) ==
  LET exit == Min({Abs(b.pos), Abs(qty)})
      left == WithLast(b.cycles, Exited(Last(b.cycles), exit, fills[i].owner))
  IN [pos |-> b.pos + qty,
      cycles |-> IF exit = Abs(qty) THEN left
                 ELSE Append(left, Cycle(Side(qty), {fills[i].owner},
                                         Abs(qty) - exit, FALSE))]

ReplayFill(b, i) ==
  LET qty == Pos(i) - Pos(i - 1)
  IN IF b.pos = 0 \/ SameSide(b.pos, qty) THEN Added(b, i, qty)
     ELSE Reduced(b, i, qty)

Cycles(from, upto, pos) ==
  FoldLeft(ReplayFill, Carried(Initial(from, upto, pos)),
           [k \in 1..(upto - from + 1) |-> from + k - 1]).cycles

(***************************************************************************)
(* The reference: q[i] is the position the replay has after fill i.        *)
(***************************************************************************)

\* A cycle begins where the position is not zero and was not on that side.
Begins(from, q) ==
  {i \in DOMAIN q : q[i] # 0 /\ (i >= from => ~SameSide(q[i - 1], q[i]))}

\* The fills after i that still belong to the cycle begun by i: up to the
\* first that leaves its side.
Stretch(q, i) ==
  {k \in DOMAIN q : k > i /\ \A j \in i..(k - 1) : SameSide(q[i], q[j])}

Life(from, q, i) ==
  LET grown == {k \in Stretch(q, i) : Abs(q[k]) > Abs(q[k - 1])
                                     /\ SameSide(q[i], q[k])}
      shrunk == Stretch(q, i) \ grown
      left(k) == IF SameSide(q[i], q[k]) THEN Abs(q[k]) ELSE 0
  IN [side |-> Side(q[i]),
      owners |-> {IF k < from THEN "external" ELSE fills[k].owner :
                    k \in {i} \cup Stretch(q, i)},
      opened |-> (IF i < from THEN Abs(q[i])
                  ELSE IF SameSide(q[i], Pos(i) - Pos(i - 1))
                       THEN Abs(q[i]) ELSE 0)
                 + MapThenSumSet(LAMBDA k : Abs(q[k]) - Abs(q[k - 1]), grown),
      closed |-> MapThenSumSet(LAMBDA k : Abs(q[k - 1]) - left(k), shrunk),
      status |-> IF shrunk = {} THEN "open"
                 ELSE IF \E k \in shrunk : left(k) = 0 THEN "closed"
                 ELSE "partial",
      carry |-> i < from]

\* The members of S in ascending order.
InOrder(S) == CHOOSE s \in [1..Cardinality(S) -> S] :
                \A j, k \in DOMAIN s : j < k => s[j] < s[k]

Lives(from, upto, pos) ==
  LET q == [i \in (from - 1)..upto |-> Replayed(from, upto, pos, i)]
      begins == InOrder(Begins(from, q))
  IN [k \in DOMAIN begins |-> Life(from, q, begins[k])]

\* The cycles of every run, applied or not, true or not, are the stretches of
\* the position it assumes: no fill is lost, counted twice or given to the
\* wrong cycle, a reversal is split at zero, and the creators of a cycle are
\* those of its fills.
CyclesFollowPosition ==
  \A r \in DOMAIN runs :
    Cycles(runs[r].from, runs[r].upto, runs[r].pos)
      = Lives(runs[r].from, runs[r].upto, runs[r].pos)
=============================================================================
