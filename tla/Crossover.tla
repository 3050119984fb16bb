------------------------------- MODULE Crossover -------------------------------
(***************************************************************************)
(* The rolling SMA/EMA state of StrategyService for one symbol             *)
(* (services/strategy_service.py) and the signal a change of their order   *)
(* gives.  Decimal is taken as exact: the EMA is the fraction num / den,   *)
(* with alpha = 2 / (Slow + 1).                                            *)
(***************************************************************************)
EXTENDS Integers, Sequences

CONSTANTS Fast,  \* fast_sma_period
          Slow   \* slow_ema_period

ASSUME PeriodAssumption == Fast \in Nat \ {0} /\ Slow \in Nat \ {0, 1}

\* op applied along s, from the left; every value is computed once.
Along(op(_, _), base, s) ==
    LET upTo[i \in 0 .. Len(s)] == IF i = 0 THEN base ELSE op(upTo[i - 1], s[i])
    IN upTo[Len(s)]

NoRelation == 9  \* no comparison yet: None
Relation == {-1, 0, 1, NoRelation}

Fresh == [closes |-> <<>>, sum |-> 0, num |-> 0, den |-> 1, count |-> 0, rel |-> NoRelation]

Compare(left, right) ==
    CASE left > right -> 1 [] left < right -> -1 [] OTHER -> 0

\* Mutation: a full window keeps its oldest close in the sum.
LeavingNever(s) == 0

\* The close that leaves a full window with the next one.
Leaving(s) == IF Len(s.closes) = Fast THEN Head(s.closes) ELSE 0

\* _calculate: one finalized close enters the window, the average and the count.
Calculate(s, close) ==
    LET closes == Append(IF Len(s.closes) = Fast THEN Tail(s.closes) ELSE s.closes, close)
        sum == s.sum + close - Leaving(s)
        num == IF s.count = 0 THEN close ELSE 2 * close * s.den + (Slow - 1) * s.num
        den == IF s.count = 0 THEN 1 ELSE (Slow + 1) * s.den
        ready == s.count + 1 >= Slow /\ Len(closes) = Fast
    IN [closes |-> closes, sum |-> sum, num |-> num, den |-> den, count |-> s.count + 1,
        rel |-> IF ready THEN Compare(sum * den, Fast * num) ELSE s.rel]

\* Mutation: only strict changes of side count, equality is no side.
CrossingStrictly(previous, rel) ==
    IF previous = NoRelation \/ rel = NoRelation \/ previous * rel # -1 THEN 0 ELSE rel

\* process_candle: BUY (1) or EXIT (-1) when the relation crosses, else 0.
Crossing(previous, rel) ==
    CASE previous = NoRelation -> 0
      [] previous \in {-1, 0} /\ rel = 1 -> 1
      [] previous \in {0, 1} /\ rel = -1 -> -1
      [] OTHER -> 0

-------------------------------------------------------------------------------
(* Reference: the same two averages computed from the whole list of closes.   *)

Plus(total, x) == total + x
SumOf(s) == Along(Plus, 0, s)

Power(b, n) == LET p[i \in 0 .. n] == IF i = 0 THEN 1 ELSE b * p[i - 1] IN p[n]

\* Ema * (Slow + 1)^(n - 1) in closed form: the first close weighs
\* (Slow - 1)^(n - 1), close i > 1 weighs 2 (Slow - 1)^(n - i) (Slow + 1)^(i - 2).
EmaScaled(s) ==
    LET n == Len(s)
    IN s[1] * Power(Slow - 1, n - 1)
       + SumOf([i \in 1 .. n - 1 |->
                2 * s[i + 1] * Power(Slow - 1, n - 1 - i) * Power(Slow + 1, i - 1)])

\* The relation of the averages of these closes, read off the definitions.
RelationOf(s) ==
    LET n == Len(s)
    IN IF n < Slow \/ n < Fast THEN NoRelation
       ELSE Compare(SumOf(SubSeq(s, n - Fast + 1, n)) * Power(Slow + 1, n - 1), Fast * EmaScaled(s))
===============================================================================
