-------------------------- MODULE StatusAckCounter --------------------------
(***************************************************************************)
(* What the status ack counters promise, without queue, batch or crash: the *)
(* level stored for a viewer of a status is never above what a receipt said, *)
(* it is only ever raised (migrations/010), and it is forgotten only when it *)
(* has outlived the retention, or when the viewer is the account itself.     *)
(***************************************************************************)
EXTENDS Naturals

CONSTANTS Pairs,    \* (status message, viewer) pairs
          OwnPairs  \* the pairs whose viewer is the account itself

VARIABLES level,   \* 0 = no row, 2 = delivered, 3 = read
          seen,    \* the highest level any receipt reported
          expired  \* pairs with a row older than the retention

counterVars == <<level, seen, expired>>

Levels == {0, 2, 3}

CounterTypeOK ==
    /\ level \in [Pairs -> Levels]
    /\ seen \in [Pairs -> Levels]
    /\ expired \subseteq Pairs

CounterInit ==
    /\ CounterTypeOK
    /\ \A k \in Pairs : level[k] <= seen[k]

Observe ==
    /\ seen' \in [Pairs -> Levels]
    /\ \A k \in Pairs : seen[k] <= seen'[k]
    /\ UNCHANGED <<level, expired>>

\* Any number of observed receipts is committed, and rows are deleted.
Write ==
    /\ level' \in [Pairs -> Levels]
    /\ \A k \in Pairs : \/ level[k] <= level'[k] /\ level'[k] <= seen[k]
                        \/ level'[k] < level[k] /\ k \in expired \cup OwnPairs
    /\ expired' \subseteq expired
    /\ UNCHANGED seen

Expire ==
    /\ expired' \in SUBSET Pairs
    /\ expired \subseteq expired'
    /\ UNCHANGED <<level, seen>>

CounterNext == Observe \/ Write \/ Expire

CounterSpec == CounterInit /\ [][CounterNext]_counterVars
=============================================================================
