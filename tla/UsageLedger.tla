---------------------------- MODULE UsageLedger ----------------------------
(***************************************************************************)
(* What the usage meter promises: every unit is charged to a meter at most *)
(* once, whatever is retried, duplicated or lost around it, and a meter is *)
(* the number of units charged to it.  The thread sorter charges threads   *)
(* to the calendar months, the historical backfill charges the threads of  *)
(* its chunks to the inbox.                                                *)
(***************************************************************************)
EXTENDS Naturals, FiniteSets

CONSTANTS Meters, Units

VARIABLES
    charged,    \* charged[m]: the units charged to meter m
    used        \* InboxUsageMeter.used

ledgerVars == <<charged, used>>

LedgerInit ==
    /\ charged = [m \in Meters |-> {}]
    /\ used = [m \in Meters |-> 0]

\* One recordMeterUsage transaction: new units, and as many on the meter.
Charge(m, S) ==
    /\ S \cap charged[m] = {}
    /\ charged' = [charged EXCEPT ![m] = @ \cup S]
    /\ used' = [used EXCEPT ![m] = @ + Cardinality(S)]

LedgerNext == \E m \in Meters : \E S \in SUBSET Units : IsFiniteSet(S) /\ Charge(m, S)

LedgerSpec == LedgerInit /\ [][LedgerNext]_ledgerVars

LedgerTypeOK ==
    /\ charged \in [Meters -> SUBSET Units]
    /\ used \in [Meters -> Nat]

\* A meter shows the number of distinct units charged to it.
LedgerBalanced ==
    \A m \in Meters : IsFiniteSet(charged[m]) /\ used[m] = Cardinality(charged[m])
=============================================================================
