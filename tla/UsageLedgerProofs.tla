------------------------- MODULE UsageLedgerProofs -------------------------
(* The usage ledger keeps its promise, for all meters and units. *)
EXTENDS UsageLedger, FiniteSetTheorems, TLAPS

LEMMA LedgerInitBalanced == LedgerInit => LedgerTypeOK /\ LedgerBalanced
BY FS_EmptySet DEF LedgerInit, LedgerTypeOK, LedgerBalanced

LEMMA ChargeBalanced ==
    ASSUME LedgerTypeOK, LedgerBalanced, NEW m \in Meters, NEW S \in SUBSET Units,
           IsFiniteSet(S), Charge(m, S)
    PROVE  LedgerTypeOK' /\ LedgerBalanced'
<1>1. /\ IsFiniteSet(charged[m] \cup S)
      /\ Cardinality(charged[m] \cup S) = used[m] + Cardinality(S)
      <2>1. IsFiniteSet(charged[m]) /\ used[m] = Cardinality(charged[m])
            BY DEF LedgerBalanced
      <2>2. /\ IsFiniteSet(charged[m] \cap S) /\ Cardinality(charged[m] \cap S) = 0
            BY FS_EmptySet DEF Charge
      <2>3. Cardinality(S) \in Nat /\ Cardinality(charged[m]) \in Nat
            BY <2>1, FS_CardinalityType
      <2>4. /\ IsFiniteSet(charged[m] \cup S)
            /\ Cardinality(charged[m] \cup S)
                 = Cardinality(charged[m]) + Cardinality(S) - Cardinality(charged[m] \cap S)
            BY <2>1, FS_Union
      <2>.  QED BY <2>1, <2>2, <2>3, <2>4
<1>2. Cardinality(S) \in Nat
      BY FS_CardinalityType
<1>3. LedgerTypeOK'
      BY <1>2 DEF LedgerTypeOK, Charge
<1>4. LedgerBalanced'
      BY <1>1 DEF LedgerTypeOK, LedgerBalanced, Charge
<1>.  QED BY <1>3, <1>4

\* A meter of the ledger always shows the number of distinct units charged to
\* it: what recordMeterUsage's dedup token buys.
THEOREM LedgerKept == LedgerSpec => [](LedgerTypeOK /\ LedgerBalanced)
<1>1. LedgerTypeOK /\ LedgerBalanced /\ [LedgerNext]_ledgerVars
         => (LedgerTypeOK /\ LedgerBalanced)'
      BY ChargeBalanced DEF LedgerNext, ledgerVars, LedgerTypeOK, LedgerBalanced
<1>.  QED BY LedgerInitBalanced, <1>1, PTL DEF LedgerSpec
=============================================================================
