--------------------------- MODULE InvitesProofs ---------------------------
(* Proofs about Invites: its types, the budget it never exceeds and the     *)
(* atomic counter it implements, for any codes, calls, budgets and bounds.  *)
EXTENDS Invites, FiniteSetTheorems, TLAPS

Step(r) == Verify(r) \/ Begin(r) \/ Refuse(r) \/ Commit(r) \/ Fail(r) \/ Admit(r)

\* What is left of an invite as a number: a code without a row has nothing left.
Left(c) == IF ledger[c] = Unset THEN 0 ELSE ledger[c]

\* Redemptions made and redemptions left never exceed what was granted.  This is what a
\* step preserves; the bound alone is not, a debit needs to know that its budget was counted.
WithinGrants == \A c \in Codes : Cardinality(Redeemers(c)) + Left(c) <= granted[c]

\* Every step keeps every variable in its type.
LEMMA TypeStep == TypeOK /\ [Next]_vars => TypeOK'
<1> SUFFICES ASSUME TypeOK, [Next]_vars PROVE TypeOK'
  OBVIOUS
<1> USE LedgerAssumption, BoundsAssumption, NobodyAssumption
<1>1. ASSUME NEW c \in Codes, Register(c) PROVE TypeOK'
  <2>1. PICK b \in Budgets : ledger' = [ledger EXCEPT ![c] = b]
                             /\ granted' = [granted EXCEPT ![c] = @ + b]
    BY <1>1 DEF Register
  <2>2. b \in Nat
    BY <2>1
  <2>3. ledger' \in [Codes -> Nat \cup {Unset}] /\ granted' \in [Codes -> Nat]
    BY <2>1, <2>2 DEF TypeOK
  <2>4. QED
    BY <1>1, <2>3 DEF Register, TypeOK
<1>2. ASSUME NEW r \in Calls, Step(r) PROVE TypeOK'
  <2>1. CASE Verify(r)
    BY <2>1 DEF Verify, bounds, TypeOK
  <2>2. CASE Begin(r)
    BY <2>2 DEF Begin, bounds, TypeOK
  <2>3. CASE Refuse(r)
    BY <2>3 DEF Refuse, bounds, TypeOK
  <2>4. CASE Commit(r)
    <3>1. read[r] - 1 \in Nat
      BY <2>4 DEF Commit, Exhausted, TypeOK
    <3>2. ledger' \in [Codes -> Nat \cup {Unset}] /\ spent' \in [Codes -> Nat]
      BY <2>4, <3>1 DEF Commit, TypeOK
    <3>3. QED
      BY <2>4, <3>2 DEF Commit, bounds, TypeOK
  <2>5. CASE Fail(r)
    BY <2>5 DEF Fail, TypeOK
  <2>6. CASE Admit(r)
    BY <2>6 DEF Admit, bounds, TypeOK
  <2>7. QED
    BY <1>2, <2>1, <2>2, <2>3, <2>4, <2>5, <2>6 DEF Step
<1>3. CASE Crash
  BY <1>3 DEF Crash, TypeOK
<1>4. CASE PassTime
  BY <1>4 DEF PassTime, bounds, TypeOK
<1>5. CASE UNCHANGED vars
  BY <1>5 DEF vars, TypeOK
<1>6. QED
  BY <1>1, <1>2, <1>3, <1>4, <1>5 DEF Next, Step

\* Every reachable state is well typed; in particular no budget is ever negative.
THEOREM TypeCorrect == Spec => []TypeOK
<1>1. Init => TypeOK
  BY BoundsAssumption DEF Init, TypeOK
<1>2. QED
  BY <1>1, TypeStep, PTL DEF Spec

\* No step opens a second transaction or writes under an open one.
LEMMA CurrentStep == TypeOK /\ TransactionIsCurrent /\ [Next]_vars => TransactionIsCurrent'
<1> SUFFICES ASSUME TypeOK, TransactionIsCurrent, [Next]_vars,
                    NEW s \in Calls, pc'[s] = "debiting"
             PROVE  writer' = s /\ read'[s] = ledger'[code'[s]]
  BY DEF TransactionIsCurrent
<1> USE NobodyAssumption DEF TypeOK
<1>1. ASSUME NEW c \in Codes, Register(c) PROVE writer' = s /\ read'[s] = ledger'[code'[s]]
  BY <1>1 DEF Register, TransactionIsCurrent
<1>2. ASSUME NEW r \in Calls, Step(r) PROVE writer' = s /\ read'[s] = ledger'[code'[s]]
  <2>1. CASE Verify(r)
    BY <2>1 DEF Verify, TransactionIsCurrent
  <2>2. CASE Begin(r)
    BY <2>2 DEF Begin, WriterFree, TransactionIsCurrent
  <2>3. CASE Refuse(r)
    BY <2>3 DEF Refuse, TransactionIsCurrent
  <2>4. CASE Commit(r)
    BY <2>4 DEF Commit, TransactionIsCurrent
  <2>5. CASE Fail(r)
    BY <2>5 DEF Fail, TransactionIsCurrent
  <2>6. CASE Admit(r)
    BY <2>6 DEF Admit, TransactionIsCurrent
  <2>7. QED
    BY <1>2, <2>1, <2>2, <2>3, <2>4, <2>5, <2>6 DEF Step
<1>3. CASE Crash
  BY <1>3 DEF Crash, TransactionIsCurrent
<1>4. CASE PassTime
  BY <1>4 DEF PassTime, TransactionIsCurrent
<1>5. CASE UNCHANGED vars
  BY <1>5 DEF vars, TransactionIsCurrent
<1>6. QED
  BY <1>1, <1>2, <1>3, <1>4, <1>5 DEF Next, Step

\* The one open transaction works on the budget that is in the table.
THEOREM TransactionCurrent == Spec => []TransactionIsCurrent
<1>1. Init => TransactionIsCurrent
  BY DEF Init, TransactionIsCurrent
<1>2. QED
  BY <1>1, CurrentStep, TypeCorrect, PTL DEF Spec

\* One call that moves into the redeemers of its code adds one to them, and only there.
LEMMA RedeemersGrow ==
  ASSUME TypeOK, NEW r \in Calls, pc[r] = "debiting", code' = code,
         pc' = [pc EXCEPT ![r] = "debited"], NEW c \in Codes
  PROVE  Cardinality(Redeemers(c))' = Cardinality(Redeemers(c)) + (IF code[r] = c THEN 1 ELSE 0)
<1>1. IsFiniteSet(Redeemers(c))
  BY CallsAssumption, FS_Subset DEF Redeemers
<1>2. r \notin Redeemers(c)
  BY DEF Redeemers
<1>3. CASE code[r] = c
  <2>1. Redeemers(c)' = Redeemers(c) \cup {r}
    BY <1>3 DEF Redeemers, TypeOK
  <2>2. QED
    BY <1>1, <1>2, <1>3, <2>1, FS_AddElement
<1>4. CASE code[r] # c
  <2>1. Redeemers(c)' = Redeemers(c)
    BY <1>4 DEF Redeemers, TypeOK
  <2>2. QED
    BY <1>1, <1>4, <2>1, FS_CardinalityType
<1>5. QED
  BY <1>3, <1>4

\* A step that leaves the redeemers of a code a subset of what they were, its row and its
\* grants alone keeps the code within its grants.
LEMMA RedeemersShrink ==
  ASSUME TypeOK, WithinGrants, NEW c \in Codes, Redeemers(c)' \subseteq Redeemers(c),
         ledger' = ledger, granted' = granted
  PROVE  Cardinality(Redeemers(c))' + Left(c)' <= granted'[c]
<1>1. IsFiniteSet(Redeemers(c))
  BY CallsAssumption, FS_Subset DEF Redeemers
<1>2. IsFiniteSet(Redeemers(c)') /\ Cardinality(Redeemers(c)') <= Cardinality(Redeemers(c))
  BY <1>1, FS_Subset
<1>3. Cardinality(Redeemers(c)) \in Nat /\ Cardinality(Redeemers(c)') \in Nat
  BY <1>1, <1>2, FS_CardinalityType
<1>4. Left(c)' = Left(c) /\ Left(c) \in Nat /\ granted[c] \in Nat
  BY LedgerAssumption DEF Left, TypeOK
<1>5. QED
  BY <1>2, <1>3, <1>4 DEF WithinGrants

\* Redemptions made and left stay within the grants.
LEMMA GrantsStep ==
  TypeOK /\ TransactionIsCurrent /\ WithinGrants /\ [Next]_vars => WithinGrants'
<1> SUFFICES ASSUME TypeOK, TransactionIsCurrent, WithinGrants, [Next]_vars, NEW c \in Codes
             PROVE  Cardinality(Redeemers(c))' + Left(c)' <= granted'[c]
  BY DEF WithinGrants
<1>0. Cardinality(Redeemers(c)) \in Nat /\ Left(c) \in Nat /\ granted[c] \in Nat
  <2>1. IsFiniteSet(Redeemers(c))
    BY CallsAssumption, FS_Subset DEF Redeemers
  <2>2. QED
    BY <2>1, FS_CardinalityType, LedgerAssumption DEF Left, TypeOK
<1>1. ASSUME NEW d \in Codes, Register(d)
      PROVE  Cardinality(Redeemers(c))' + Left(c)' <= granted'[c]
  <2>1. PICK b \in Budgets : ledger' = [ledger EXCEPT ![d] = b]
                             /\ granted' = [granted EXCEPT ![d] = @ + b]
    BY <1>1 DEF Register
  <2>2. Redeemers(c)' = Redeemers(c)
    BY <1>1 DEF Register, Redeemers
  <2>3. b \in Nat /\ b # Unset
    BY <2>1, LedgerAssumption
  <2>4. CASE c = d
    <3>1. Left(c)' = b /\ granted'[c] = granted[c] + b
      BY <2>1, <2>3, <2>4 DEF Left, TypeOK
    <3>2. QED
      BY <1>0, <2>2, <2>3, <3>1 DEF WithinGrants
  <2>5. CASE c # d
    <3>1. Left(c)' = Left(c) /\ granted'[c] = granted[c]
      BY <2>1, <2>5 DEF Left, TypeOK
    <3>2. QED
      BY <1>0, <2>2, <3>1 DEF WithinGrants
  <2>6. QED
    BY <2>4, <2>5
<1>2. ASSUME NEW r \in Calls, Step(r)
      PROVE  Cardinality(Redeemers(c))' + Left(c)' <= granted'[c]
  <2>1. CASE Verify(r)
    <3>1. Redeemers(c)' \subseteq Redeemers(c)
      BY <2>1 DEF Verify, Redeemers, TypeOK
    <3>2. QED
      BY <2>1, <3>1, RedeemersShrink DEF Verify
  <2>2. CASE Begin(r)
    <3>1. Redeemers(c)' \subseteq Redeemers(c)
      BY <2>2 DEF Begin, Redeemers, TypeOK
    <3>2. QED
      BY <2>2, <3>1, RedeemersShrink DEF Begin
  <2>3. CASE Refuse(r)
    <3>1. Redeemers(c)' \subseteq Redeemers(c)
      BY <2>3 DEF Refuse, Redeemers, TypeOK
    <3>2. QED
      BY <2>3, <3>1, RedeemersShrink DEF Refuse
  <2>4. CASE Commit(r)
    <3>1. Cardinality(Redeemers(c))'
            = Cardinality(Redeemers(c)) + (IF code[r] = c THEN 1 ELSE 0)
      BY <2>4, RedeemersGrow DEF Commit
    <3>2. granted' = granted /\ ledger' = [ledger EXCEPT ![code[r]] = read[r] - 1]
      BY <2>4 DEF Commit
    <3>3. read[r] = ledger[code[r]] /\ read[r] # Unset /\ read[r] \in Nat /\ read[r] # 0
      BY <2>4 DEF Commit, Exhausted, TransactionIsCurrent, TypeOK
    <3>4. CASE code[r] = c
      <4>1. Left(c) = read[r] /\ Left(c)' = read[r] - 1
        <5>1. read[r] - 1 \in Nat /\ read[r] - 1 # Unset
          BY <3>3, LedgerAssumption
        <5>2. QED
          BY <3>2, <3>3, <3>4, <5>1 DEF Left, TypeOK
      <4>2. QED
        BY <1>0, <3>1, <3>2, <3>3, <3>4, <4>1 DEF WithinGrants
    <3>5. CASE code[r] # c
      <4>1. Left(c)' = Left(c)
        BY <3>2, <3>5 DEF Left, TypeOK
      <4>2. QED
        BY <1>0, <3>1, <3>2, <3>5, <4>1 DEF WithinGrants
    <3>6. QED
      BY <3>4, <3>5
  <2>5. CASE Fail(r)
    <3>1. Redeemers(c)' \subseteq Redeemers(c)
      BY <2>5 DEF Fail, Redeemers, TypeOK
    <3>2. QED
      BY <2>5, <3>1, RedeemersShrink DEF Fail
  <2>6. CASE Admit(r)
    <3>1. Redeemers(c)' \subseteq Redeemers(c)
      BY <2>6 DEF Admit, Redeemers, TypeOK
    <3>2. QED
      BY <2>6, <3>1, RedeemersShrink DEF Admit
  <2>7. QED
    BY <1>2, <2>1, <2>2, <2>3, <2>4, <2>5, <2>6 DEF Step
<1>3. CASE Crash
  <2>1. Redeemers(c)' \subseteq Redeemers(c)
    BY <1>3 DEF Crash, Redeemers, TypeOK
  <2>2. QED
    BY <1>3, <2>1, RedeemersShrink DEF Crash
<1>4. CASE PassTime
  <2>1. Redeemers(c)' \subseteq Redeemers(c)
    BY <1>4 DEF PassTime, Redeemers
  <2>2. QED
    BY <1>4, <2>1, RedeemersShrink DEF PassTime
<1>5. CASE UNCHANGED vars
  <2>1. Redeemers(c)' \subseteq Redeemers(c)
    BY <1>5 DEF vars, Redeemers
  <2>2. QED
    BY <1>5, <2>1, RedeemersShrink DEF vars
<1>6. QED
  BY <1>1, <1>2, <1>3, <1>4, <1>5 DEF Next, Step

\* No invite admits more peers than it was granted, whatever calls overlap and crash.
THEOREM NoOverAdmission == Spec => []NeverOverAdmitted
<1>1. Init => WithinGrants
  <2> SUFFICES ASSUME Init, NEW c \in Codes
               PROVE  Cardinality(Redeemers(c)) + Left(c) <= granted[c]
    BY DEF WithinGrants
  <2>1. Redeemers(c) = {}
    BY DEF Init, Redeemers
  <2>2. QED
    BY <2>1, FS_EmptySet DEF Init, Left
<1>2. TypeOK /\ WithinGrants => NeverOverAdmitted
  <2> SUFFICES ASSUME TypeOK, WithinGrants, NEW c \in Codes
               PROVE  Cardinality(Redeemers(c)) <= granted[c]
    BY DEF NeverOverAdmitted
  <2>1. IsFiniteSet(Redeemers(c))
    BY CallsAssumption, FS_Subset DEF Redeemers
  <2>2. Cardinality(Redeemers(c)) \in Nat /\ Left(c) \in Nat /\ granted[c] \in Nat
    BY <2>1, FS_CardinalityType, LedgerAssumption DEF Left, TypeOK
  <2>3. QED
    BY <2>2 DEF WithinGrants
<1>3. QED
  BY <1>1, <1>2, GrantsStep, TypeCorrect, TransactionCurrent, PTL DEF Spec

\* Every step of the transactions is a step of the atomic counter or leaves it alone: a
\* registration is Grant, a commit is Spend.
LEMMA BudgetStep ==
  TypeOK /\ TransactionIsCurrent /\ [Next]_vars => [Budget!Next]_<<ledger, spent>>
<1> SUFFICES ASSUME TypeOK, TransactionIsCurrent, [Next]_vars
             PROVE  [Budget!Next]_<<ledger, spent>>
  OBVIOUS
<1>1. ASSUME NEW c \in Codes, Register(c) PROVE Budget!Next
  BY <1>1 DEF Register, Budget!Next, Budget!Grant
<1>2. ASSUME NEW r \in Calls, Commit(r) PROVE Budget!Next
  <2>1. read[r] = ledger[code[r]] /\ code[r] \in Codes
    BY <1>2 DEF Commit, TransactionIsCurrent, TypeOK
  <2>2. Budget!Spend(code[r])
    BY <1>2, <2>1, LedgerAssumption DEF Commit, Exhausted, Budget!Spend, TypeOK
  <2>3. QED
    BY <2>1, <2>2 DEF Budget!Next
<1>3. ASSUME NEW r \in Calls, Verify(r) \/ Begin(r) \/ Refuse(r) \/ Fail(r) \/ Admit(r)
      PROVE  UNCHANGED <<ledger, spent>>
  BY <1>3 DEF Verify, Begin, Refuse, Fail, Admit
<1>4. ASSUME Crash \/ PassTime \/ UNCHANGED vars PROVE UNCHANGED <<ledger, spent>>
  BY <1>4 DEF Crash, PassTime, vars
<1>5. QED
  BY <1>1, <1>2, <1>3, <1>4 DEF Next

\* The ledger's transactions implement the atomic counter of InviteBudget.
THEOREM BudgetImplemented == Spec => ImplementsBudget
<1>1. Init => Budget!Init
  BY DEF Init, Budget!Init
<1>2. QED
  BY <1>1, BudgetStep, TypeCorrect, TransactionCurrent, PTL DEF Spec, ImplementsBudget, Budget!Spec
=============================================================================
