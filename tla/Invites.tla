------------------------------ MODULE Invites ------------------------------
(***************************************************************************)
(* Invite redemption (coordinator/invite_admission.rs): concurrent redeem  *)
(* calls verify an invite, then debit its counter inside one redb write    *)
(* transaction.  redb admits one writer at a time and drops an uncommitted *)
(* transaction on a crash.  A registration writes the counter anew.        *)
(***************************************************************************)
EXTENDS Integers, FiniteSets

CONSTANTS
    Codes,          \* invite codes
    Budgets,        \* starting budgets
    Unset,          \* a code without a ledger row
    Calls,          \* redeem calls
    Nobody,         \* nobody holds the write transaction
    NeverExpires,   \* expires_at is None
    MaxClock, MaxRegisters, MaxCrashes, MaxFaults   \* bounds

ASSUME LedgerAssumption == Budgets \subseteq Nat /\ Unset \notin Nat
ASSUME CallsAssumption == IsFiniteSet(Calls)
ASSUME NobodyAssumption == Nobody \notin Calls /\ NeverExpires \notin 0..MaxClock
ASSUME BoundsAssumption ==
    MaxClock \in Nat /\ MaxRegisters \in Nat /\ MaxCrashes \in Nat /\ MaxFaults \in Nat

VARIABLES
    clock,
    expires,     \* SignedInvite::expires_at of each code
    ledger,      \* REDEMPTION_TABLE: budget left, Unset without a row
    writer,      \* the call that holds redb's write transaction
    pc, code,    \* where each redeem call is, and the code it presents
    read,        \* the budget a call read in its transaction
    spent,       \* history: committed debits since the code's last registration
    granted,     \* history: everything ever registered for a code
    registers, crashes, faults

vars == <<clock, expires, ledger, writer, pc, code, read, spent, granted, registers, crashes,
          faults>>
bounds == <<registers, crashes, faults>>

\* RedemptionLedger::register: insert overwrites whatever budget was left.
Register(c) ==
    \E b \in Budgets :
        /\ registers < MaxRegisters
        /\ writer = Nobody
        /\ registers' = registers + 1
        /\ ledger' = [ledger EXCEPT ![c] = b]
        /\ spent' = [spent EXCEPT ![c] = 0]
        /\ granted' = [granted EXCEPT ![c] = @ + b]
        /\ UNCHANGED <<clock, expires, writer, pc, code, read, crashes, faults>>

\* verify_invite: an invite is stale from its expiry on.
Stale(c) == expires[c] # NeverExpires /\ clock >= expires[c]

\* redeem, first check: the invite's issuer, signature and expiry.  An invite that fails
\* the signature checks behaves as a stale one.
Verify(r) ==
    /\ pc[r] = "new"
    /\ \/ ~Stale(code[r]) /\ pc' = [pc EXCEPT ![r] = "verified"]
       \/ pc' = [pc EXCEPT ![r] = "rejected"]
    /\ UNCHANGED <<clock, expires, ledger, writer, code, read, spent, granted, bounds>>

WriterFreeMutant == TRUE
WriterFree == writer = Nobody

\* debit: begin_write waits for the other writer, then the row is read.
Begin(r) ==
    /\ pc[r] = "verified"
    /\ WriterFree
    /\ writer' = r
    /\ read' = [read EXCEPT ![r] = ledger[code[r]]]
    /\ pc' = [pc EXCEPT ![r] = "debiting"]
    /\ UNCHANGED <<clock, expires, ledger, code, spent, granted, bounds>>

ExhaustedMutant(budget) == budget = Unset
Exhausted(budget) == budget = Unset \/ budget = 0

\* No row or nothing left: the transaction is dropped and redeem answers BudgetExhausted.
Refuse(r) ==
    /\ pc[r] = "debiting"
    /\ Exhausted(read[r])
    /\ writer' = Nobody
    /\ pc' = [pc EXCEPT ![r] = "exhausted"]
    /\ UNCHANGED <<clock, expires, ledger, code, read, spent, granted, bounds>>

\* The decremented budget is inserted and committed.
Commit(r) ==
    /\ pc[r] = "debiting"
    /\ ~Exhausted(read[r])
    /\ ledger' = [ledger EXCEPT ![code[r]] = read[r] - 1]
    /\ spent' = [spent EXCEPT ![code[r]] = @ + 1]
    /\ writer' = Nobody
    /\ pc' = [pc EXCEPT ![r] = "debited"]
    /\ UNCHANGED <<clock, expires, code, read, granted, bounds>>

\* redb refuses the read or the commit: nothing was written.
Fail(r) ==
    /\ pc[r] = "debiting"
    /\ faults < MaxFaults
    /\ faults' = faults + 1
    /\ writer' = Nobody
    /\ pc' = [pc EXCEPT ![r] = "failed"]
    /\ UNCHANGED <<clock, expires, ledger, code, read, spent, granted, registers, crashes>>

\* redeem returns its breadcrumb and the peer is admitted.
Admit(r) ==
    /\ pc[r] = "debited"
    /\ pc' = [pc EXCEPT ![r] = "admitted"]
    /\ UNCHANGED <<clock, expires, ledger, writer, code, read, spent, granted, bounds>>

\* The coordinator restarts: calls under way are lost, with their open transaction.
Crash ==
    /\ crashes < MaxCrashes
    /\ crashes' = crashes + 1
    /\ writer' = Nobody
    /\ pc' = [r \in Calls |-> IF pc[r] \in {"verified", "debiting", "debited"} THEN "lost"
                              ELSE pc[r]]
    /\ UNCHANGED <<clock, expires, ledger, code, read, spent, granted, registers, faults>>

PassTime ==
    /\ clock < MaxClock
    /\ clock' = clock + 1
    /\ UNCHANGED <<expires, ledger, writer, pc, code, read, spent, granted, bounds>>

Init ==
    /\ clock = 0
    /\ expires \in [Codes -> 0..MaxClock \cup {NeverExpires}]
    /\ ledger = [c \in Codes |-> Unset]
    /\ writer = Nobody
    /\ pc = [r \in Calls |-> "new"]
    /\ code \in [Calls -> Codes]
    /\ read = [r \in Calls |-> Unset]
    /\ spent = [c \in Codes |-> 0]
    /\ granted = [c \in Codes |-> 0]
    /\ registers = 0 /\ crashes = 0 /\ faults = 0

Next ==
    \/ \E c \in Codes : Register(c)
    \/ \E r \in Calls :
        Verify(r) \/ Begin(r) \/ Refuse(r) \/ Commit(r) \/ Fail(r) \/ Admit(r)
    \/ Crash \/ PassTime

Spec == Init /\ [][Next]_vars

-----------------------------------------------------------------------------
(* Properties                                                              *)

\* Type invariant.
TypeOK ==
    /\ clock \in 0..MaxClock
    /\ expires \in [Codes -> 0..MaxClock \cup {NeverExpires}]
    /\ ledger \in [Codes -> Nat \cup {Unset}]
    /\ writer \in Calls \cup {Nobody}
    /\ pc \in [Calls -> {"new", "verified", "rejected", "debiting", "exhausted", "debited",
                         "failed", "admitted", "lost"}]
    /\ code \in [Calls -> Codes]
    /\ read \in [Calls -> Nat \cup {Unset}]
    /\ spent \in [Codes -> Nat]
    /\ granted \in [Codes -> Nat]
    /\ registers \in 0..MaxRegisters /\ crashes \in 0..MaxCrashes /\ faults \in 0..MaxFaults

\* The calls that redeemed an invite.
Redeemers(c) == {r \in Calls : pc[r] \in {"debited", "admitted"} /\ code[r] = c}

\* No invite admits more peers than its operator ever granted, whatever redeem calls,
\* registrations, failures and restarts overlap.
NeverOverAdmitted == \A c \in Codes : Cardinality(Redeemers(c)) <= granted[c]

\* The write transaction that is open has read the budget that is still in the table: no
\* debit works on a stale counter.
TransactionIsCurrent ==
    \A r \in Calls : pc[r] = "debiting" => writer = r /\ read[r] = ledger[code[r]]

\* The transactions implement an atomic counter per invite.
Budget == INSTANCE InviteBudget WITH left <- ledger
ImplementsBudget == Budget!Spec
=============================================================================
