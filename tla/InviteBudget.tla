---------------------------- MODULE InviteBudget ----------------------------
(* What the redemption ledger promises: an invite is a counter that an      *)
(* operator sets and that every redemption lowers by one, never below zero. *)
EXTENDS Naturals

CONSTANTS Codes,      \* invite codes
          Budgets,    \* starting budgets an operator may register
          Unset       \* a code nobody registered

VARIABLES left,       \* redemptions left for each code
          spent       \* redemptions since the code's last registration

Init ==
    /\ left = [c \in Codes |-> Unset]
    /\ spent = [c \in Codes |-> 0]

Grant(c) ==
    \E b \in Budgets :
        /\ left' = [left EXCEPT ![c] = b]
        /\ spent' = [spent EXCEPT ![c] = 0]

Spend(c) ==
    /\ left[c] # Unset
    /\ left[c] > 0
    /\ left' = [left EXCEPT ![c] = @ - 1]
    /\ spent' = [spent EXCEPT ![c] = @ + 1]

Next == \E c \in Codes : Grant(c) \/ Spend(c)

Spec == Init /\ [][Next]_<<left, spent>>
=============================================================================
