---------------------------- MODULE PaymentLedger ---------------------------
(***************************************************************************)
(* What a payment integration promises, whatever the provider: money the   *)
(* provider took is entered into the books of the shop at most once, money *)
(* that was not taken is never entered, and no entry is ever struck out.   *)
(***************************************************************************)
EXTENDS Naturals, Sequences

CONSTANTS Payments, \* payments known to the provider
          Other     \* an entry that does not come from the provider, and
                    \* is none of Payments

VARIABLES captured, \* the payments whose money the provider took
          book      \* the payments entered as settled, in order

ledgerVars == <<captured, book>>

Entered(p) == \E i \in DOMAIN book : book[i] = p

Init ==
    /\ captured = {}
    /\ book = <<>>

\* The provider takes the money of p.
Capture(p) ==
    /\ captured' = captured \cup {p}
    /\ UNCHANGED book

\* The shop enters p. A second entry of the same payment is not a step.
Enter(p) ==
    /\ p \in captured
    /\ ~Entered(p)
    /\ book' = Append(book, p)
    /\ UNCHANGED captured

\* The shop takes the money of p itself and enters it in the same transaction.
Charge(p) ==
    /\ p \notin captured
    /\ ~Entered(p)
    /\ captured' = captured \cup {p}
    /\ book' = Append(book, p)

\* The shop enters a payment made by other means.
EnterOther ==
    /\ book' = Append(book, Other)
    /\ UNCHANGED captured

Next ==
    \/ \E p \in Payments : Capture(p) \/ Enter(p) \/ Charge(p)
    \/ EnterOther

Spec == Init /\ [][Next]_ledgerVars

TypeOK ==
    /\ captured \subseteq Payments
    /\ book \in Seq(Payments \cup {Other})

\* No payment of the provider is entered twice.
NoDoubleEntry ==
    \A i, j \in DOMAIN book :
        book[i] \in Payments /\ book[i] = book[j] => i = j

\* Only money that was taken is entered.
NoPhantomEntry ==
    \A i \in DOMAIN book : book[i] \in Payments => book[i] \in captured

=============================================================================
