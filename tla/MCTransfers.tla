---------------------------- MODULE MCTransfers ----------------------------
(***************************************************************************)
(* Two currencies, one with a treasury; two customers of the same currency *)
(* whose accounts everybody fights over, and one account of the other      *)
(* currency.  The numbers are small enough for two payments to exhaust an  *)
(* account and for one funding too many to leave the range of a balance.   *)
(***************************************************************************)
EXTENDS Transfers, TLC

CONSTANTS alice, bob, r1, r2, r3, inr, usd

\* 0 is the INR treasury, 1 alice's and 2 bob's INR account, 3 alice's USD one.
MCAccounts   == 0..3
MCTreasuries == {0}
MCCurrency   == [a \in MCAccounts |-> IF a = 3 THEN usd ELSE inr]
MCOwner      == (0 :> "nobody") @@ (1 :> alice) @@ (2 :> bob) @@ (3 :> alice)
MCOpening    == (0 :> -5) @@ (1 :> 3) @@ (2 :> 2) @@ (3 :> 0)

T(c, f, t, a) == [kind |-> "transfer", caller |-> c, from |-> f, to |-> t, amount |-> a]
F(t, a) == [kind |-> "funding", caller |-> alice, from |-> NoAccount, to |-> t, amount |-> a]

\* Payments that compete: the same money spent twice, opposite directions,
\* fundings into both rows.
Contended ==
  {T(alice, 1, 2, 2), T(bob, 2, 1, 2), F(1, 1), F(2, 2)}

\* Every way a request can be refused, beside two that go through.
Refused ==
  {T(alice, 1, 2, 2), T(bob, 1, 2, 1), T(alice, 1, 3, 1), T(alice, 1, 1, 1),
   T(bob, 2, 1, 3), T(alice, 1, 9, 1), T(alice, 0, 1, 1), T(alice, 1, 2, 7),
   F(2, 1), F(2, 6), F(3, 1), F(0, 1), F(9, 1)}

Symmetry == Permutations(Requests)
=============================================================================
