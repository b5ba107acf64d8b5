---------------------------- MODULE MCLegacyPool ----------------------------
(* Account ann with three nonces, one of them at two prices, and account bob  *)
(* with one, in a pool of four slots.  One transaction of each takes two.     *)
EXTENDS LegacyPool, TLC

CONSTANTS ann, bob

Tx(from, nonce, price, slots) ==
    [from |-> from, nonce |-> nonce, price |-> price, slots |-> slots]

MCTxs == {Tx(ann, 0, 2, 1), Tx(ann, 1, 1, 1), Tx(ann, 1, 3, 1), Tx(ann, 2, 2, 2),
          Tx(bob, 0, 3, 2)}

Head(nonces, rich) == [nonce |-> nonces, balance |-> [x \in Addrs |-> IF rich THEN 9 ELSE 2]]

MCHeads == {Head(ann :> 0 @@ bob :> 0, TRUE), Head(ann :> 0 @@ bob :> 1, FALSE),
            Head(ann :> 1 @@ bob :> 0, TRUE), Head(ann :> 2 @@ bob :> 1, TRUE)}

=============================================================================
