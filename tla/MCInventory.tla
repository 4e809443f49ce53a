---------------------------- MODULE MCInventory ----------------------------
(* Inventory on small instances.                                           *)
EXTENDS Inventory

CONSTANTS u1, u2, a1, a2, l1, l2, nouser, nojob, norow

OneUser == {u1}
TwoUsers == {u1, u2}
OneAccount == {a1}
TwoAccounts == {a1, a2}
OneLoop == {l1}
TwoLoops == {l1, l2}

Sync(a) == [kind |-> "sync", account |-> a]
Create(a, n, m) == [kind |-> "create", account |-> a, count |-> n, managed |-> m]
On(k, a, ds) == [kind |-> k, account |-> a, droplets |-> ds]

(* One of everything on one account.                                       *)
AllKinds ==
  {Sync(a1), Create(a1, 1, TRUE), Create(a1, 2, TRUE), Create(a1, 2, FALSE)}
    \cup {On(k, a1, ds) : k \in {"delete", "reset"},
                          ds \in {{<<a1, 1>>}, {<<a1, 1>>, <<a1, 2>>}}}
    \cup {On(k, a1, {<<a1, 1>>}) : k \in {"power", "restore"}}

Creates == {Create(a, n, m) : a \in TwoAccounts, n \in {1, 2}, m \in BOOLEAN}
SyncAndCreate == {Sync(a1), Create(a1, 1, TRUE)}

=============================================================================
