---------------------------- MODULE OperationsMC ----------------------------
(***************************************************************************)
(* Values for the constants of Operations that a configuration cannot      *)
(* write down.                                                             *)
(***************************************************************************)
EXTENDS Operations

\* The client starts once and the server twice; in GF(101).
EphemeralNumbers == [role \in PakeRoles |-> IF role = "client" THEN <<<<2, 3>>>>
                                            ELSE <<<<5, 7>>, <<13, 10>>>>]
PasswordPairs == {[role \in PakeRoles |-> 4],
                  [role \in PakeRoles |-> IF role = "client" THEN 4 ELSE 9]}

\* Element e of the peer is delivered as element route[e]; 0 is garbage.
DeliveryRoutes == {<<1, 2, 3>>, <<2, 1, 3>>, <<1, 1, 3>>, <<1, 2, 2>>, <<1, 0, 3>>}

\* Numbers and sizes of elements, some with a product past SizeModulus.
ElementCounts == {<<0, 1>>, <<1, 1>>, <<2, 1>>, <<2, 2>>, <<5, 1>>, <<9, 7>>, <<16, 4>>, <<63, 1>>}

ThreePrimes == <<3, 5, 7>>
MixedOperands == {-9, -3, 0, 1, 14, 128, 255, 9009, 33000}
\* What the generator gives: two bytes of four bits for one limb.
RandomDraws == {<<<<0, 2>>, <<15, 15>>>>, <<<<0, 3>>, <<15, 15>>>>,
                <<<<11, 9>>, <<0, 7>>, <<14, 2>>>>, <<<<0, 0>>, <<0, 1>>, <<0, 0>>, <<0, 2>>>>}
=============================================================================
