----------------------------- MODULE MCNetSync -----------------------------
(***************************************************************************)
(* Instances of NetSync: a chain of three blocks on the genesis block 0,   *)
(* with two choices of transactions (Linear, Gap);                         *)
(* one in which block 22 replaces block 2 with the same transaction (Fork) *)
(* or another one (Swap); and one in which 33 on 22 replaces 3 on 2 (Deep).*)
(* Gap, Fork and Swap show the known limits of the README.                 *)
(***************************************************************************)
EXTENDS NetSync

LinearBlocks == 0 .. 3
LinearPath == [b \in LinearBlocks |-> [i \in 1 .. b + 1 |-> i - 1]]
LinearWork == [b \in LinearBlocks |-> b]
LinearTxs == (0 :> <<>>) @@ (1 :> <<"a", "x", "b">>) @@ (2 :> <<"x">>) @@ (3 :> <<"x", "c">>)

GapTxs == (0 :> <<>>) @@ (1 :> <<"a", "x", "b">>) @@ (2 :> <<"c">>) @@ (3 :> <<"x">>)

ForkBlocks == {0, 1, 2, 22}
ForkPath == (0 :> <<0>>) @@ (1 :> <<0, 1>>) @@ (2 :> <<0, 1, 2>>) @@ (22 :> <<0, 1, 22>>)
ForkWork == (0 :> 0) @@ (1 :> 1) @@ (2 :> 2) @@ (22 :> 3)
ForkTxs == (0 :> <<>>) @@ (1 :> <<"x">>) @@ (2 :> <<"x", "a">>) @@ (22 :> <<"a">>)

SwapTxs == (0 :> <<>>) @@ (1 :> <<"x">>) @@ (2 :> <<"x", "a">>) @@ (22 :> <<"u">>)

DeepBlocks == {0, 1, 2, 3, 22, 33}
DeepPath == (0 :> <<0>>) @@ (1 :> <<0, 1>>) @@ (2 :> <<0, 1, 2>>) @@ (3 :> <<0, 1, 2, 3>>)
         @@ (22 :> <<0, 1, 22>>) @@ (33 :> <<0, 1, 22, 33>>)
DeepWork == (0 :> 0) @@ (1 :> 1) @@ (2 :> 3) @@ (3 :> 4) @@ (22 :> 2) @@ (33 :> 5)
DeepTxs == (0 :> <<>>) @@ (1 :> <<"x">>) @@ (2 :> <<"x", "a">>) @@ (3 :> <<"x">>)
        @@ (22 :> <<"x">>) @@ (33 :> <<"a", "b">>)
=============================================================================
