-------------------------- MODULE MCChannelSelect --------------------------
(* Two groups of two priorities; in the first, two channels share the      *)
(* lower priority and one of them has no weight.                           *)
EXTENDS ChannelSelect, TLC

CONSTANTS a, b, c, d, e

TwoGroups == (a :> 1) @@ (b :> 1) @@ (c :> 1) @@ (d :> 2) @@ (e :> 2)
Levels == (a :> 2) @@ (b :> 1) @@ (c :> 1) @@ (d :> 2) @@ (e :> 1)
Weights == (a :> 1) @@ (b :> 0) @@ (c :> 1) @@ (d :> 1) @@ (e :> 0)
=============================================================================
