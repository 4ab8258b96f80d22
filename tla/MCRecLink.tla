------------------------------ MODULE MCRecLink ------------------------------
(***************************************************************************)
(* RecLink with one or two recording servers and a few rooms.              *)
(***************************************************************************)
EXTENDS RecLink

OneRoom  == <<[ip |-> "boxA", rooms |-> <<0>>]>>
TwoBoxes == <<[ip |-> "boxA", rooms |-> <<0>>], [ip |-> "boxB", rooms |-> <<0>>]>>
NoRoom   == <<>>

ConnectTwo == {<<0>>, <<1>>}
ExitAll    == {<<ALL>>}
Mixed      == {<<1>>, <<ALL>>}
=============================================================================
