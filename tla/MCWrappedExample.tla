-------------------------- MODULE MCWrappedExample --------------------------
(***************************************************************************)
(* Two vectors of the right dimension and one of the wrong one.            *)
(***************************************************************************)
EXTENDS ExampleCaller

ExampleVectors == {<<0>>, <<2>>, <<1, 1>>}
==============================================================================
