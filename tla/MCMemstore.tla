----------------------------- MODULE MCMemstore -----------------------------
(* Allocations of one or two pages of two bytes.                            *)
EXTENDS Memstore

MCData == {<<1>>, <<0, 1>>}
MCFirstFiles == [FILE -> {Missing, <<1, 1, 1, 1, 1>>}]

=============================================================================
