---------------------------- MODULE MCAllocTest -----------------------------
(* The numbers of the test, made small: the script fills three of five bytes, *)
(* the change comes right behind it, the insertion after its first byte and *)
(* the cut is of its first byte.  Or there is no script, or an empty one, or *)
(* one that does not fit the first test's page.                             *)
EXTENDS AllocTest

MCScripts == {<<1, 2, 3>>, << >>, <<1, 2, 3, 1, 2, 3>>, Missing}
MCFirstFiles == {[f \in FILE |-> IF f = Script THEN s ELSE Missing] : s \in MCScripts}
MCSaved == <<"changed", "inserted", "cut">>
MCFiles == {"script", "changed", "inserted", "cut"}
MCPages == <<1, 2, 2>>
MCSave == <<4, 4, 3>>
MCChange == <<4>>
MCInsert == <<5>>
MCNoData == {}

=============================================================================
