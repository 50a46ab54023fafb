------------------------------ MODULE SeqSums ------------------------------
(***************************************************************************)
(* The sum of a sequence of numbers, and the part of a sequence whose      *)
(* members are in a set.  Both are recursive functions of the length of a  *)
(* prefix, where FoldLeft and SelectSeq take an operator: facts about      *)
(* these can be proved, see McpLoop_proofs.                                *)
(***************************************************************************)
EXTENDS Integers, Sequences

SumOf(s) ==
  LET sum[n \in 0 .. Len(s)] == IF n = 0 THEN 0 ELSE sum[n - 1] + s[n]
  IN  sum[Len(s)]

Joined(t, x, S) == IF x \in S THEN Append(t, x) ELSE t

Those(s, S) ==
  LET those[n \in 0 .. Len(s)] ==
        IF n = 0 THEN << >> ELSE Joined(those[n - 1], s[n], S)
  IN  those[Len(s)]

=============================================================================
