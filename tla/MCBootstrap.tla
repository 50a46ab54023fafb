---------------------------- MODULE MCBootstrap -----------------------------
(* A byte of five values, so that lengths and addresses take both bytes of  *)
(* a word.  As bootloader.bin does, the loader ends with a nop, a byte that *)
(* an empty FIFO gives as well.                                             *)
EXTENDS Bootstrap

MCLoader == <<1, 2, 3, 0>>
MCPayload == <<1, 2, 4, 0, 3, 2>>

=============================================================================
