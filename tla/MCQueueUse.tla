----------------------------- MODULE MCQueueUse -----------------------------
(* A ring of four slots and two byte values: the indices wrap within a few  *)
(* steps, and a packet of five bytes is one more than the ring holds.       *)
EXTENDS QueueUse

MCByte == {0, 1}

=============================================================================
