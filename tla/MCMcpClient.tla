---------------------------- MODULE MCMcpClient -----------------------------
(* A command whose packet just fits the FIFO, as that of PING does with two *)
(* bytes to spare, sent in either way; and one that is two bytes too long   *)
(* for it, as that of SHUTDOWN, sent without waiting.                       *)
EXTENDS McpClient

MCByte == 0 .. 90
MCClient == {[name |-> 1, waits |-> TRUE], [name |-> 1, waits |-> FALSE],
             [name |-> 3, waits |-> FALSE]}

=============================================================================
