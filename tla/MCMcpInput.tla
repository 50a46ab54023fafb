----------------------------- MODULE MCMcpInput -----------------------------
(* What a client may send: packets that mean a command, packets and noise   *)
(* that mean nothing, and packets that cut short or overrun what the        *)
(* handlers expect.                                                         *)
EXTENDS McpInput

MCByte == 0 .. 90
MCStart == {0, QUEUE_SIZE - 10}

Sends(bytes, means) == [bytes |-> bytes, means |-> means]

LetterA == 65
LetterU == 85

Commands == {
  Sends(PacketOf(Text, PING \o <<Newline>>), <<"ping">>),
  Sends(PacketOf(BinaryCommand, <<PingID>>), <<"ping">>),
  Sends(PacketOf(BinaryCommand, <<PingID, LetterA>>), <<"ping">>),
  Sends(PacketOf(Text, HELP \o <<Space>> \o PING \o <<Newline>>), <<"help">>),
  Sends(PacketOf(Text, SHELLEXEC \o <<Space, LetterA, Newline>>), <<"shellexec">>),
  Sends(PacketOf(Text, HELP \o <<Newline>>), <<"help">>),
  Sends(PacketOf(Text, <<LetterU, Newline>>), <<"unknown">>),
  Sends(PacketOf(Text, <<LetterU, Space, LetterA, Newline>>), <<"unknown">>)}

BadCommands == {
  Sends(PacketOf(Text, << >>), <<"bad">>),
  Sends(PacketOf(Text, <<Newline>>), <<"bad">>),
  Sends(PacketOf(Text, PING), <<"bad">>),
  Sends(PacketOf(Text, PING \o PING), <<"bad">>),
  Sends(PacketOf(Text, <<LetterU, LetterU, LetterU>>), <<"bad">>),
  Sends(PacketOf(Text, <<LetterU, LetterU, LetterU, LetterU, Newline>>), <<"bad">>)}

Nothing == {
  Sends(<<LetterA>>, << >>),
  Sends(<<Minus, Minus>>, << >>),
  Sends(<<Plus, LetterA>>, << >>),
  Sends(PacketOf(7, PING), << >>),
  Sends(<<Plus, Plus, Plus, 4, 0, Text, 80, Minus, Minus, LetterA>>, << >>),
  Sends(<<Plus, Plus, Plus, 6, 0, 9, Plus, Plus, Plus, Minus, Minus, Minus>>, << >>)}

(* No command asked for this BinaryData. *)
Unexpected == {
  Sends(PacketOf(BinaryData, <<LetterA>>), << >>),
  Sends(PacketOf(GraphicDirectives, << >>), << >>)}

(* SALLOC for an allocation there is not and IALLOC beyond the end of one,  *)
(* with their data; help still to be written; a shell command without a     *)
(* command.                                                                 *)
RefusedStore ==
  Sends(PacketOf(BinaryCommand, <<StoreAllocID, 9, 0, 0>>)
          \o PacketOf(BinaryData, <<LetterA>>), <<"salloc">>)

RefusedInsert ==
  Sends(PacketOf(BinaryCommand, <<InsertAllocID, 1, 0, 0, 9, 0, 0, 0, 1, 0>>)
          \o PacketOf(BinaryData, <<LetterA>>), <<"ialloc">>)

Straying == {
  RefusedStore,
  RefusedInsert,
  Sends(PacketOf(Text, HELP \o <<Space>> \o PUTFILE \o <<Newline>>), <<"help">>),
  Sends(PacketOf(Text, SHELLEXEC \o <<Newline>>), <<"shellexec">>)}

MCItem == Commands \cup BadCommands \cup Nothing \cup Unexpected \cup Straying
MCStray == {RefusedStore, RefusedInsert}

=============================================================================
