----------------------------- MODULE MCMcpLoop ------------------------------
(* The main loop with one client, packets of their real size and small       *)
(* pages.                                                                   *)
EXTENDS McpLoop

MCAll == Commands \ {"ialloc"}
MCPipelined == {"ping", "ralloc", "salloc", "ialloc"}
MCStore == {"salloc"}
MCFileShutdown == {"getfile", "shutdown"}

MCOnePage == {2}
MCOddPages == {11, 12, 14}
MCLongPage == {4}

=============================================================================
