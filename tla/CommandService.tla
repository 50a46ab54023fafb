--------------------------- MODULE CommandService ---------------------------
(***************************************************************************)
(* What a client of the MCP server relies on: its commands are carried out *)
(* one at a time, each once, in the order it sent them, and each gives its *)
(* answers in that order.  The page is the memory behind the one           *)
(* allocation the commands use.                                            *)
(***************************************************************************)
EXTENDS Sequences

CONSTANTS
  VALUE,        (* what a page can hold                                     *)
  NoPage        (* there is no allocation                                   *)

VARIABLES
  asked,        (* commands not carried out, oldest first                   *)
  page,         (* the contents of the page, or NoPage                      *)
  owed          (* answers not received by the client, oldest first         *)

vars == <<asked, page, owed>>

(* The answers of a command that finds the page to be p.  A store that is   *)
(* not followed by as much data as it wants gets none, nor does GETFILE,    *)
(* which is still to be written.                                            *)
Answers(c, p) ==
  CASE c.what = "ralloc" /\ p # NoPage ->
         <<[what |-> "ralloc", val |-> NoPage], [what |-> "page", val |-> p]>>
    [] c.what \in {"salloc", "ialloc"} /\ c.val = NoPage -> << >>
    [] c.what = "getfile"                  -> << >>
    [] OTHER -> <<[what |-> c.what, val |-> NoPage]>>

(* The page after a command that finds it to be p.                          *)
Effect(c, p) ==
  CASE c.what \in {"salloc", "ialloc"} /\ c.val # NoPage -> c.val
    [] c.what = "reset"                    -> NoPage
    [] OTHER                               -> p

Init ==
  /\ asked = << >>
  /\ page \in VALUE
  /\ owed = << >>

Ask ==
  /\ \E what \in {"ping", "bad", "shutdown", "reset", "ralloc",
                 "salloc", "ialloc", "getfile"},
        val \in VALUE \cup {NoPage} :
       asked' = Append(asked, [what |-> what, val |-> val])
  /\ UNCHANGED <<page, owed>>

Serve ==
  /\ asked # << >>
  /\ asked' = Tail(asked)
  /\ page' = Effect(Head(asked), page)
  /\ owed' = owed \o Answers(Head(asked), page)

Receive ==
  /\ owed # << >>
  /\ owed' = Tail(owed)
  /\ UNCHANGED <<asked, page>>

Next == Ask \/ Serve \/ Receive

Spec == Init /\ [][Next]_vars

=============================================================================
