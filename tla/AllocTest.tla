----------------------------- MODULE AllocTest ------------------------------
(***************************************************************************)
(* The client that exercises the memory commands (cpc_c/alloctest) against *)
(* the memory store of the server.  It sends one command after the other,  *)
(* always for allocation 1 and whatever was answered; after RALLOC it also *)
(* reads a page, which does not come with an error.                        *)
(*                                                                         *)
(* The user may break it off and run it again at any time: while it sends, *)
(* before its command is carried out, before or in the middle of the       *)
(* answer or the page.  The server knows nothing of that.  Then the next   *)
(* run takes what is left of the old packets for its answers: six bytes    *)
(* that are no header it reports, and goes on as if it had been answered.  *)
(*                                                                         *)
(* A packet is whole or cut here; its bytes are McpClient's and McpLoop's  *)
(* matter.                                                                 *)
(***************************************************************************)
EXTENDS Memstore

CONSTANTS
  Script,             (* the file the test loads: run_mcp_pi.sh             *)
  Saved,              (* the three files it saves, in order                 *)
  PAGES,              (* pages it asks for: 5, 6 and 6                      *)
  SAVE,               (* bytes it saves: 60, 49 and 45                      *)
  CHANGE, CHANGE_AT,  (* what it writes over the page, and where: at 37     *)
  INSERT, INSERT_AT,  (* what it inserts, and where: "Hello World\n" at 12  *)
  CUT, CUT_AT,        (* how much it cuts, and where: 4 at 7                *)
  MaxRuns,            (* bound: how often the test is run                   *)
  MaxWaiting          (* bound: commands waiting, and packets unread        *)

(* The three files are different.  What is saved of the first ends with the *)
(* change, what is saved of the last is less than the page by what is cut.  *)
ASSUME AllocTestAssumption ==
  /\ Script \in FILE /\ Saved \in [1 .. 3 -> FILE \ {Script}]
  /\ \A p, q \in 1 .. 3 : Saved[p] = Saved[q] => p = q
  /\ PAGES \in [1 .. 3 -> 1 .. MAX_PAGES] /\ SAVE \in [1 .. 3 -> 1 .. KB]
  /\ CHANGE \in Seq(BYTE) /\ CHANGE_AT \in Nat /\ CHANGE_AT + Len(CHANGE) < KB
  /\ SAVE[1] <= CHANGE_AT + Len(CHANGE)
  /\ INSERT \in Seq(BYTE) /\ INSERT_AT \in 0 .. KB
  /\ CUT \in Nat /\ CUT_AT \in Nat /\ CUT_AT + CUT <= KB /\ SAVE[3] + CUT <= KB
  /\ MaxRuns \in Nat /\ MaxWaiting \in Nat

(* A script that can be loaded reaches to the place of the change: what is  *)
(* there from an earlier run lies beyond and is written over.               *)
ASSUME ScriptAssumption ==
  \A f \in FIRST_FILES :
    f[Script] \in {Missing, << >>} \/ Len(f[Script]) >= CHANGE_AT

VARIABLES
  part,       (* which of the three tests is at work                        *)
  next,       (* the command it is at                                       *)
  doing,      (* with that command: about to send it, or reading            *)
  buffer,     (* response_buffer: the page RALLOC brought, and edited       *)
  failed,     (* has this run read an answer with an error                  *)
  fresh,      (* did this run find nothing of an earlier one under way      *)
  runs        (* times the test has been run (only bounds the model)        *)

clientVars == <<part, next, doing, buffer, failed, fresh, runs>>

VARIABLES
  requests,   (* commands sent, with their data, and not yet carried out    *)
  out_queue,  (* packets not read yet, those on the card included           *)
  begun,      (* has a part of the first of them been read                  *)
  lock        (* is binary_data_send_mode on                                *)

serverVars == <<vars, requests, out_queue, begun, lock>>

testVars == <<clientVars, serverVars>>

(* Other clients may have lost streams before, and left a page half read. *)
TestInit ==
  /\ memstore = NoAllocations /\ files \in FIRST_FILES /\ open \in 0 .. MAX_OPEN
  /\ answer = [command |-> "none", id |-> 0, error |-> 0, data |-> << >>]
  /\ part = 3 /\ next = "end" /\ doing = "send" /\ buffer = << >>
  /\ failed = FALSE /\ fresh = FALSE /\ runs = 0
  /\ requests = << >>
  /\ out_queue \in {<< >>, <<[type |-> "BinaryData", error |-> 0, data |-> << >>]>>}
  /\ begun = (out_queue # << >>) /\ lock \in {FALSE, begun}

-----------------------------------------------------------------------------
(* The server carries out the commands as they come. *)

(* The next command is complete, with its data.  A server with its lock on  *)
(* looks at none.                                                           *)
Asked(command) ==
  /\ ~lock /\ requests # << >> /\ Len(out_queue) < MaxWaiting
  /\ Head(requests).whole /\ Head(requests).command = command

Reply == [type |-> "BinaryCommand", error |-> answer'.error, data |-> << >>]
PageOfReply == [type |-> "BinaryData", error |-> 0, data |-> answer'.data]

(* A command has been carried out and answered. *)
Replied ==
  /\ requests' = Tail(requests)
  /\ out_queue' = Append(out_queue, Reply)
  /\ UNCHANGED <<clientVars, begun, lock>>

Create ==
  /\ Asked("CALLOC")
  /\ LET pages == PAGES[Head(requests).part] IN
       CreateAlloc(pages, 1) \/ CreateFails(pages, 1)
  /\ Replied

Load ==
  /\ Asked("PILALLOC")
  /\ \/ LoadAlloc(1, Script) \/ LoadUnfit(1, Script) \/ LoadNotOpened(1, Script)
     \/ LoadRefused(1)
  /\ Replied

(* The page goes out behind the answer, and the send lock goes on. *)
Retrieve ==
  /\ Asked("RALLOC")
  /\ RetrieveAlloc(1, 0)
  /\ requests' = Tail(requests)
  /\ out_queue' = out_queue \o <<Reply, PageOfReply>>
  /\ lock' = TRUE
  /\ UNCHANGED <<clientVars, begun>>

(* No page follows an error. *)
RetrieveNothing ==
  /\ Asked("RALLOC")
  /\ RetrieveRefused(1, 0)
  /\ Replied

StorePage ==
  /\ Asked("SALLOC")
  /\ StoreAlloc(1, 0, Head(requests).page) \/ StoreRefused(1, 0)
  /\ Replied

Insert ==
  /\ Asked("IALLOC")
  /\ InsertAlloc(1, INSERT_AT, INSERT) \/ InsertRefused(1, INSERT_AT, Len(INSERT))
  /\ Replied

Cut ==
  /\ Asked("XALLOC")
  /\ CutAlloc(1, CUT_AT, CUT) \/ CutRefused(1, CUT_AT, CUT)
  /\ Replied

Save ==
  /\ Asked("PISALLOC")
  /\ LET p == Head(requests).part IN
       \/ SaveAlloc(1, Saved[p], SAVE[p])
       \/ SaveNotOpened(1, SAVE[p]) \/ SaveRefused(1, SAVE[p])
  /\ Replied

Free ==
  /\ Asked("FALLOC")
  /\ FreeAlloc(1) \/ FreeRefused(1)
  /\ Replied

(* A command that was cut, or whose data was, is not answered.  What comes  *)
(* behind it may be taken for the rest of it, but no packet is as long as   *)
(* what a run sends up to the end of its own page.                          *)
Discard ==
  /\ ~lock /\ requests # << >> /\ ~Head(requests).whole
  /\ \E n \in 1 .. Len(requests) :
       /\ \A i \in 2 .. n :
            /\ requests[i].part = 1
            /\ requests[i].command \in {"CALLOC", "PILALLOC", "RALLOC", "SALLOC"}
       /\ requests' = SubSeq(requests, n + 1, Len(requests))
  /\ UNCHANGED <<clientVars, vars, out_queue, begun, lock>>

(* The lock counts every byte sent.  If nothing is unread when it goes on,  *)
(* it ends before the page does (McpLoop); with old bytes before the page   *)
(* it ends earlier, with a later command behind RALLOC late or never.       *)
LockEnds ==
  /\ lock /\ lock' = FALSE
  /\ UNCHANGED <<clientVars, vars, requests, out_queue, begun>>

Serve ==
  \/ Create \/ Load \/ Retrieve \/ RetrieveNothing \/ StorePage \/ Insert \/ Cut
  \/ Save \/ Free \/ Discard \/ LockEnds

-----------------------------------------------------------------------------
(* The test. *)

NextCommand(command, p) ==
  CASE command = "CALLOC"   -> "PILALLOC"
    [] command = "PILALLOC" -> <<"RALLOC", "IALLOC", "XALLOC">>[p]
    [] command = "RALLOC"   -> "SALLOC"
    [] command \in {"SALLOC", "IALLOC", "XALLOC"} -> "PISALLOC"
    [] command = "PISALLOC" -> "FALLOC"
    [] command = "FALLOC"   -> IF p = 3 THEN "end" ELSE "CALLOC"

NextPart(command, p) == IF command = "FALLOC" /\ p < 3 THEN p + 1 ELSE p

(* The command the test is at.  Which run sent it the server does not know. *)
Request(whole) ==
  [command |-> next, part |-> part, run |-> runs, whole |-> whole,
   page |-> IF next = "SALLOC" THEN buffer ELSE << >>]

(* send_bytes_to_pi and, after SALLOC and IALLOC, send_binary_data_to_pi.   *)
(* The response buffer is cleared for the answer.                           *)
Send ==
  /\ doing = "send" /\ next # "end" /\ Len(requests) < MaxWaiting
  /\ requests' = Append(requests, Request(TRUE))
  /\ doing' = "answer" /\ buffer' = << >>
  /\ UNCHANGED <<part, next, failed, fresh, runs, vars, out_queue, begun, lock>>

(* The test has read what it takes for the answer, or for the page. *)
GoesOn ==
  /\ doing' = "send"
  /\ next' = NextCommand(next, part) /\ part' = NextPart(next, part)

AfterAnswer ==
  /\ IF next = "RALLOC" THEN doing' = "page" /\ UNCHANGED <<part, next>>
                        ELSE GoesOn
  /\ UNCHANGED <<buffer, fresh, runs, vars, requests, lock>>

(* The bytes that come next are the beginning of a packet of that type. *)
Comes(type) == out_queue # << >> /\ ~begun /\ Head(out_queue).type = type

(* Six bytes are read that are no header of that type.  No packet is so     *)
(* short; of one that is begun there may be less, and the next is begun.    *)
Misread(type) ==
  /\ out_queue # << >> /\ ~Comes(type)
  /\ \/ begun' = TRUE /\ UNCHANGED out_queue
     \/ begun /\ begun' = FALSE /\ out_queue' = Tail(out_queue)
     \/ begun /\ Len(out_queue) > 1 /\ out_queue' = Tail(out_queue) /\ UNCHANGED begun

ReadAnswer ==
  /\ doing = "answer" /\ Comes("BinaryCommand")
  /\ failed' = (failed \/ Head(out_queue).error # 0)
  /\ out_queue' = Tail(out_queue) /\ UNCHANGED begun
  /\ AfterAnswer

(* "Received malformed packet" *)
MisreadAnswer ==
  /\ doing = "answer" /\ Misread("BinaryCommand")
  /\ AfterAnswer /\ UNCHANGED failed

(* copy_message_into_buffer, with a zero in the place after the next. *)
Edited(page) ==
  [i \in DOMAIN page |->
     IF i - CHANGE_AT \in DOMAIN CHANGE THEN CHANGE[i - CHANGE_AT]
     ELSE IF i = CHANGE_AT + Len(CHANGE) + 2 THEN 0
     ELSE page[i]]

(* What is edited if no page came.  The few bytes of the answer that begin  *)
(* it are left out.                                                         *)
NoPage == [i \in 1 .. KB |-> 0]

ReadPage ==
  /\ doing = "page" /\ Comes("BinaryData")
  /\ buffer' = Edited(Head(out_queue).data)
  /\ out_queue' = Tail(out_queue) /\ UNCHANGED begun
  /\ GoesOn /\ UNCHANGED <<failed, fresh, runs, vars, requests, lock>>

MisreadPage ==
  /\ doing = "page" /\ Misread("BinaryData")
  /\ buffer' = Edited(NoPage)
  /\ GoesOn /\ UNCHANGED <<failed, fresh, runs, vars, requests, lock>>

Test == Send \/ ReadAnswer \/ MisreadAnswer \/ ReadPage \/ MisreadPage

(* The test is run, for the first time or again.  A command that was being  *)
(* sent stays cut.  fifo_reset takes what is on the card: the end of the    *)
(* last commands and the beginning of the answers, of which the broken-off  *)
(* run may have read a part itself.                                         *)
Run ==
  /\ runs < MaxRuns
  /\ runs' = runs + 1
  /\ part' = 1 /\ next' = "CALLOC" /\ doing' = "send" /\ failed' = FALSE
  /\ LET sent == IF doing = "send" /\ next # "end"
                    THEN Append(requests, Request(FALSE)) ELSE requests IN
     \E n \in 0 .. Len(sent) :
       \/ requests' = SubSeq(sent, 1, n)
       \/ /\ n > 0
          /\ requests' = [SubSeq(sent, 1, n) EXCEPT ![n].whole = FALSE]
  /\ \E n \in 0 .. Len(out_queue) :
       /\ out_queue' = SubSeq(out_queue, n + 1, Len(out_queue))
       /\ begun' \in {begun /\ n = 0, out_queue' # << >>}
  /\ fresh' = (requests' = << >> /\ out_queue' = << >> /\ ~lock)
  /\ UNCHANGED <<vars, buffer, lock>>

TestNext == Run \/ Test \/ Serve

(* A run that finds nothing of an earlier one is carried on, and its        *)
(* commands are carried out.  Of other runs nothing is assumed: the server  *)
(* may be locked for good.  Nobody need run the test.                       *)
TestSpec ==
  /\ TestInit /\ [][TestNext]_testVars
  /\ WF_testVars(fresh /\ (Test \/ Serve))

-----------------------------------------------------------------------------

Commands == {"CALLOC", "PILALLOC", "RALLOC", "SALLOC", "IALLOC", "XALLOC",
             "PISALLOC", "FALLOC"}

TestTypeOK ==
  /\ TypeOK
  /\ part \in 1 .. 3 /\ next \in Commands \cup {"end"}
  /\ doing \in {"send", "answer", "page"}
  /\ buffer \in Seq(BYTE) /\ Len(buffer) \in {0, KB}
  /\ failed \in BOOLEAN /\ fresh \in BOOLEAN /\ runs \in 0 .. MaxRuns
  /\ \A i \in DOMAIN requests :
       /\ requests[i].command \in Commands /\ requests[i].part \in 1 .. 3
       /\ requests[i].command = "SALLOC" => Len(requests[i].page) = KB
  /\ \A i \in DOMAIN out_queue : out_queue[i].type \in {"BinaryCommand", "BinaryData"}
  /\ begun \in BOOLEAN /\ lock \in BOOLEAN /\ (begun => out_queue # << >>)

(* The script as it lies in a new page, its first n bytes and the others. *)
Page == [i \in 1 .. KB |-> IF i <= Len(files[Script]) THEN files[Script][i] ELSE 0]
Before(n) == SubSeq(Page, 1, n)
After(n)  == SubSeq(Page, n + 1, KB)

Intended ==
  <<Before(CHANGE_AT) \o CHANGE \o After(CHANGE_AT + Len(CHANGE)),
    Before(INSERT_AT) \o INSERT \o After(INSERT_AT),
    Before(CUT_AT) \o After(CUT_AT + CUT)>>

(* A run that found nothing of an earlier one under way, reaches its end    *)
(* and has read no error has saved the script with its three changes: the   *)
(* file of the change that was written over the page, that of the insertion *)
(* and that of the cut.  It does so wherever the runs before it were broken *)
(* off, in a command, an answer or a page, and whatever they left in the    *)
(* allocations.  A run that does find something may end without an error    *)
(* and have saved nothing.                                                  *)
RunSavesItsChanges ==
  next = "end" /\ fresh /\ ~failed =>
    \A p \in 1 .. 3 : files[Saved[p]] = SubSeq(Intended[p], 1, SAVE[p])

(* A run leaves at most one allocation behind for good, wherever it is      *)
(* broken off and although its commands may be carried out during a later   *)
(* run, and none loses a stream: what it had open is closed by the run      *)
(* after it, which works on the same allocation.                            *)
LeavesOneAllocationARun ==
  /\ [](Cardinality({i \in AllocId : Known(i)}) <= runs)
  /\ [][open' - Cardinality(Loaded') = open - Cardinality(Loaded)]_testVars

(* Once a run that found nothing under way has been given an allocation it  *)
(* comes to its end, although it uses the first whichever it was given: it  *)
(* never waits for a page that does not come.                               *)
GrantedRunEnds ==
  \A n \in 1 .. MaxRuns :
    (runs = n /\ fresh /\ part = 1 /\ next = "PILALLOC" /\ ~failed)
      ~> (runs > n \/ next = "end")

=============================================================================
