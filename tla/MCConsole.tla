----------------------------- MODULE MCConsole -----------------------------
(***************************************************************************)
(* A small instance of Console beside one of WriteUnit.  They share no     *)
(* state: one of them takes all the steps of a behaviour, the other stays  *)
(* as it began.                                                            *)
(***************************************************************************)
EXTENDS MCWriteUnit, Console

VARIABLE focus  \* the component that is looked at: "units" or "console"

\* Only the page of records begins with more than one thing.  (What is not in
\* focus has one initial state.)
ConsoleMCInit ==
  /\ Init /\ ConsoleInit /\ focus \in {"units", "console"}
  /\ page = "records" \/ \A i \in Things \ {1} : things[i] = Missing
  /\ focus = "units" => page = "options"

\* Nothing is under way on the page.
ConsoleDone ==
  /\ focus = "console" /\ sent = <<>> /\ cached.fetch = "none"
  /\ UNCHANGED <<vars, consoleVars, focus>>

ConsoleMCNext ==
  \/ focus = "units" /\ MCNext /\ UNCHANGED <<consoleVars, focus>>
  \/ focus = "console" /\ ConsoleNext /\ UNCHANGED <<vars, focus>>
  \/ ConsoleDone

ConsoleMCSpec == ConsoleMCInit /\ [][ConsoleMCNext]_<<vars, consoleVars, focus>>
=============================================================================
