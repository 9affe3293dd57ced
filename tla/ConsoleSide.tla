----------------------------- MODULE ConsoleSide -----------------------------
(***************************************************************************)
(* The console as its operator meets it, under one fair specification: the *)
(* container that keeps its process alive, the reads behind its pages, and *)
(* a tab of the browser.                                                   *)
(*                                                                         *)
(* What one is to another is in the modules already: to the tab the        *)
(* console is up or down and honours a token or not, to the reads a        *)
(* restart is a new mount.  A behaviour is one of them at work.            *)
(***************************************************************************)
EXTENDS ConsoleProcess, ConsoleReads, BrowserTab

Init ==
  \E part \in {"process", "reads", "tab"} :
    ProcessInit(part = "process") /\ ReadsInit(part = "reads") /\ TabInit(part = "tab")

Next ==
  \/ ProcessNext /\ UNCHANGED <<readVars, tabVars>>
  \/ ReadsNext   /\ UNCHANGED <<procVars, tabVars>>
  \/ TabNext     /\ UNCHANGED <<procVars, readVars>>

vars == <<procVars, readVars, tabVars>>

(* Each part's timers and awaits, as its module states them; a person owes *)
(* nothing.                                                                *)
Spec == Init /\ [][Next]_vars /\ ProcessFairness /\ ReadsFairness /\ TabFairness
=============================================================================
