-------------------------- MODULE DiagnosticsFeed --------------------------
(***************************************************************************)
(* What the diagnostics half of `ita server` promises an editor, with the  *)
(* threads, the queue and salsa's cancellation left out.  Documents change *)
(* one at a time, each to a newer text, and every change starts a new      *)
(* revision of the project.  A published report is computed from a single  *)
(* revision -- the one current at the instant of the publication -- and    *)
(* carries the version of the text it is about.  Only documents under      *)
(* review are ever reported on.                                            *)
(***************************************************************************)
EXTENDS Integers

CONSTANTS Path, Reviewed, Text

VARIABLES doc, rev, shown

vars == <<doc, rev, shown>>

Init ==
  /\ doc = [p \in Path |-> 0]
  /\ rev = 0
  /\ shown = [p \in Path |-> [kind |-> "none", ver |-> 0, text |-> 0, rev |-> 0]]

Edit(p, t) ==
  /\ t > doc[p]
  /\ doc' = [doc EXCEPT ![p] = t]
  /\ rev' = rev + 1
  /\ UNCHANGED shown

\* A file that is evidence only (--ignore) changes the project, no document.
Evidence ==
  /\ rev' = rev + 1
  /\ UNCHANGED <<doc, shown>>

Report(p) ==
  /\ shown' = [shown EXCEPT ![p] = [kind |-> "diag", ver |-> doc[p], text |-> doc[p],
                                    rev |-> rev]]
  /\ UNCHANGED <<doc, rev>>

Withdraw(p) ==
  /\ shown' = [shown EXCEPT ![p] = [kind |-> "clear", ver |-> 0, text |-> 0, rev |-> 0]]
  /\ UNCHANGED <<doc, rev>>

Next ==
  \/ \E p \in Path, t \in Text : Edit(p, t)
  \/ Evidence
  \/ \E p \in Reviewed : Report(p)
  \/ \E p \in Path : Withdraw(p)

Spec == Init /\ [][Next]_vars
=============================================================================
