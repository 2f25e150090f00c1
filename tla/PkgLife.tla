------------------------------- MODULE PkgLife --------------------------------
(* What the package infrastructure promises of the order of things: a package *)
(* goes from its sources to the installed files stage by stage, and from the  *)
(* configuration on only while everything it needs is installed.              *)
CONSTANTS Packages,
          Requires       \* Requires[p]: the packages that p needs installed

Stages == {"prepared", "configured", "built", "installed"}

\* The stages that come before each one.
Before == [s \in Stages |-> CASE s = "prepared"   -> {}
                              [] s = "configured" -> {"prepared"}
                              [] s = "built"      -> {"prepared", "configured"}
                              [] s = "installed"  -> {"prepared", "configured", "built"}]

VARIABLE reached      \* reached[p]: the stages that p has reached

Init == reached = [p \in Packages |-> {}]

Advance(p, s) ==
  /\ s \notin reached[p]
  /\ Before[s] \subseteq reached[p]
  /\ s # "prepared" => \A q \in Requires[p] : "installed" \in reached[q]
  /\ reached' = [reached EXCEPT ![p] = @ \union {s}]

\* The user removes files, of one package or of all, or asks for a rebuild.
Withdraw ==
  /\ reached' \in [Packages -> SUBSET Stages]
  /\ \A p \in Packages : reached'[p] \subseteq reached[p]

Next == Withdraw \/ \E p \in Packages, s \in Stages : Advance(p, s)

Spec == Init /\ [][Next]_reached
===============================================================================
