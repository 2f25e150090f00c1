---------------------------- MODULE PkgLife_proofs -----------------------------
(* The walk of make implements PkgLife: whatever the goals, the removals and  *)
(* the failures, the packages go through their stages in order and on top of  *)
(* what they need.                                                            *)
EXTENDS PkgProgress_proofs

-----------------------------------------------------------------------------
(* The stages and their stamps *)

LEMMA ReachedFact ==
  ASSUME NEW p
  PROVE  /\ Reached(p) \subseteq Life!Stages
         /\ "prepared" \in Reached(p) <=>
              (IF p \in Overrides THEN "rsynced" ELSE "patched") \in stamps[p]
         /\ "configured" \in Reached(p) <=> "configured" \in stamps[p]
         /\ "built" \in Reached(p) <=> "built" \in stamps[p]
         /\ "installed" \in Reached(p) <=>
              /\ InstallTo[p] # {}
              /\ \A d \in InstallTo[p] : InstallStamp[d] \in stamps[p]
<1>1. DOMAIN Landmarks(p) = Life!Stages
  BY DEF Landmarks, Life!Stages
<1>2. /\ Landmarks(p)["prepared"] = {IF p \in Overrides THEN "rsynced" ELSE "patched"}
      /\ Landmarks(p)["configured"] = {"configured"}
      /\ Landmarks(p)["built"] = {"built"}
      /\ Landmarks(p)["installed"] = {InstallStamp[d] : d \in InstallTo[p]}
  BY DEF Landmarks
<1> QED BY <1>1, <1>2 DEF Reached, Life!Stages

\* Each stamp says that at most one stage is reached.
LEMMA LandmarksDiffer ==
  ASSUME NEW p \in Packages, NEW t \in Life!Stages, NEW u \in Life!Stages, NEW s,
         s \in Landmarks(p)[t], s \in Landmarks(p)[u]
  PROVE  t = u
<1>1. /\ Landmarks(p)["prepared"] \in {{"rsynced"}, {"patched"}}
      /\ Landmarks(p)["configured"] = {"configured"}
      /\ Landmarks(p)["built"] = {"built"}
      /\ Landmarks(p)["installed"] = {InstallStamp[d] : d \in InstallTo[p]}
  BY DEF Landmarks
<1>2. InstallTo[p] \subseteq Dests
  BY ConstantsAssumption
<1>3. Landmarks(p)["installed"] \subseteq InstallStamps
  BY <1>1, <1>2, InstallStampDistinct
<1> QED BY <1>1, <1>3 DEF Life!Stages, InstallStamps

LEMMA BeforeFact ==
  /\ Life!Before["prepared"] = {}
  /\ Life!Before["configured"] = {"prepared"}
  /\ Life!Before["built"] = {"prepared", "configured"}
  /\ Life!Before["installed"] = {"prepared", "configured", "built"}
  BY DEF Life!Before, Life!Stages

-----------------------------------------------------------------------------
(* What make is done with when it turns to a stamp *)

\* The targets whose commands may find the stamps of a finished target gone.
Removing == {"uninstall", "clean", "cleaned", "dirclean"}

\* Once make is done with foo-patch, or foo-depends when foo is overridden,
\* the sources are prepared.
LEMMA PreparedIsDone ==
  ASSUME DoneIsClosed, NEW p \in Packages,
         IF p \in Overrides THEN <<"depends", p>> \in done ELSE <<"patch", p>> \in done
  PROVE  <<IF p \in Overrides THEN "rsynced" ELSE "patched", p>> \in done
<1>1. CASE p \in Overrides
  <2>1. <<"rsync", p>> \in done
    BY <1>1, RsyncIsFirst DEF DoneIsClosed
  <2>2. Prereqs(<<"rsync", p>>) = << <<"rsynced", p>> >>
    BY <1>1 DEF Prereqs, SourcePrereqs
  <2> QED BY <1>1, <2>1, <2>2 DEF DoneIsClosed
<1>2. CASE p \notin Overrides
  <2>1. Prereqs(<<"patch", p>>) = << <<"extract", p>>, <<"patched", p>> >>
    BY <1>2 DEF Prereqs, SourcePrereqs
  <2> QED BY <1>2, <2>1 DEF DoneIsClosed
<1> QED BY <1>1, <1>2

\* Once make is done with foo-configure it is done with foo-patch.
LEMMA ConfigureIsPatched ==
  ASSUME DoneIsClosed, NEW p \in Packages \ Overrides, <<"configure", p>> \in done
  PROVE  <<"patch", p>> \in done
<1>1. Prereqs(<<"configure", p>>) =
        << <<"patch", p>>, <<"depends", p>>, <<"configured", p>> >>
  BY DEF Prereqs, SourcePrereqs
<1> QED BY <1>1 DEF DoneIsClosed

\* Sources that make is done with are prepared.
LEMMA PreparedIsReached ==
  ASSUME IInv, stack # <<>>, Top[1] \notin Removing, NEW p \in Packages,
         IF p \in Overrides THEN <<"depends", p>> \in done ELSE <<"patch", p>> \in done
  PROVE  "prepared" \in Reached(p)
<1>1. EngineInv /\ DoneStampsExist /\ DoneIsClosed
  BY DEF IInv, EngineInv
<1> DEFINE t == <<IF p \in Overrides THEN "rsynced" ELSE "patched", p>>
<1>2. t \in done
  BY <1>1, PreparedIsDone
<1>3. t[1] \in Stamps
  BY DEF Stamps
<1>4. t[1] \in stamps[t[2]]
  BY <1>1, <1>2, <1>3, DoneStampExists DEF Removing
<1> QED BY <1>4, ReachedFact

\* What foo depends on is installed once make is done with foo-depends.
LEMMA RequiredIsReached ==
  ASSUME IInv, stack # <<>>, Top[1] \notin Removing, NEW p \in Packages,
         <<"depends", p>> \in done, NEW q \in Requires[p]
  PROVE  "installed" \in Reached(q)
<1>1. DoneIsClosed
  BY DEF IInv, EngineInv
<1>2. PICK i \in DOMAIN Deps[p] : q = Deps[p][i]
  BY DEF Requires
<1>3. InstallTo[q] # {}
  BY DEF Requires
<1>4. q \in Packages /\ <<"pkg", q>> \in done
  BY <1>1, <1>2, DependsDone
<1>5. Installed(q)
  BY <1>4, DoneIsInstalled DEF Removing
<1> QED BY <1>3, <1>5, ReachedFact DEF Installed

\* A finished foo-configure leaves prepared sources, a configured tree, and
\* what foo depends on installed.
LEMMA ConfigureIsReached ==
  ASSUME IInv, stack # <<>>, Top[1] \notin Removing, NEW p \in Packages,
         <<"configure", p>> \in done
  PROVE  /\ {"prepared", "configured"} \subseteq Reached(p)
         /\ <<"depends", p>> \in done
<1>1. EngineInv /\ DoneStampsExist /\ DoneIsClosed
  BY DEF IInv, EngineInv
<1>2. <<"configured", p>> \in done /\ <<"depends", p>> \in done
  BY <1>1, ConfiguredIsDone
<1>3. "prepared" \in Reached(p)
  BY <1>1, <1>2, ConfigureIsPatched, PreparedIsReached
<1>4. "configured" \in stamps[p]
  BY <1>1, <1>2, DoneStampExists DEF Removing, Stamps
<1> QED BY <1>2, <1>3, <1>4, ReachedFact

\* When make runs the recipe of a stamp, the package has reached all the
\* stages before the one the stamp belongs to.
LEMMA StageIsReady ==
  ASSUME WalkInv, NEW p \in Packages, NEW t \in Life!Stages, NEW s \in Landmarks(p)[t],
         Runs(s, p)
  PROVE  /\ Life!Before[t] \subseteq Reached(p)
         /\ t # "prepared" => \A q \in Requires[p] : "installed" \in Reached(q)
<1>1. /\ IInv /\ TypeOK /\ EngineInv /\ GoalBelow /\ DoneStampsExist /\ DoneIsClosed
      /\ stack # <<>> /\ Top = <<s, p>>
  BY DEF WalkInv, IInv, EngineInv, Runs, Ready
<1>2. /\ Landmarks(p)["configured"] = {"configured"}
      /\ Landmarks(p)["built"] = {"built"}
      /\ Landmarks(p)["installed"] = {InstallStamp[d] : d \in InstallTo[p]}
  BY DEF Landmarks
<1>3. CASE t = "prepared"
  BY <1>3, BeforeFact
<1>4. CASE t = "configured"
  <2>1. s = "configured"
    BY <1>2, <1>4
  <2>2. Top[1] \notin Removing
    BY <1>1, <2>1 DEF Removing
  <2>3. <<"depends", p>> \in done /\ (p \in Overrides \/ <<"patch", p>> \in done)
    BY <1>1, <2>1, TopContext
  <2>4. "prepared" \in Reached(p)
    BY <1>1, <2>2, <2>3, PreparedIsReached
  <2> QED BY <1>1, <1>4, <2>2, <2>3, <2>4, BeforeFact, RequiredIsReached
<1>5. CASE t = "built"
  <2>1. s = "built"
    BY <1>2, <1>5
  <2>2. Top[1] \notin Removing
    BY <1>1, <2>1 DEF Removing
  <2>3. PICK j : Reason(stack[Len(stack) - 1], j, Top)
    BY <1>1, <2>1, WhyStamp DEF HumanKinds
  <2>4. <<"configure", p>> \in done
    BY <1>1, <2>1, <2>3, ConfigureFirst DEF Reason
  <2>5. {"prepared", "configured"} \subseteq Reached(p) /\ <<"depends", p>> \in done
    BY <1>1, <2>2, <2>4, ConfigureIsReached
  <2> QED BY <1>1, <1>5, <2>2, <2>5, BeforeFact, RequiredIsReached
<1>6. CASE t = "installed"
  <2>1. s \in InstallStamps
    <3>1. PICK d \in InstallTo[p] : s = InstallStamp[d]
      BY <1>2, <1>6
    <3>2. d \in Dests
      BY <3>1, ConstantsAssumption
    <3> QED BY <3>1, <3>2, InstallStampDistinct
  <2>2. Top[1] \notin Removing
    BY <1>1, <2>1 DEF Removing, InstallStamps
  <2>3. PICK j : Reason(stack[Len(stack) - 1], j, Top)
    BY <1>1, <2>1, WhyStamp DEF HumanKinds, InstallStamps
  <2>4. <<"build", p>> \in done
    BY <1>1, <2>1, <2>3, BuildFirst DEF Reason
  <2>5. Prereqs(<<"build", p>>) = << <<"configure", p>>, <<"built", p>> >>
    BY DEF Prereqs
  <2>6. <<"configure", p>> \in done /\ <<"built", p>> \in done
    BY <1>1, <2>4, <2>5 DEF DoneIsClosed
  <2>7. {"prepared", "configured"} \subseteq Reached(p) /\ <<"depends", p>> \in done
    BY <1>1, <2>2, <2>6, ConfigureIsReached
  <2>8. "built" \in stamps[p]
    BY <1>1, <2>2, <2>6, DoneStampExists DEF Removing, Stamps
  <2>9. "built" \in Reached(p)
    BY <2>8, ReachedFact
  <2> QED BY <1>1, <1>6, <2>2, <2>7, <2>9, BeforeFact, RequiredIsReached
<1> QED BY <1>3, <1>4, <1>5, <1>6 DEF Life!Stages

-----------------------------------------------------------------------------
(* What a step does to the stamps *)

\* A step adds one stamp, whose recipe has run, or no stamp at all.
LEMMA StampsMove ==
  ASSUME TypeOK, [Next]_vars
  PROVE  \/ \A p \in Packages : stamps'[p] \subseteq stamps[p]
         \/ \E p \in Packages, s \in Stamps :
              /\ Runs(s, p)
              /\ stamps' = [stamps EXCEPT ![p] = @ \union {s}]
<1> DEFINE Fewer == \A p \in Packages : stamps'[p] \subseteq stamps[p]
           Added == \E p \in Packages, s \in Stamps :
                      Runs(s, p) /\ stamps' = [stamps EXCEPT ![p] = @ \union {s}]
<1>0. stamps \in [Packages -> SUBSET Stamps]
  BY DEF TypeOK
<1>1. ASSUME NEW p \in Packages, NEW S, Remove(S, p) PROVE Fewer
  BY <1>1, RemoveStep
<1>2. ASSUME stamps' = stamps PROVE Fewer
  BY <1>2
<1>3. CASE UNCHANGED vars \/ Descend \/ UpToDate \/ Interrupted
  BY <1>2, <1>3 DEF vars, files, Descend, UpToDate, Interrupted
<1>4. CASE CleanAll \/ CleanAllCut
  <2>1. ASSUME CleanAllCut PROVE Fewer
    BY <2>1 DEF CleanAllCut
  <2> QED BY <1>4, <2>1 DEF CleanAll
<1>5. CASE UserStep
  <2>1. ASSUME NEW p \in Packages, DeleteStamp(p) PROVE Fewer
    BY <1>1, <2>1 DEF DeleteStamp
  <2> QED BY <1>2, <1>5, <2>1 DEF UserStep, Make, EditSources, EditTree, EditConfig, files
<1>6. ASSUME NEW p \in Packages,
             \/ Download(p) \/ Extract(p) \/ Rsync(p) \/ Patch(p) \/ Configure(p) \/ Build(p)
             \/ \E d \in Dests : Install(p, d)
      PROVE  Added
  <2>1. CASE Download(p) \/ Extract(p) \/ Rsync(p) \/ Patch(p) \/ Configure(p) \/ Build(p)
    <3>1. PICK s \in {"downloaded", "extracted", "rsynced", "patched", "configured", "built"} :
            Runs(s, p) /\ Touch(s, p)
      BY <2>1 DEF Download, Extract, Rsync, Patch, Configure, Build
    <3>2. s \in Stamps
      BY DEF Stamps
    <3> QED BY <3>1, <3>2 DEF Touch
  <2>2. ASSUME NEW d \in Dests, Install(p, d) PROVE Added
    <3>1. InstallStamp[d] \in Stamps
      BY InstallStampDistinct DEF Stamps
    <3> QED BY <2>2, <3>1 DEF Install, Touch
  <2> QED BY <1>6, <2>1, <2>2
<1>7. ASSUME NEW p \in Packages,
             \/ RsyncSource(p) \/ Uninstall(p) \/ CleanPackage(p) \/ Dirclean(p)
             \/ CleanForRebuild(p) \/ CleanForReconfigure(p) \/ RecipeFails(p)
      PROVE  Fewer
  <2>1. CASE RsyncSource(p) \/ RecipeFails(p)
    BY <1>2, <2>1 DEF RsyncSource, RecipeFails, files
  <2>2. CASE \/ Uninstall(p) \/ CleanPackage(p) \/ Dirclean(p)
             \/ CleanForRebuild(p) \/ CleanForReconfigure(p)
    <3>1. PICK S : Remove(S, p)
      BY <2>2 DEF Uninstall, CleanPackage, Dirclean, CleanForRebuild, CleanForReconfigure
    <3> QED BY <1>1, <3>1
  <2> QED BY <1>7, <2>1, <2>2
<1>8. ASSUME NEW p \in Packages,
             \/ DownloadCut(p) \/ FetchCut("extracted", p) \/ FetchCut("rsynced", p)
             \/ PatchCut(p) \/ ConfigureCut(p) \/ BuildCut(p)
             \/ (\E d \in Dests : InstallCut(p, d)) \/ CleanPackageCut(p)
      PROVE  Fewer
  <2>1. stamps' = stamps
    BY <1>8 DEF DownloadCut, FetchCut, PatchCut, ConfigureCut, BuildCut, InstallCut,
                CleanPackageCut
  <2> QED BY <1>2, <2>1
<1>9. ASSUME NEW p \in Packages, UninstallCut(p) PROVE Fewer
  BY <1>1, <1>9 DEF UninstallCut
<1>10. ASSUME NEW p \in Packages, DircleanCut(p) \/ CleanForRebuildCut(p) PROVE Fewer
  <2>1. PICK gone : stamps' = [stamps EXCEPT ![p] = @ \ gone]
    BY <1>10 DEF DircleanCut, CleanForRebuildCut, Remove
  <2> QED BY <1>0, <2>1
<1>11. CASE CutStep
  BY <1>3, <1>4, <1>8, <1>9, <1>10, <1>11 DEF CutStep
<1>12. CASE MakeStep
  BY <1>3, <1>4, <1>6, <1>7, <1>12 DEF MakeStep
<1> QED BY <1>3, <1>5, <1>11, <1>12 DEF Next

-----------------------------------------------------------------------------
(* The refinement *)

\* The stages that the packages have reached.
Progress == [p \in Packages |-> Reached(p)]

\* Removing stamps withdraws stages, never adds one.
LEMMA StampsWithdrawn ==
  ASSUME \A p \in Packages : stamps'[p] \subseteq stamps[p]
  PROVE  Life!Withdraw
<1>1. ASSUME NEW p \in Packages
      PROVE  Reached(p)' \subseteq Reached(p) /\ Reached(p)' \subseteq Life!Stages
  <2>1. Landmarks(p)' = Landmarks(p)
    BY DEF Landmarks
  <2>2. Reached(p)' \subseteq Reached(p)
    BY <2>1 DEF Reached
  <2> QED BY <2>2, ReachedFact
<1> QED BY <1>1 DEF Life!Withdraw

\* A recipe that completes moves its package one stage on, or is one of the
\* steps within a stage.
LEMMA OneMoreStamp ==
  ASSUME WalkInv, NEW p \in Packages, NEW s \in Stamps, Runs(s, p),
         stamps' = [stamps EXCEPT ![p] = @ \union {s}]
  PROVE  \/ Progress' = Progress
         \/ \E t \in Life!Stages : Life!Advance(p, t)
<1>1. stamps \in [Packages -> SUBSET Stamps] /\ s \notin stamps[p]
  BY DEF WalkInv, IInv, TypeOK, Runs
<1>2. /\ stamps'[p] = stamps[p] \union {s}
      /\ \A q \in Packages \ {p} : stamps'[q] = stamps[q]
  BY <1>1
<1>3. \A q \in Packages \ {p} : Reached(q)' = Reached(q)
  BY <1>2 DEF Reached, Landmarks
<1>4. DOMAIN Landmarks(p) = Life!Stages
  BY DEF Landmarks, Life!Stages
<1>5. /\ Reached(p) \subseteq Reached(p)'
      /\ \A t \in Reached(p)' \ Reached(p) : t \in Life!Stages /\ s \in Landmarks(p)[t]
  <2>1. Landmarks(p)' = Landmarks(p)
    BY DEF Landmarks
  <2> QED BY <1>2, <1>4, <2>1 DEF Reached
<1>6. CASE Reached(p)' = Reached(p)
  BY <1>3, <1>6 DEF Progress
<1>7. CASE Reached(p)' # Reached(p)
  <2>1. PICK t \in Life!Stages : /\ t \in Reached(p)' /\ t \notin Reached(p)
                                 /\ s \in Landmarks(p)[t]
    BY <1>5, <1>7
  <2>2. Reached(p)' = Reached(p) \union {t}
    BY <1>5, <2>1, LandmarksDiffer
  <2>3. Progress' = [Progress EXCEPT ![p] = @ \union {t}]
    BY <1>3, <2>2 DEF Progress
  <2>4. /\ Life!Before[t] \subseteq Reached(p)
        /\ t # "prepared" => \A q \in Requires[p] : "installed" \in Reached(q)
    BY <2>1, StageIsReady
  <2>5. Requires[p] \subseteq Packages
    BY ConstantsAssumption DEF Requires
  <2> QED BY <2>1, <2>3, <2>4, <2>5 DEF Life!Advance, Progress
<1> QED BY <1>6, <1>7

LEMMA LifeInit == Init => Life!Init
<1> SUFFICES ASSUME Init, NEW p \in Packages PROVE Reached(p) = {}
  BY DEF Life!Init
<1>1. stamps[p] = {}
  BY DEF Init
<1> QED BY <1>1 DEF Reached

\* Every step of the builds is a step of PkgLife.
LEMMA LifeStep ==
  ASSUME WalkInv, [Next]_vars
  PROVE  [Life!Next]_Progress
<1>1. TypeOK
  BY DEF WalkInv, IInv
<1>2. CASE \A p \in Packages : stamps'[p] \subseteq stamps[p]
  BY <1>2, StampsWithdrawn DEF Life!Next
<1>3. ASSUME NEW p \in Packages, NEW s \in Stamps, Runs(s, p),
             stamps' = [stamps EXCEPT ![p] = @ \union {s}]
      PROVE  [Life!Next]_Progress
  BY <1>3, OneMoreStamp DEF Life!Next
<1> QED BY <1>1, <1>2, <1>3, StampsMove

\* Whatever goals the user asks for, with removals, failures and edits in
\* between, each package goes from its sources to the installed files stage by
\* stage, and from the configuration on only while everything it depends on is
\* installed.
THEOREM BuildsInOrder == Spec => StagesInOrder
<1>1. Init => Life!Init
  BY LifeInit
<1>2. WalkInv /\ [Next]_vars => [Life!Next]_Progress
  BY LifeStep
<1> QED BY <1>1, <1>2, WalkAlways, PTL DEF Spec, StagesInOrder, Life!Spec, Progress

=============================================================================
