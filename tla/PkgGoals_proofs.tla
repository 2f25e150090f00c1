-------------------------- MODULE PkgGoals_proofs ---------------------------
(***************************************************************************)
(* What a goal of make delivers: the toolchain before everything that may   *)
(* need it, the same build in every destination of a package, and after a   *)
(* rebuild the sources and the configuration that were there when make was  *)
(* started.  They need more about the walk than PkgGeneric_proofs says: how *)
(* it is related to the goal, and why make considers a stamp.               *)
(***************************************************************************)
EXTENDS PkgGeneric_proofs

-----------------------------------------------------------------------------
(* The walk and the goal *)

\* The walk starts at the goal.
GoalBelow ==
  /\ stack = <<>> <=> goal = <<>>
  /\ stack # <<>> => stack[1] = goal

\* The top of a stack of more than one target is above the goal.
LEMMA AboveTheGoal ==
  ASSUME NEW n \in Nat \ {0}, n # 1
  PROVE  n \in 2..n /\ n \in 1..n
  OBVIOUS

\* A goal is a pair of a kind and a package.
LEMMA GoalPair ==
  ASSUME NEW g \in Goals
  PROVE  /\ g = <<g[1], g[2]>> /\ g # <<>>
         /\ g[1] \in HumanKinds \intersect GoalKinds /\ g[2] \in Packages
         /\ g[1] = "world" => g[2] = Toolchain
  BY DEF Goals

LEMMA GoalBelowStep ==
  ASSUME TypeOK, GoalBelow, [Next]_vars
  PROVE  GoalBelow'
<1>1. stack \in Seq(Targets) /\ goal \in Goals \union {<<>>}
  BY DEF TypeOK
<1>2. CASE UNCHANGED engine
  BY <1>2 DEF engine, GoalBelow
<1>3. CASE Abort
  BY <1>3 DEF Abort, GoalBelow
<1>4. CASE Descend
  <2>1. /\ stack # <<>> /\ goal' = goal
        /\ \E i \in DOMAIN Prereqs(Top) : stack' = Append(stack, Prereqs(Top)[i])
    BY <1>4 DEF Descend
  <2>2. PICK u \in Targets : stack' = Append(stack, u)
    BY <2>1, TypeParts, TopType, PrereqsType
  <2> QED BY <1>1, <2>1, <2>2 DEF GoalBelow
<1>5. CASE \E g \in Goals : Make(g)
  BY <1>5, GoalPair DEF Make, GoalBelow
<1>6. CASE stack # <<>> /\ Ready(Top) /\ Return
  <2>1. CASE Len(stack) = 1
    BY <1>6, <2>1 DEF Return, GoalBelow
  <2>2. CASE Len(stack) # 1
    <3>1. Len(stack) - 1 \in Nat \ {0} /\ Len(stack) - 1 <= Len(stack)
      BY <1>1, <1>6, <2>2
    <3>2. stack' = SubSeq(stack, 1, Len(stack) - 1) /\ goal' = goal
      BY <1>6, <2>2 DEF Return
    <3>3. Len(stack') = Len(stack) - 1 /\ \A n \in 1..(Len(stack) - 1) : stack'[n] = stack[n]
      BY <1>1, <3>1, <3>2, PrefixProperties
    <3>4. stack'[1] = stack[1] /\ stack' # <<>>
      BY <3>1, <3>3
    <3> QED BY <1>6, <3>2, <3>4 DEF GoalBelow
  <2> QED BY <2>1, <2>2
<1> QED BY <1>2, <1>3, <1>4, <1>5, <1>6, EngineMoves

\* make considers a target that is not the goal because it is a prerequisite
\* of the one below it, whose earlier prerequisites make is done with.
Reason(t, j, u) == /\ t \in Targets /\ j \in DOMAIN Prereqs(t) /\ u = Prereqs(t)[j]
                   /\ \A k \in 1..(j - 1) : Prereqs(t)[k] \in done

LEMMA WhyConsidered ==
  ASSUME TypeOK, EngineInv, NEW n \in 2..Len(stack)
  PROVE  \E j : Reason(stack[n - 1], j, stack[n])
<1>1. stack \in Seq(Targets) /\ n - 1 \in 1..(Len(stack) - 1) /\ (n - 1) + 1 = n
  BY DEF TypeOK
<1>2. PICK j \in DOMAIN Prereqs(stack[n - 1]) :
        /\ stack[n] = Prereqs(stack[n - 1])[j]
        /\ \A k \in 1..(j - 1) : Prereqs(stack[n - 1])[k] \in done
  BY <1>1 DEF EngineInv, StackIsPath
<1>3. stack[n - 1] \in Targets
  BY <1>1
<1> QED BY <1>2, <1>3 DEF Reason

\* Only the goal itself can be of a kind that no rule has for a prerequisite.
NoPrerequisite == {"world", "rebuild", "reconfigure", "dirclean", "clean", "top-clean"}

\* The targets that build and install have prerequisites that no other has.
Needs(k) ==
  CASE k \in {"install-staging", "install-target", "install-images", "install-host"} ->
         {"build"} \union InstallStamps
    [] k = "build" -> {"configure", "built"}
    [] OTHER -> (HumanKinds \union Stamps \union PseudoStamps)
                  \ (NoPrerequisite \union {"built"} \union InstallStamps)

LEMMA PrereqKinds ==
  ASSUME NEW t \in Targets, NEW i \in DOMAIN Prereqs(t)
  PROVE  Prereqs(t)[i][1] \in Needs(t[1])
<1> DEFINE k == Prereqs(t)[i][1]
           Other == {"install", "install-host", "install-staging", "install-target",
                     "install-images", "build", "configure", "pkg", "real", "rsync",
                     "patch", "depends", "extract", "source", "configured", "patched",
                     "extracted", "downloaded", "rsynced", "rsync_sourced", "uninstall",
                     "uninstalled", "cleaned", "dircleaned", "clean-for-rebuild",
                     "clean-for-reconfigure"}
<1>1. t[1] \in HumanKinds \union Stamps \union PseudoStamps /\ t[2] \in Packages
  BY TargetPair
<1>2. CASE t[1] \in {"install-staging", "install-target", "install-images"}
  <2>1. PICK d \in Dests : Prereqs(t) = InstallPrereqs(d, t[2])
    BY <1>2 DEF Prereqs, Dests
  <2>2. k \in {"build", InstallStamp[d]}
    BY <2>1 DEF InstallPrereqs
  <2> QED BY <1>2, <2>1, <2>2, InstallStampDistinct DEF Needs
<1>3. CASE t[1] = "install-host"
  <2>1. Prereqs(t) = << <<"build", t[2]>>, <<"host_installed", t[2]>> >>
    BY <1>3 DEF Prereqs
  <2> QED BY <1>3, <2>1 DEF Needs, InstallStamps
<1>4. CASE t[1] = "build"
  <2>1. Prereqs(t) = << <<"configure", t[2]>>, <<"built", t[2]>> >>
    BY <1>4 DEF Prereqs
  <2> QED BY <1>4, <2>1 DEF Needs
<1>5. ASSUME t[1] \notin {"install-staging", "install-target", "install-images", "install-host",
                         "build"},
             k \in Other
      PROVE  k \in Needs(t[1])
  <2>1. Needs(t[1]) = (HumanKinds \union Stamps \union PseudoStamps)
                        \ (NoPrerequisite \union {"built"} \union InstallStamps)
    BY <1>5 DEF Needs
  <2> QED BY <1>5, <2>1 DEF HumanKinds, Stamps, PseudoStamps, InstallStamps, NoPrerequisite
<1>6. CASE t[1] = "depends"
  <2>1. Prereqs(t) = SourcePrereqs("depends", t[2])
    BY <1>6 DEF Prereqs
  <2>2. Deps[t[2]] \in Seq(Packages)
    BY <1>1, ConstantsAssumption
  <2>3. CASE t[2] \in Overrides
    BY <1>5, <1>6, <2>1, <2>2, <2>3 DEF SourcePrereqs
  <2>4. CASE t[2] \notin Overrides
    BY <1>5, <1>6, <2>1, <2>4 DEF SourcePrereqs
  <2> QED BY <2>3, <2>4
<1>7. CASE t[1] = "world"
  <2>1. Prereqs(t) = << <<"pkg", Toolchain>> >> \o
                       [j \in DOMAIN TargetsAll |-> <<"real", TargetsAll[j]>>]
    BY <1>7 DEF Prereqs, BaseTargets
  <2>2. DOMAIN TargetsAll = 1..Len(TargetsAll) /\ Len(TargetsAll) \in Nat
    BY ConstantsAssumption
  <2>3. k \in {"pkg", "real"}
    BY <2>1, <2>2
  <2> QED BY <1>5, <1>7, <2>3
<1>8. CASE t[1] \in {"configure", "patch", "extract", "source", "rsync"}
  <2>1. Prereqs(t) = SourcePrereqs(t[1], t[2])
    BY <1>8 DEF Prereqs
  <2>2. CASE t[2] \in Overrides /\ t[1] = "configure"
    BY <1>5, <2>1, <2>2 DEF SourcePrereqs
  <2>3. CASE t[2] \in Overrides /\ t[1] # "configure"
    <3>1. k \in {"rsync", "rsync_sourced", "rsynced"}
      BY <1>8, <2>1, <2>3 DEF SourcePrereqs
    <3> QED BY <1>5, <1>8, <3>1
  <2>4. CASE t[2] \notin Overrides
    <3>1. k \in {"patch", "depends", "configured", "extract", "patched", "source", "extracted",
                 "downloaded"}
      BY <1>8, <2>1, <2>4 DEF SourcePrereqs
    <3> QED BY <1>5, <1>8, <3>1
  <2> QED BY <2>2, <2>3, <2>4
<1>9. CASE t[1] \in {"pkg", "install", "real"}
  <2>1. CASE t[1] = "pkg"
    BY <1>5, <2>1 DEF Prereqs
  <2>2. CASE t[1] = "install"
    BY <1>5, <2>2 DEF Prereqs
  <2>3. CASE t[1] = "real"
    <3>1. Prereqs(t) = Append(BaseTargets, <<"pkg", t[2]>>)
      BY <2>3 DEF Prereqs
    <3>2. k = "pkg"
      BY <3>1 DEF BaseTargets
    <3> QED BY <1>5, <2>3, <3>2
  <2> QED BY <1>9, <2>1, <2>2, <2>3
<1>10. CASE t[1] \in {"uninstall", "clean", "dirclean", "rebuild", "clean-for-reconfigure",
                     "reconfigure"}
  <2>1. /\ t[1] = "uninstall" => Prereqs(t) = << <<"configure", t[2]>>, <<"uninstalled", t[2]>> >>
        /\ t[1] = "clean" => Prereqs(t) = << <<"uninstall", t[2]>>, <<"cleaned", t[2]>> >>
        /\ t[1] = "dirclean" => Prereqs(t) = << <<"dircleaned", t[2]>> >>
    BY DEF Prereqs
  <2>2. /\ t[1] = "rebuild" => Prereqs(t) = << <<"clean-for-rebuild", t[2]>>, <<"pkg", t[2]>> >>
        /\ t[1] = "clean-for-reconfigure" => Prereqs(t) = << <<"clean-for-rebuild", t[2]>> >>
        /\ t[1] = "reconfigure" => Prereqs(t) = << <<"clean-for-reconfigure", t[2]>>, <<"pkg", t[2]>> >>
    BY DEF Prereqs
  <2>3. k \in Other
    BY <1>10, <2>1, <2>2
  <2> QED BY <1>5, <1>10, <2>3
<1>11. CASE t[1] \in Stamps \union PseudoStamps \union {"clean-for-rebuild", "top-clean"}
  <2>1. Prereqs(t) = <<>>
    BY <1>11 DEF Prereqs, Stamps, PseudoStamps, InstallStamps
  <2> QED BY <2>1
<1> QED
  BY <1>1, <1>2, <1>3, <1>4, <1>6, <1>7, <1>8, <1>9, <1>10, <1>11 DEF HumanKinds

LEMMA NeverPrerequisite ==
  ASSUME NEW t \in Targets, NEW i \in DOMAIN Prereqs(t)
  PROVE  Prereqs(t)[i][1] \notin NoPrerequisite
  BY PrereqKinds DEF Needs, NoPrerequisite, InstallStamps

LEMMA OnlyTheGoal ==
  ASSUME TypeOK, EngineInv, GoalBelow, NEW n \in 1..Len(stack), stack[n][1] \in NoPrerequisite
  PROVE  n = 1 /\ stack[n] = goal
<1>1. CASE n = 1
  <2>1. stack # <<>>
    BY <1>1
  <2> QED BY <1>1, <2>1 DEF GoalBelow
<1>2. CASE n # 1
  <2>1. n \in 2..Len(stack)
    BY <1>2
  <2>2. PICK j : Reason(stack[n - 1], j, stack[n])
    BY <2>1, WhyConsidered
  <2> QED BY <2>2, NeverPrerequisite DEF Reason
<1> QED BY <1>1, <1>2

-----------------------------------------------------------------------------
(* The toolchain comes first *)

\* The prerequisites of a target belong to its package, to one that the
\* package depends on, or to the toolchain.
LEMMA PrereqPackage ==
  ASSUME NEW t \in Targets, t[1] # "world", NEW i \in DOMAIN Prereqs(t)
  PROVE  LET q == Prereqs(t)[i][2]
         IN  q = t[2] \/ q = Toolchain \/ Rank[q] < Rank[t[2]]
<1>1. t[1] \in HumanKinds \union Stamps \union PseudoStamps /\ t[2] \in Packages
  BY TargetPair
<1>2. CASE t[1] = "depends"
  <2>1. Prereqs(t) = SourcePrereqs("depends", t[2])
    BY <1>2 DEF Prereqs
  <2>2. /\ Deps[t[2]] \in Seq(Packages)
        /\ \A k \in DOMAIN Deps[t[2]] : Rank[Deps[t[2]][k]] < Rank[t[2]]
    BY <1>1, ConstantsAssumption
  <2>3. CASE t[2] \in Overrides
    <3> DEFINE D == [k \in DOMAIN Deps[t[2]] |-> <<"pkg", Deps[t[2]][k]>>]
    <3>1. Prereqs(t) = << <<"rsync", t[2]>> >> \o D
      BY <2>1, <2>3 DEF SourcePrereqs
    <3>2. /\ D \in Seq({"pkg"} \X Packages)
          /\ \A k \in 1..Len(D) : Rank[D[k][2]] < Rank[t[2]]
      BY <2>2
    <3> HIDE DEF D
    <3>3. i \in 1..(Len(D) + 1) /\ (i # 1 => Prereqs(t)[i] = D[i - 1] /\ i - 1 \in 1..Len(D))
      BY <3>1, <3>2
    <3>4. Prereqs(t)[1] = <<"rsync", t[2]>>
      BY <3>1, <3>2
    <3> QED BY <3>2, <3>3, <3>4
  <2>4. CASE t[2] \notin Overrides
    BY <2>1, <2>2, <2>4 DEF SourcePrereqs
  <2> QED BY <2>3, <2>4
<1>3. CASE t[1] \in {"install-staging", "install-target", "install-images"}
  <2>1. PICK d \in Dests : Prereqs(t) = InstallPrereqs(d, t[2])
    BY <1>3 DEF Prereqs, Dests
  <2> QED BY <2>1 DEF InstallPrereqs
<1>4. CASE t[1] \in {"configure", "patch", "extract", "source", "rsync"}
  <2>1. Prereqs(t) = SourcePrereqs(t[1], t[2])
    BY <1>4 DEF Prereqs
  <2>2. CASE t[2] \in Overrides /\ t[1] = "configure"
    BY <2>1, <2>2 DEF SourcePrereqs
  <2>3. CASE t[2] \in Overrides /\ t[1] # "configure"
    <3>1. Prereqs(t)[i] \in {"rsync", "rsync_sourced", "rsynced"} \X {t[2]}
      BY <1>4, <2>1, <2>3 DEF SourcePrereqs
    <3> QED BY <3>1
  <2>4. CASE t[2] \notin Overrides
    BY <1>4, <2>1, <2>4 DEF SourcePrereqs
  <2> QED BY <2>2, <2>3, <2>4
<1>5. CASE t[1] = "real"
  <2>1. Prereqs(t) = Append(BaseTargets, <<"pkg", t[2]>>)
    BY <1>5 DEF Prereqs
  <2> QED BY <2>1 DEF BaseTargets
<1>6. CASE t[1] \in {"pkg", "install", "install-host", "build", "uninstall", "clean", "dirclean",
                    "rebuild", "clean-for-reconfigure", "reconfigure"}
  <2>1. /\ t[1] = "pkg" => Prereqs(t) = << <<"install", t[2]>> >>
        /\ t[1] = "install-host" => Prereqs(t) = << <<"build", t[2]>>, <<"host_installed", t[2]>> >>
        /\ t[1] = "build" => Prereqs(t) = << <<"configure", t[2]>>, <<"built", t[2]>> >>
        /\ t[1] = "uninstall" => Prereqs(t) = << <<"configure", t[2]>>, <<"uninstalled", t[2]>> >>
        /\ t[1] = "clean" => Prereqs(t) = << <<"uninstall", t[2]>>, <<"cleaned", t[2]>> >>
    BY DEF Prereqs
  <2>2. /\ t[1] = "dirclean" => Prereqs(t) = << <<"dircleaned", t[2]>> >>
        /\ t[1] = "rebuild" => Prereqs(t) = << <<"clean-for-rebuild", t[2]>>, <<"pkg", t[2]>> >>
        /\ t[1] = "clean-for-reconfigure" => Prereqs(t) = << <<"clean-for-rebuild", t[2]>> >>
        /\ t[1] = "reconfigure" => Prereqs(t) = << <<"clean-for-reconfigure", t[2]>>, <<"pkg", t[2]>> >>
    BY DEF Prereqs
  <2>3. t[1] = "install" => Prereqs(t)[i][2] = t[2]
    BY DEF Prereqs
  <2>4. t[1] \in {"pkg", "install-host", "build", "uninstall", "clean"} => Prereqs(t)[i][2] = t[2]
    BY <2>1
  <2>5. t[1] \in {"dirclean", "rebuild", "clean-for-reconfigure", "reconfigure"} =>
          Prereqs(t)[i][2] = t[2]
    BY <2>2
  <2> QED BY <1>6, <2>3, <2>4, <2>5
<1>7. CASE t[1] \in Stamps \union PseudoStamps \union {"clean-for-rebuild", "top-clean"}
  <2>1. Prereqs(t) = <<>>
    BY <1>7 DEF Prereqs, Stamps, PseudoStamps, InstallStamps
  <2> QED BY <2>1
<1> QED BY <1>1, <1>2, <1>3, <1>4, <1>5, <1>6, <1>7 DEF HumanKinds

\* Until make is done with the toolchain, a full build works on nothing but
\* the toolchain and what that depends on.
ToolchainBelow ==
  goal # <<>> /\ goal[1] = "world" /\ <<"pkg", Toolchain>> \notin done =>
    \A n \in 2..Len(stack) :
      stack[n][2] = Toolchain \/ Rank[stack[n][2]] < Rank[Toolchain]

LEMMA ToolchainBelowStep ==
  ASSUME TypeOK, EngineInv, GoalBelow, ToolchainBelow, [Next]_vars
  PROVE  ToolchainBelow'
<1>1. stack \in Seq(Targets)
  BY DEF TypeOK
<1>2. CASE UNCHANGED engine
  BY <1>2 DEF engine, ToolchainBelow
<1>3. CASE Abort \/ \E g \in Goals : Make(g)
  BY <1>3 DEF Abort, Make, ToolchainBelow
<1>4. CASE stack # <<>> /\ Ready(Top) /\ Return
  <2>1. CASE Len(stack) = 1
    BY <1>4, <2>1 DEF Return, ToolchainBelow
  <2>2. CASE Len(stack) # 1
    <3>1. Len(stack) - 1 \in Nat \ {0} /\ Len(stack) - 1 <= Len(stack)
      BY <1>1, <1>4, <2>2
    <3>2. stack' = SubSeq(stack, 1, Len(stack) - 1) /\ goal' = goal /\ done \subseteq done'
      BY <1>4, <2>2 DEF Return
    <3>3. Len(stack') = Len(stack) - 1 /\ \A n \in 1..(Len(stack) - 1) : stack'[n] = stack[n]
      BY <1>1, <3>1, <3>2, PrefixProperties
    <3>4. \A n \in 2..Len(stack') : n \in 2..Len(stack) /\ stack'[n] = stack[n]
      BY <3>1, <3>3
    <3> QED BY <3>2, <3>4 DEF ToolchainBelow
  <2> QED BY <2>1, <2>2
<1>5. CASE Descend
  <2> SUFFICES ASSUME goal # <<>>, goal[1] = "world", <<"pkg", Toolchain>> \notin done,
                      NEW n \in 2..Len(stack')
               PROVE  stack'[n][2] = Toolchain \/ Rank[stack'[n][2]] < Rank[Toolchain]
    BY <1>5 DEF Descend, ToolchainBelow
  <2>1. stack # <<>> /\ Len(stack) \in Nat \ {0} /\ Top \in Targets /\ Top = stack[Len(stack)]
    BY <1>5, TypeParts, TopType DEF Descend, Top
  <2>2. PICK i \in DOMAIN Prereqs(Top) :
          /\ \A j \in 1..(i - 1) : Prereqs(Top)[j] \in done
          /\ stack' = Append(stack, Prereqs(Top)[i])
    BY <1>5 DEF Descend
  <2> DEFINE u == Prereqs(Top)[i]
  <2>3. Len(stack') = Len(stack) + 1 /\ stack'[Len(stack) + 1] = u
        /\ \A k \in 1..Len(stack) : stack'[k] = stack[k]
    BY <1>1, <2>2
  <2>4. CASE n <= Len(stack)
    <3>1. n \in 2..Len(stack) /\ stack'[n] = stack[n]
      BY <2>1, <2>3, <2>4
    <3> QED BY <3>1 DEF ToolchainBelow
  <2>5. CASE n = Len(stack) + 1 /\ Len(stack) = 1
    <3>1. goal \in Goals
      BY DEF TypeOK
    <3>2. Top = <<"world", Toolchain>>
      BY <2>1, <2>5, <3>1, GoalPair DEF GoalBelow
    <3>3. Prereqs(Top) = << <<"pkg", Toolchain>> >> \o
                           [j \in DOMAIN TargetsAll |-> <<"real", TargetsAll[j]>>]
      BY <3>2 DEF Prereqs, BaseTargets
    <3>4. Prereqs(Top)[1] = <<"pkg", Toolchain>> /\ i \in Nat \ {0}
      <4>1. DOMAIN TargetsAll = 1..Len(TargetsAll) /\ Len(TargetsAll) \in Nat
        BY ConstantsAssumption
      <4> QED BY <2>1, <3>3, <4>1, PrereqsDomain
    <3>5. i = 1
      BY <2>2, <3>4
    <3> QED BY <2>3, <2>5, <3>4, <3>5
  <2>6. CASE n = Len(stack) + 1 /\ Len(stack) # 1
    <3>0. Len(stack) \in Nat \ {0}
      BY <2>1
    <3>1. Len(stack) \in 2..Len(stack) /\ Len(stack) \in 1..Len(stack)
      BY <2>6, <3>0, AboveTheGoal
    <3>2. Top[1] # "world"
      BY <2>1, <2>6, <3>1, OnlyTheGoal DEF NoPrerequisite
    <3>3. Top[2] = Toolchain \/ Rank[Top[2]] < Rank[Toolchain]
      BY <2>1, <3>1 DEF ToolchainBelow
    <3>4. u[2] = Top[2] \/ u[2] = Toolchain \/ Rank[u[2]] < Rank[Top[2]]
      BY <2>1, <2>2, <3>2, PrereqPackage
    <3>5. u[2] \in Packages /\ Top[2] \in Packages /\ Rank \in [Packages -> Nat] /\ Toolchain \in Packages
      BY <2>1, <2>2, PrereqsType, TargetPair, ConstantsAssumption
    <3>6. stack'[n][2] = u[2]
      BY <2>3, <2>6
    <3> HIDE DEF u
    <3> QED BY <3>3, <3>4, <3>5, <3>6
  <2> QED BY <2>1, <2>3, <2>4, <2>5, <2>6
<1> QED BY <1>2, <1>3, <1>4, <1>5, EngineMoves

\* What the walk adds to the invariant of PkgGeneric_proofs.
WalkInv == IInv /\ GoalBelow

LEMMA WalkAlways == Spec => []WalkInv
<1>1. Init => WalkInv
  BY IInvInit DEF Init, WalkInv, GoalBelow
<1>2. WalkInv /\ [Next]_vars => WalkInv'
  BY IInvStep, GoalBelowStep DEF WalkInv, IInv
<1> QED BY <1>1, <1>2, PTL DEF Spec

\* In a full build nothing but the toolchain and what it needs itself is
\* configured before the toolchain is installed.
THEOREM ToolchainBeforeOthers == Spec => ToolchainFirst
<1>1. Init => ToolchainBelow
  BY DEF Init, ToolchainBelow
<1>2. WalkInv /\ ToolchainBelow /\ [Next]_vars => ToolchainBelow'
  BY ToolchainBelowStep DEF WalkInv, IInv
<1>3. ASSUME WalkInv, ToolchainBelow, [Next]_vars, NEW p \in Packages, goal # <<>>,
             goal[1] = "world", p # Toolchain, Rank[p] >= Rank[Toolchain],
             Completes("configured", p)
      PROVE  Installed(Toolchain)
  <2>1. IInv /\ TypeOK /\ EngineInv /\ GoalBelow
    BY <1>3 DEF WalkInv, IInv
  <2>2. stack # <<>> /\ Top = <<"configured", p>>
    BY <1>3, <2>1, OnlyConfigure DEF Configure, Runs, Ready
  <2>3. Top = stack[Len(stack)]
    BY DEF Top
  <2>4. Len(stack) \in Nat \ {0}
    BY <2>1, <2>2, TypeParts, TopType
  <2>5. Len(stack) \in 2..Len(stack)
    <3>1. Len(stack) # 1
      BY <1>3, <2>1, <2>2, <2>3 DEF GoalBelow
    <3> QED BY <2>4, <3>1, AboveTheGoal
  <2>6. ~ (Rank[p] < Rank[Toolchain])
    <3>1. Rank[p] \in Nat /\ Rank[Toolchain] \in Nat
      BY ConstantsAssumption
    <3> QED BY <1>3, <3>1
  <2>7. <<"pkg", Toolchain>> \in done
    BY <1>3, <2>2, <2>3, <2>5, <2>6 DEF ToolchainBelow
  <2>8. Toolchain \in Packages
    BY ConstantsAssumption
  <2> QED BY <2>1, <2>2, <2>7, <2>8, DoneIsInstalled
<1>4. WalkInv /\ ToolchainBelow /\ [Next]_vars =>
        [\A p \in Packages :
           /\ goal # <<>> /\ goal[1] = "world"
           /\ p # Toolchain /\ Rank[p] >= Rank[Toolchain]
           /\ Completes("configured", p)
           => Installed(Toolchain)]_vars
  BY <1>3
<1> QED BY <1>1, <1>2, <1>4, WalkAlways, PTL DEF Spec, ToolchainFirst

-----------------------------------------------------------------------------
(* What make has done before it comes to a stamp *)

\* A stamp is never the goal, so that there is a reason for it.
LEMMA WhyStamp ==
  ASSUME TypeOK, EngineInv, GoalBelow, stack # <<>>, Top[1] \notin HumanKinds
  PROVE  /\ Len(stack) \in 2..Len(stack) /\ Len(stack) - 1 \in 1..Len(stack)
         /\ \E j : Reason(stack[Len(stack) - 1], j, Top)
<1>1. Len(stack) \in Nat \ {0}
  BY TypeParts, TopType
<1>2. Len(stack) # 1
  <2>1. goal \in Goals
    BY DEF TypeOK, GoalBelow
  <2>2. goal[1] \in HumanKinds
    BY <2>1, GoalPair
  <2> QED BY <2>2 DEF GoalBelow, Top
<1>3. Len(stack) \in 2..Len(stack) /\ Len(stack) - 1 \in 1..Len(stack)
  <2>1. ASSUME NEW n \in Nat \ {0}, n # 1
        PROVE  n - 1 \in 1..n
    BY <2>1
  <2> QED BY <1>1, <1>2, <2>1, AboveTheGoal
<1> QED BY <1>3, WhyConsidered DEF Top

\* The rules build before they install ...
LEMMA BuildFirst ==
  ASSUME NEW t \in Targets, NEW j \in DOMAIN Prereqs(t), NEW p,
         NEW s \in InstallStamps, Prereqs(t)[j] = <<s, p>>
  PROVE  \E k \in 1..(j - 1) : Prereqs(t)[k] = <<"build", p>>
<1>1. Prereqs(t)[j][1] = s /\ Prereqs(t)[j][2] = p
  OBVIOUS
<1>2. t[1] \in {"install-staging", "install-target", "install-images", "install-host"}
  BY <1>1, PrereqKinds DEF Needs, InstallStamps
<1>3. PICK i : Prereqs(t) = << <<"build", t[2]>>, <<i, t[2]>> >>
  <2>1. CASE t[1] = "install-host"
    BY <2>1 DEF Prereqs
  <2>2. CASE t[1] # "install-host"
    <3>1. PICK d \in Dests : Prereqs(t) = InstallPrereqs(d, t[2])
      BY <1>2, <2>2 DEF Prereqs, Dests
    <3> QED BY <3>1 DEF InstallPrereqs
  <2> QED BY <2>1, <2>2
<1>4. j = 2 /\ p = t[2]
  BY <1>1, <1>3 DEF InstallStamps
<1> QED BY <1>3, <1>4

\* ... and configure before they build.
LEMMA ConfigureFirst ==
  ASSUME NEW t \in Targets, NEW j \in DOMAIN Prereqs(t), NEW p, Prereqs(t)[j] = <<"built", p>>
  PROVE  \E k \in 1..(j - 1) : Prereqs(t)[k] = <<"configure", p>>
<1>1. Prereqs(t)[j][1] = "built" /\ Prereqs(t)[j][2] = p
  OBVIOUS
<1>2. t[1] = "build"
  BY <1>1, PrereqKinds DEF Needs, InstallStamps
<1>3. Prereqs(t) = << <<"configure", t[2]>>, <<"built", t[2]>> >>
  BY <1>2 DEF Prereqs
<1>4. j = 2 /\ p = t[2]
  BY <1>1, <1>3
<1> QED BY <1>3, <1>4

\* What is configured has its sources and what it depends on.
LEMMA ConfiguredIsDone ==
  ASSUME DoneIsClosed, NEW p \in Packages, <<"configure", p>> \in done
  PROVE  /\ <<"configured", p>> \in done
         /\ <<"depends", p>> \in done
         /\ <<IF p \in Overrides THEN "rsynced" ELSE "extracted", p>> \in done
<1>1. CASE p \in Overrides
  <2>1. Prereqs(<<"configure", p>>) = << <<"depends", p>>, <<"configured", p>> >>
    BY <1>1 DEF Prereqs, SourcePrereqs
  <2>2. <<"depends", p>> \in done /\ <<"configured", p>> \in done
    BY <2>1 DEF DoneIsClosed
  <2>3. Prereqs(<<"depends", p>>) = << <<"rsync", p>> >> \o
                                   [i \in DOMAIN Deps[p] |-> <<"pkg", Deps[p][i]>>]
    BY <1>1 DEF Prereqs, SourcePrereqs
  <2>4. 1 \in DOMAIN Prereqs(<<"depends", p>>) /\ Prereqs(<<"depends", p>>)[1] = <<"rsync", p>>
    <3>1. DOMAIN Deps[p] = 1..Len(Deps[p]) /\ Len(Deps[p]) \in Nat
      BY ConstantsAssumption
    <3> QED BY <2>3, <3>1
  <2>5. <<"rsync", p>> \in done
    BY <2>2, <2>4 DEF DoneIsClosed
  <2>6. Prereqs(<<"rsync", p>>) = << <<"rsynced", p>> >>
    BY <1>1 DEF Prereqs, SourcePrereqs
  <2>7. <<"rsynced", p>> \in done
    BY <2>5, <2>6 DEF DoneIsClosed
  <2> QED BY <1>1, <2>2, <2>7
<1>2. CASE p \notin Overrides
  <2>1. Prereqs(<<"configure", p>>) = << <<"patch", p>>, <<"depends", p>>, <<"configured", p>> >>
    BY <1>2 DEF Prereqs, SourcePrereqs
  <2>2. /\ <<"patch", p>> \in done /\ <<"depends", p>> \in done
        /\ <<"configured", p>> \in done
    BY <2>1 DEF DoneIsClosed
  <2>3. Prereqs(<<"patch", p>>) = << <<"extract", p>>, <<"patched", p>> >>
    BY <1>2 DEF Prereqs, SourcePrereqs
  <2>4. <<"extract", p>> \in done
    BY <2>2, <2>3 DEF DoneIsClosed
  <2>5. Prereqs(<<"extract", p>>) = << <<"source", p>>, <<"extracted", p>> >>
    BY <1>2 DEF Prereqs, SourcePrereqs
  <2>6. <<"extracted", p>> \in done
    BY <2>4, <2>5 DEF DoneIsClosed
  <2> QED BY <1>2, <2>2, <2>6
<1> QED BY <1>1, <1>2

\* When make builds a package its sources and its configuration have their
\* stamps, and when it installs one the build has.
LEMMA StampsBefore ==
  ASSUME WalkInv, stack # <<>>, NEW p \in Packages, NEW s, Top = <<s, p>>
  PROVE  /\ s = "built" => /\ "configured" \in stamps[p]
                           /\ p \in Overrides => "rsynced" \in stamps[p]
                           /\ p \notin Overrides => "extracted" \in stamps[p]
         /\ s \in InstallStamps => "built" \in stamps[p]
<1>1. TypeOK /\ EngineInv /\ GoalBelow /\ DoneStampsExist /\ DoneIsClosed
  BY DEF WalkInv, IInv, EngineInv
<1>2. CASE s = "built"
  <2>1. PICK j : Reason(stack[Len(stack) - 1], j, Top)
    BY <1>1, <1>2, WhyStamp DEF HumanKinds
  <2>2. <<"configure", p>> \in done
    BY <1>2, <2>1, ConfigureFirst DEF Reason
  <2>3. /\ <<"configured", p>> \in done
        /\ p \in Overrides => <<"rsynced", p>> \in done
        /\ p \notin Overrides => <<"extracted", p>> \in done
    BY <1>1, <2>2, ConfiguredIsDone
  <2> QED BY <1>1, <1>2, <2>3, DoneStampExists DEF Stamps, InstallStamps
<1>3. CASE s \in InstallStamps
  <2>1. PICK j : Reason(stack[Len(stack) - 1], j, Top)
    BY <1>1, <1>3, WhyStamp DEF HumanKinds, InstallStamps
  <2>2. <<"build", p>> \in done
    BY <1>3, <2>1, BuildFirst DEF Reason
  <2>3. Prereqs(<<"build", p>>) = << <<"configure", p>>, <<"built", p>> >>
    BY DEF Prereqs
  <2>4. <<"built", p>> \in done
    BY <1>1, <2>2, <2>3 DEF DoneIsClosed
  <2> QED BY <1>1, <1>3, <2>4, DoneStampExists DEF Stamps, InstallStamps
<1> QED BY <1>2, <1>3 DEF InstallStamps

\* The removals of foo-clean and foo-dirclean are for their goals only.
LEMMA RemovalGoal ==
  ASSUME WalkInv, stack # <<>>
  PROVE  /\ Top[1] = "cleaned" => goal # <<>> /\ goal[1] = "clean"
         /\ Top[1] = "dircleaned" => goal # <<>> /\ goal[1] = "dirclean"
<1>1. TypeOK /\ EngineInv /\ GoalBelow
  BY DEF WalkInv, IInv
<1> SUFFICES ASSUME Top[1] \in {"cleaned", "dircleaned"}
             PROVE  /\ goal # <<>>
                    /\ Top[1] = "cleaned" => goal[1] = "clean"
                    /\ Top[1] = "dircleaned" => goal[1] = "dirclean"
  OBVIOUS
<1> DEFINE t == stack[Len(stack) - 1]
<1>2. Len(stack) - 1 \in 1..Len(stack) /\ \E j : Reason(t, j, Top)
  BY <1>1, WhyStamp DEF HumanKinds
<1>3. PICK j : Reason(t, j, Top)
  BY <1>2
<1>4. /\ Top[1] = "cleaned" => t[1] = "clean"
      /\ Top[1] = "dircleaned" => t[1] = "dirclean"
  BY <1>3, PrereqFacts DEF Reason, PrereqFact
<1>5. t = goal
  BY <1>1, <1>2, <1>4, OnlyTheGoal DEF NoPrerequisite
<1> QED BY <1>1, <1>4, <1>5 DEF GoalBelow

-----------------------------------------------------------------------------
(* The destinations hold the same build *)

\* A package that is not stale has no install stamp without .stamp_built.
Aged == \A p \in Packages \ stale :
          stamps[p] \intersect InstallStamps # {} => "built" \in stamps[p]

\* What an install stamp promises where nothing took .stamp_built away from
\* under it: its destination holds what was built last.
AgreesAt(p) ==
  p \notin stale /\ "built" \notin torn[p] =>
    \A d \in Dests : InstallStamp[d] \in Trusted(p) => inst[p][d] = tree[p].obj

Agrees == \A p \in Packages : AgreesAt(p)

LEMMA AgedStep ==
  ASSUME WalkInv, Aged, [Next]_vars
  PROVE  Aged'
<1>1. TypeOK
  BY DEF WalkInv, IInv
<1>2. ASSUME NEW p \in Packages, NEW s \in Stamps, Runs(s, p), Touch(s, p)
      PROVE  Aged'
  <2>1. stale' = stale /\ stack # <<>> /\ Top = <<s, p>>
    BY <1>2 DEF Touch, Runs, Ready
  <2>2. s \in InstallStamps => "built" \in stamps[p]
    BY <2>1, StampsBefore
  <2> QED BY <1>1, <1>2, <2>1, <2>2, TouchStep DEF Aged
<1>3. CASE Ages
  BY <1>3 DEF Aged, Ages
<1>4. CASE UNCHANGED <<stamps, stale>>
  BY <1>4 DEF Aged
<1> QED BY <1>2, <1>3, <1>4, StaleMoves

\* A package with an install stamp never ceases to be stale.
LEMMA NotStale ==
  ASSUME [Next]_vars, NEW p \in Packages, p \notin stale',
         NEW d \in Dests, InstallStamp[d] \in stamps'[p]
  PROVE  p \notin stale /\ (Ages => "built" \in stamps'[p])
  BY StaleMoves, InstallStampDistinct DEF Ages, Touch

\* A step that changes nothing of the other packages.
LEMMA AgreesFrame ==
  ASSUME TypeOK, [Next]_vars, Agrees, NEW p \in Packages,
         \A q \in Packages \ {p} : /\ stamps'[q] = stamps[q] /\ torn'[q] = torn[q]
                                   /\ tree'[q] = tree[q] /\ inst'[q] = inst[q],
         AgreesAt(p)'
  PROVE  Agrees'
<1> SUFFICES ASSUME NEW q \in Packages \ {p} PROVE AgreesAt(q)'
  BY DEF Agrees
<1> SUFFICES ASSUME q \notin stale', "built" \notin torn'[q],
                    NEW d \in Dests, InstallStamp[d] \in Trusted(q)'
             PROVE  inst'[q][d] = tree'[q].obj
  BY DEF AgreesAt
<1>1. q \notin stale
  BY NotStale DEF Trusted
<1> QED BY <1>1 DEF Agrees, AgreesAt, Trusted

\* A stamp of an earlier step.
LEMMA AgreesTouched ==
  ASSUME TypeOK, [Next]_vars, Agrees, NEW p \in Packages,
         Download(p) \/ Extract(p) \/ Rsync(p) \/ Patch(p) \/ Configure(p)
  PROVE  Agrees'
<1>1. PICK s \in {"downloaded", "extracted", "rsynced", "patched", "configured"} : Touch(s, p)
  BY DEF Download, Extract, Rsync, Patch, Configure
<1>2. /\ inst' = inst /\ \A q \in Packages \ {p} : tree'[q] = tree[q]
      /\ tree'[p].obj = tree[p].obj
  BY DEF TypeOK, Tree, Download, Extract, Rsync, Patch, Configure, WithSources
<1>3. /\ Trusted(p)' \subseteq Trusted(p) \union {s}
      /\ "built" \in torn[p] => "built" \in torn'[p]
      /\ stale' = stale
      /\ \A q \in Packages \ {p} : stamps'[q] = stamps[q] /\ torn'[q] = torn[q]
  BY <1>1, TouchStep DEF Trusted, Touch
<1>4. AgreesAt(p)'
  BY <1>2, <1>3, InstallStampDistinct DEF Agrees, AgreesAt, InstallStamps
<1> QED BY <1>2, <1>3, <1>4, AgreesFrame

\* The build itself: while .stamp_built is missing there is no install stamp,
\* or the package is stale.
LEMMA AgreesBuilt ==
  ASSUME TypeOK, [Next]_vars, Aged, Agrees, NEW p \in Packages, Build(p) \/ BuildCut(p)
  PROVE  Agrees'
<1>1. "built" \notin stamps[p]
  BY DEF Build, BuildCut, Runs
<1>2. p \notin stale => \A d \in Dests : InstallStamp[d] \notin stamps[p]
  BY <1>1, InstallStampDistinct DEF Aged
<1>3. /\ inst' = inst /\ stale' = stale
      /\ \A q \in Packages \ {p} : tree'[q] = tree[q]
  BY DEF TypeOK, Build, BuildCut, Touch
<1>4. /\ Trusted(p)' \subseteq stamps[p] \union {"built"}
      /\ \A q \in Packages \ {p} : stamps'[q] = stamps[q] /\ torn'[q] = torn[q]
  BY TouchStep DEF Trusted, Build, BuildCut
<1>5. AgreesAt(p)'
  BY <1>2, <1>3, <1>4, InstallStampDistinct DEF AgreesAt, InstallStamps
<1> QED BY <1>3, <1>4, <1>5, AgreesFrame

LEMMA AgreesInstalled ==
  ASSUME TypeOK, [Next]_vars, Agrees, NEW p \in Packages, NEW d \in Dests,
         Install(p, d) \/ InstallCut(p, d)
  PROVE  Agrees'
<1>1. InstallStamp[d] \notin stamps[p]
  BY DEF Install, InstallCut, Runs
<1>3. /\ tree' = tree /\ stale' = stale
      /\ \A q \in Packages \ {p} : inst'[q] = inst[q]
      /\ \A e \in Dests \ {d} : inst'[p][e] = inst[p][e]
  BY DEF TypeOK, Install, InstallCut, Touch
<1>4. CASE Install(p, d)
  <2>1. /\ Trusted(p)' \subseteq Trusted(p) \union {InstallStamp[d]}
        /\ torn'[p] = torn[p] \ {InstallStamp[d]} /\ InstallStamp[d] # "built"
        /\ \A q \in Packages \ {p} : stamps'[q] = stamps[q] /\ torn'[q] = torn[q]
    BY <1>4, TouchStep, InstallStampDistinct DEF Trusted, Install, InstallStamps
  <2>2. inst'[p][d] = tree[p].obj
    BY <1>4 DEF TypeOK, Install
  <2>3. AgreesAt(p)'
    <3> SUFFICES ASSUME p \notin stale', "built" \notin torn'[p],
                        NEW e \in Dests, InstallStamp[e] \in Trusted(p)'
                 PROVE  inst'[p][e] = tree'[p].obj
      BY DEF AgreesAt
    <3>1. CASE e = d
      BY <1>3, <2>2, <3>1
    <3>2. CASE e # d
      BY <1>3, <2>1, <3>2, InstallStampDistinct DEF Agrees, AgreesAt
    <3> QED BY <3>1, <3>2
  <2> QED BY <1>3, <2>1, <2>3, AgreesFrame
<1>5. CASE InstallCut(p, d)
  <2>1. stamps' = stamps /\ torn' = torn
    BY <1>5 DEF InstallCut
  <2>2. AgreesAt(p)'
    BY <1>1, <1>3, <2>1 DEF Agrees, AgreesAt, Trusted
  <2> QED BY <1>3, <2>1, <2>2, AgreesFrame
<1> QED BY <1>4, <1>5

\* All the stamps that clean-for-rebuild removes.
LEMMA RebuildStampsAll ==
  ASSUME NEW p
  PROVE  /\ {"built"} \union InstallStamps
              \subseteq FirstRebuildStamps(Len(RebuildStamps(p)), p)
         /\ p \in Overrides => "rsynced" \in FirstRebuildStamps(Len(RebuildStamps(p)), p)
<1>1. CASE p \in Overrides
  <2>1. RebuildStamps(p) = <<"rsynced", "built", "staging_installed", "target_installed",
                             "images_installed", "host_installed">>
    BY <1>1 DEF RebuildStamps
  <2>2. Len(RebuildStamps(p)) = 6
    BY <2>1
  <2>3. \A n \in 1..6 : RebuildStamps(p)[n] \in FirstRebuildStamps(Len(RebuildStamps(p)), p)
    BY <2>2 DEF FirstRebuildStamps
  <2> HIDE DEF FirstRebuildStamps
  <2>4. /\ RebuildStamps(p)[1] = "rsynced" /\ RebuildStamps(p)[2] = "built"
        /\ RebuildStamps(p)[3] = "staging_installed" /\ RebuildStamps(p)[4] = "target_installed"
        /\ RebuildStamps(p)[5] = "images_installed" /\ RebuildStamps(p)[6] = "host_installed"
    BY <2>1
  <2>5. 1 \in 1..6 /\ 2 \in 1..6 /\ 3 \in 1..6 /\ 4 \in 1..6 /\ 5 \in 1..6 /\ 6 \in 1..6
    OBVIOUS
  <2> QED BY <2>3, <2>4, <2>5 DEF InstallStamps
<1>2. CASE p \notin Overrides
  <2>1. RebuildStamps(p) = <<"built", "staging_installed", "target_installed",
                             "images_installed", "host_installed">>
    BY <1>2 DEF RebuildStamps
  <2>2. Len(RebuildStamps(p)) = 5
    BY <2>1
  <2>3. \A n \in 1..5 : RebuildStamps(p)[n] \in FirstRebuildStamps(Len(RebuildStamps(p)), p)
    BY <2>2 DEF FirstRebuildStamps
  <2>4. /\ RebuildStamps(p)[1] = "built"
        /\ RebuildStamps(p)[2] = "staging_installed" /\ RebuildStamps(p)[3] = "target_installed"
        /\ RebuildStamps(p)[4] = "images_installed" /\ RebuildStamps(p)[5] = "host_installed"
    BY <2>1
  <2>5. 1 \in 1..5 /\ 2 \in 1..5 /\ 3 \in 1..5 /\ 4 \in 1..5 /\ 5 \in 1..5
    OBVIOUS
  <2> QED BY <1>2, <2>3, <2>4, <2>5 DEF InstallStamps
<1> QED BY <1>1, <1>2

LEMMA AgreesRemoved ==
  ASSUME TypeOK, [Next]_vars, Aged, Agrees, NEW p \in Packages,
         \/ Uninstall(p) \/ UninstallCut(p) \/ CleanPackage(p) \/ CleanPackageCut(p)
         \/ Dirclean(p) \/ DircleanCut(p)
         \/ CleanForRebuild(p) \/ CleanForRebuildCut(p) \/ CleanForReconfigure(p)
         \/ DeleteStamp(p)
  PROVE  Agrees'
<1>0. p \in Packages /\ tree[p] \in Tree /\ inst[p] \in [Dests -> Version]
  BY DEF TypeOK
<1>2. CASE Uninstall(p) \/ UninstallCut(p)
  <2>1. PICK S, D : /\ Remove(S, p)
                    /\ S \subseteq {"staging_installed", "target_installed"}
                    /\ D \subseteq Dests /\ \A d \in D : InstallStamp[d] \in S
                    /\ inst' = [inst EXCEPT ![p] = Without(D, inst[p])]
    <3>1. CASE Uninstall(p)
      <4> WITNESS {"staging_installed", "target_installed"}, {"staging", "target"}
      <4> QED BY <3>1, InstallStampFact DEF Uninstall
    <3>2. CASE UninstallCut(p)
      <4>1. PICK n \in 1..4 :
              /\ Remove({"staging_installed"} \union IF n > 1 THEN {"target_installed"} ELSE {}, p)
              /\ inst' = [inst EXCEPT ![p] = Without((IF n > 2 THEN {"staging"} ELSE {}) \union
                                                     (IF n > 3 THEN {"target"} ELSE {}), inst[p])]
        BY <3>2 DEF UninstallCut
      <4> WITNESS {"staging_installed"} \union IF n > 1 THEN {"target_installed"} ELSE {},
                  (IF n > 2 THEN {"staging"} ELSE {}) \union (IF n > 3 THEN {"target"} ELSE {})
      <4> QED BY <4>1, InstallStampFact
    <3> QED BY <1>2, <3>1, <3>2
  <2>2. /\ tree' = tree
        /\ \A q \in Packages \ {p} : inst'[q] = inst[q]
        /\ \A d \in Dests \ D : inst'[p][d] = inst[p][d]
    BY <1>2, <2>1 DEF TypeOK, Uninstall, UninstallCut, Without
  <2>3. /\ Trusted(p)' = Trusted(p) \ S /\ Trusted(p)' \subseteq stamps'[p]
        /\ torn'[p] = torn[p] \ S
        /\ \A q \in Packages \ {p} : stamps'[q] = stamps[q] /\ torn'[q] = torn[q]
    BY <2>1, RemoveStep DEF Trusted
  <2>4. AgreesAt(p)'
    <3> SUFFICES ASSUME p \notin stale', "built" \notin torn'[p],
                        NEW d \in Dests, InstallStamp[d] \in Trusted(p)'
                 PROVE  inst'[p][d] = tree'[p].obj
      BY DEF AgreesAt
    <3>1. p \notin stale /\ "built" \notin torn[p]
      BY <2>1, <2>3, NotStale
    <3> QED BY <2>1, <2>2, <2>3, <3>1 DEF Agrees, AgreesAt
  <2> QED BY <2>2, <2>3, <2>4, AgreesFrame
<1>3. CASE Dirclean(p) \/ DircleanCut(p)
  <2>1. inst' = inst /\ \A q \in Packages \ {p} : tree'[q] = tree[q]
    BY <1>3 DEF TypeOK, Dirclean, DircleanCut
  <2>2. /\ Trusted(p)' = {}
        /\ \A q \in Packages \ {p} : stamps'[q] = stamps[q] /\ torn'[q] = torn[q]
    <3>1. CASE Dirclean(p)
      <4>1. Remove(Stamps, p) /\ stamps[p] \subseteq Stamps
        BY <3>1 DEF Dirclean, TypeOK
      <4> QED BY <4>1, RemoveStep DEF Trusted
    <3>2. CASE DircleanCut(p)
      BY <3>2 DEF TypeOK, DircleanCut, Trusted
    <3> QED BY <1>3, <3>1, <3>2
  <2> QED BY <2>1, <2>2, AgreesFrame DEF AgreesAt
<1>4. CASE CleanForRebuild(p) \/ CleanForRebuildCut(p) \/ CleanForReconfigure(p) \/ DeleteStamp(p)
  <2>1. PICK S : Remove(S, p)
    BY <1>4 DEF CleanForRebuild, CleanForRebuildCut, CleanForReconfigure, DeleteStamp
  <2>2. inst' = inst /\ tree' = tree
    BY <1>4 DEF CleanForRebuild, CleanForRebuildCut, CleanForReconfigure, DeleteStamp
  <2>3. /\ stamps'[p] = stamps[p] \ S /\ torn'[p] = torn[p] \ S
        /\ Trusted(p)' \subseteq Trusted(p) /\ Trusted(p)' \subseteq stamps'[p]
        /\ \A q \in Packages \ {p} : stamps'[q] = stamps[q] /\ torn'[q] = torn[q]
    BY <2>1, RemoveStep DEF Trusted
  <2>4. AgreesAt(p)'
    <3> SUFFICES ASSUME p \notin stale', "built" \notin torn'[p],
                        NEW d \in Dests, InstallStamp[d] \in Trusted(p)'
                 PROVE  inst'[p][d] = tree'[p].obj
      BY DEF AgreesAt
    <3>1. p \notin stale /\ "built" \notin S
      BY <2>1, <2>3, NotStale DEF Remove
    <3>2. "built" \notin torn[p]
      BY <2>3, <3>1
    <3> QED BY <2>2, <2>3, <3>1, <3>2 DEF Agrees, AgreesAt
  <2> QED BY <2>2, <2>3, <2>4, AgreesFrame
<1>5. CASE CleanPackage(p) \/ CleanPackageCut(p)
  <2>1. inst' = inst /\ \A q \in Packages \ {p} : tree'[q] = tree[q]
    BY <1>5 DEF TypeOK, CleanPackage, CleanPackageCut
  <2>2. \A q \in Packages \ {p} : stamps'[q] = stamps[q] /\ torn'[q] = torn[q]
    <3>1. CASE CleanPackage(p)
      BY <3>1, RemoveStep DEF CleanPackage
    <3>2. CASE CleanPackageCut(p)
      BY <3>2 DEF TypeOK, CleanPackageCut
    <3> QED BY <1>5, <3>1, <3>2
  <2>3. AgreesAt(p)'
    <3> SUFFICES ASSUME p \notin stale', "built" \notin torn'[p],
                        NEW d \in Dests, InstallStamp[d] \in stamps'[p]
                 PROVE  FALSE
      BY DEF AgreesAt, Trusted
    <3>1. CASE CleanPackage(p)
      <4>1. Remove({"built"}, p)
        BY <3>1 DEF CleanPackage
      <4>2. "built" \notin stamps'[p]
        BY <4>1, RemoveStep
      <4> QED BY <4>1, <4>2, NotStale DEF Remove
    <3>2. CASE CleanPackageCut(p)
      <4>1. /\ stamps' = stamps
            /\ torn'[p] = torn[p] \union ({"built"} \intersect stamps[p])
        BY <3>2 DEF TypeOK, CleanPackageCut
      <4>2. p \notin stale
        BY NotStale
      <4> QED BY <4>1, <4>2, InstallStampDistinct DEF Aged
    <3> QED BY <1>5, <3>1, <3>2
  <2> QED BY <2>1, <2>2, <2>3, AgreesFrame
<1> QED BY <1>2, <1>3, <1>4, <1>5

LEMMA AgreesStep ==
  ASSUME TypeOK, Aged, Agrees, [Next]_vars
  PROVE  Agrees'
<1>1. ASSUME UNCHANGED <<stamps, torn, inst, stale>>,
             \A p \in Packages : tree'[p].obj = tree[p].obj
      PROVE  Agrees'
  BY <1>1 DEF Agrees, AgreesAt, Trusted
<1>2. CASE UNCHANGED vars \/ Descend \/ UpToDate \/ Interrupted \/ \E g \in Goals : Make(g)
  BY <1>1, <1>2 DEF vars, files, Descend, UpToDate, Interrupted, Make
<1>3. CASE CleanAll \/ CleanAllCut
  <2>1. \A p \in Packages : Trusted(p)' = {}
    <3>1. CASE CleanAll
      BY <3>1 DEF CleanAll, Trusted
    <3>2. CASE CleanAllCut
      BY <3>2 DEF CleanAllCut, Trusted
    <3> QED BY <1>3, <3>1, <3>2
  <2> QED BY <2>1 DEF Agrees, AgreesAt
<1>4. ASSUME NEW p \in Packages,
             RsyncSource(p) \/ RecipeFails(p) \/ DownloadCut(p)
             \/ EditSources(p) \/ EditConfig(p)
      PROVE  Agrees'
  BY <1>1, <1>4 DEF RsyncSource, RecipeFails, DownloadCut, EditSources, EditConfig, files
<1>5. ASSUME NEW p \in Packages,
             \/ EditTree(p) \/ FetchCut("extracted", p) \/ FetchCut("rsynced", p)
             \/ PatchCut(p) \/ ConfigureCut(p)
      PROVE  Agrees'
  <2>1. UNCHANGED <<stamps, torn, inst, stale>>
    BY <1>5 DEF EditTree, FetchCut, PatchCut, ConfigureCut
  <2>2. \A q \in Packages : tree'[q].obj = tree[q].obj
    <3>1. CASE EditTree(p)
      BY <3>1 DEF TypeOK, Tree, EditTree
    <3>2. CASE FetchCut("extracted", p) \/ FetchCut("rsynced", p)
      <4>1. PICK v : tree' = [tree EXCEPT ![p] = WithSources(tree[p], v)]
        BY <3>2 DEF FetchCut
      <4>2. WithSources(tree[p], v).obj = tree[p].obj
        BY DEF WithSources
      <4> QED BY <4>1, <4>2 DEF TypeOK
    <3>3. CASE PatchCut(p)
      BY <3>3 DEF TypeOK, Tree, PatchCut
    <3>4. CASE ConfigureCut(p)
      BY <3>4 DEF TypeOK, Tree, ConfigureCut
    <3> QED BY <1>5, <3>1, <3>2, <3>3, <3>4
  <2> QED BY <1>1, <2>1, <2>2
<1> QED
  BY <1>2, <1>3, <1>4, <1>5, AgreesTouched, AgreesBuilt, AgreesInstalled, AgreesRemoved
  DEF Next, MakeStep, CutStep, UserStep

\* make only ends with its goal when it is done with all the prerequisites of it.
LEMMA EndIsReady ==
  ASSUME [Next]_vars, Succeeds
  PROVE  stack # <<>> /\ Ready(Top)
<1>1. stack # <<>> /\ stack' = <<>> /\ Len(stack) = 1
  BY DEF Succeeds
<1>2. ~ UNCHANGED vars /\ ~ (\E g \in Goals : Make(g)) /\ ~ Descend
  <2>1. ~ UNCHANGED vars
    BY <1>1 DEF vars, engine
  <2>2. ~ (\E g \in Goals : Make(g))
    BY <1>1 DEF Make, Idle
  <2>3. ~ Descend
    BY <1>1 DEF Descend
  <2> QED BY <2>1, <2>2, <2>3
<1>3. CASE CutStep
  BY <1>1, <1>3
  DEF CutStep, Interrupted, CleanAllCut, DownloadCut, FetchCut, PatchCut, ConfigureCut, BuildCut,
      InstallCut, UninstallCut, CleanPackageCut, DircleanCut, CleanForRebuildCut, Runs, Ready
<1>4. CASE MakeStep
  BY <1>1, <1>2, <1>4
  DEF MakeStep, UpToDate, CleanAll, Download, Extract, Rsync, Patch, Configure, Build, Install,
      RsyncSource, Uninstall, CleanPackage, Dirclean, CleanForRebuild, CleanForReconfigure,
      RecipeFails, Runs, Ready
<1>5. CASE UserStep
  BY <1>1, <1>2, <1>5
  DEF UserStep, EditSources, EditTree, EditConfig, DeleteStamp, engine
<1> QED BY <1>2, <1>3, <1>4, <1>5 DEF Next

\* The goals that bring a package into its destinations.
Delivering == {"pkg", "rebuild", "reconfigure"}

LEMMA EndIsInstalled ==
  ASSUME WalkInv, [Next]_vars, Succeeds
  PROVE  /\ goal \in Goals /\ goal # <<>> /\ Top = goal
         /\ \A i \in DOMAIN Prereqs(goal) : Prereqs(goal)[i] \in done
         /\ goal[1] \in Delivering =>
              \A d \in InstallTo[goal[2]] : d \in Dests /\ InstallStamp[d] \in stamps[goal[2]]
<1>1. TypeOK /\ EngineInv /\ GoalBelow /\ DoneStampsExist /\ DoneIsClosed
  BY DEF WalkInv, IInv, EngineInv
<1>2. stack # <<>> /\ Ready(Top) /\ Len(stack) = 1
  BY EndIsReady DEF Succeeds
<1>3. goal \in Goals /\ goal # <<>> /\ Top = goal
  BY <1>1, <1>2 DEF TypeOK, GoalBelow, Top
<1>4. \A i \in DOMAIN Prereqs(goal) : Prereqs(goal)[i] \in done
  BY <1>2, <1>3 DEF Ready
<1>5. ASSUME goal[1] \in Delivering, NEW d \in InstallTo[goal[2]]
      PROVE  d \in Dests /\ InstallStamp[d] \in stamps[goal[2]]
  <2> DEFINE p == goal[2]
  <2>1. goal = <<goal[1], p>> /\ p \in Packages
    BY <1>3, GoalPair
  <2>2. Prereqs(<<"pkg", p>>) = << <<"install", p>> >>
    BY DEF Prereqs
  <2>3. goal[1] # "pkg" => <<"pkg", p>> \in done
    <3>1. CASE goal[1] = "rebuild"
      <4>1. Prereqs(goal) = << <<"clean-for-rebuild", p>>, <<"pkg", p>> >>
        BY <3>1 DEF Prereqs
      <4> QED BY <1>4, <4>1
    <3>2. CASE goal[1] = "reconfigure"
      <4>1. Prereqs(goal) = << <<"clean-for-reconfigure", p>>, <<"pkg", p>> >>
        BY <3>2 DEF Prereqs
      <4> QED BY <1>4, <4>1
    <3> QED BY <1>5, <3>1, <3>2 DEF Delivering
  <2>4. <<"install", p>> \in done
    BY <1>1, <1>4, <2>1, <2>2, <2>3 DEF DoneIsClosed
  <2>5. d \in Dests /\ <<InstallStamp[d], p>> \in done
    BY <1>1, <1>5, <2>1, <2>4, InstallStampsDone
  <2>6. InstallStamp[d] \in Stamps
    BY <2>5, InstallStampDistinct DEF Stamps
  <2> QED BY <1>1, <1>2, <1>3, <1>5, <2>5, <2>6, DoneStampExists DEF Delivering
<1> QED BY <1>3, <1>4, <1>5

-----------------------------------------------------------------------------
(* A rebuild starts from no install stamp, whatever was left behind *)

\* Once foo-clean-for-rebuild is done in this invocation, no install stamp of
\* foo is older than its build.
Restarted ==
  goal # <<>> /\ goal[1] \in {"rebuild", "reconfigure"} /\ <<"clean-for-rebuild", goal[2]>> \in done
    => /\ goal[2] \notin stale
       /\ torn[goal[2]] \intersect ({"built"} \union InstallStamps) = {}

\* Only an aborted make leaves torn stamps.
LEMMA TornMoves ==
  ASSUME TypeOK, [Next]_vars, NEW p \in Packages
  PROVE  Abort \/ torn'[p] \subseteq torn[p]
<1>1. CASE UNCHANGED vars \/ Descend \/ UpToDate \/ \E g \in Goals : Make(g)
  BY <1>1 DEF vars, files, Descend, UpToDate, Make
<1>2. CASE CleanAll
  BY <1>2 DEF CleanAll
<1>3. CASE CutStep
  BY <1>3 DEF CutStep, Interrupted, CleanAllCut, DownloadCut, FetchCut, PatchCut, ConfigureCut,
       BuildCut, InstallCut, UninstallCut, CleanPackageCut, DircleanCut, CleanForRebuildCut, Fault
<1>4. ASSUME NEW q \in Packages, NEW S, Remove(S, q) \/ Touch(S, q)
      PROVE  torn'[p] \subseteq torn[p]
  <2>1. CASE p = q
    BY <1>4, <2>1, RemoveStep, TouchStep
  <2>2. CASE p # q
    BY <1>4, <2>2, RemoveStep, TouchStep
  <2> QED BY <2>1, <2>2
<1>5. ASSUME NEW q \in Packages,
             \/ Download(q) \/ Extract(q) \/ Rsync(q) \/ Patch(q) \/ Configure(q) \/ Build(q)
             \/ (\E d \in Dests : Install(q, d))
             \/ Uninstall(q) \/ CleanPackage(q) \/ Dirclean(q) \/ CleanForRebuild(q)
             \/ CleanForReconfigure(q) \/ DeleteStamp(q)
      PROVE  \E S : Remove(S, q) \/ Touch(S, q)
  BY <1>5 DEF Download, Extract, Rsync, Patch, Configure, Build, Install, Uninstall, CleanPackage,
       Dirclean, CleanForRebuild, CleanForReconfigure, DeleteStamp
<1>6. ASSUME NEW q \in Packages,
             RsyncSource(q) \/ RecipeFails(q) \/ EditSources(q) \/ EditTree(q) \/ EditConfig(q)
      PROVE  torn' = torn
  BY <1>6 DEF RsyncSource, RecipeFails, EditSources, EditTree, EditConfig, files
<1> QED
  BY <1>1, <1>2, <1>3, <1>4, <1>5, <1>6 DEF Next, MakeStep, UserStep

LEMMA RestartedStep ==
  ASSUME WalkInv, Aged, Restarted, [Next]_vars
  PROVE  Restarted'
<1>1. TypeOK /\ EngineInv
  BY DEF WalkInv, IInv
<1> SUFFICES ASSUME goal' # <<>>, goal'[1] \in {"rebuild", "reconfigure"},
                    <<"clean-for-rebuild", goal'[2]>> \in done'
             PROVE  /\ goal'[2] \notin stale'
                    /\ torn'[goal'[2]] \intersect ({"built"} \union InstallStamps) = {}
  BY DEF Restarted
<1>2. /\ ~ Abort /\ goal' = goal /\ goal # <<>> /\ stack # <<>>
      /\ done' = done \/ (Ready(Top) /\ Return /\ done' = done \union {Top})
  <2>1. CASE UNCHANGED engine
    BY <1>1, <2>1 DEF engine, Abort, EngineInv
  <2>2. CASE Descend
    BY <2>2 DEF Descend, Abort
  <2>3. CASE stack # <<>> /\ Ready(Top) /\ Return
    BY <2>3 DEF Return, Abort
  <2> QED BY <2>1, <2>2, <2>3, EngineMoves DEF Abort, Make
<1> DEFINE p == goal[2]
           t == <<"clean-for-rebuild", p>>
<1>3. p \in Packages /\ torn'[p] \subseteq torn[p]
  BY <1>1, <1>2, GoalPair, TornMoves DEF TypeOK
<1>4. CASE t \in done
  <2>1. p \notin stale /\ torn[p] \intersect ({"built"} \union InstallStamps) = {}
    BY <1>2, <1>4 DEF Restarted
  <2> SUFFICES ASSUME p \in stale' PROVE FALSE
    BY <1>2, <1>3, <2>1
  <2>2. /\ ~ UNCHANGED stale
        /\ Ages /\ stamps'[p] \intersect InstallStamps # {} /\ "built" \notin stamps'[p]
    BY <2>1, StaleMoves DEF Touch, Ages
  <2>3. stamps[p] \intersect InstallStamps # {} => "built" \in stamps[p]
    BY <1>3, <2>1 DEF Aged
  <2>4. ASSUME NEW q \in Packages, NEW S, Remove(S, q),
               "built" \in S => InstallStamps \subseteq S
        PROVE  FALSE
    <3>1. CASE q = p
      BY <1>1, <2>2, <2>3, <2>4, <3>1, RemoveStep
    <3>2. CASE q # p
      BY <1>1, <1>3, <2>2, <2>3, <2>4, <3>2, RemoveStep
    <3> QED BY <3>1, <3>2
  <2>5. ASSUME NEW q \in Packages,
               Uninstall(q) \/ Dirclean(q) \/ CleanForRebuild(q) \/ CleanForReconfigure(q)
        PROVE  FALSE
    <3>1. CASE Uninstall(q) \/ CleanForReconfigure(q)
      BY <2>4, <3>1 DEF Uninstall, CleanForReconfigure
    <3>2. CASE Dirclean(q)
      BY <2>4, <3>2 DEF Dirclean, Stamps
    <3>3. CASE CleanForRebuild(q)
      <4>1. Remove(FirstRebuildStamps(Len(RebuildStamps(q)), q), q)
        BY <3>3 DEF CleanForRebuild
      <4> QED BY <2>4, <4>1, RebuildStampsAll
    <3> QED BY <2>5, <3>1, <3>2, <3>3
  <2>6. ASSUME NEW q \in Packages, CleanPackage(q) PROVE FALSE
    BY <1>2, <2>6, RemovalGoal DEF CleanPackage, Ready
  <2>7. ~ CleanAll
    BY <1>3, <2>2 DEF CleanAll
  <2>8. ~ CutStep
    BY <1>2 DEF CutStep, Interrupted, CleanAllCut, DownloadCut, FetchCut, PatchCut, ConfigureCut,
         BuildCut, InstallCut, UninstallCut, CleanPackageCut, DircleanCut, CleanForRebuildCut, Fault
  <2>9. ASSUME NEW q \in Packages, DeleteStamp(q) PROVE FALSE
    BY <1>2, <2>9 DEF DeleteStamp, Idle
  <2>10. ASSUME UNCHANGED files \/ (\E q \in Packages : \E s : Touch(s, q)) PROVE FALSE
    BY <2>2, <2>10 DEF files, Touch
  <2>11. ~ UNCHANGED vars /\ ~ Descend /\ ~ UpToDate /\ \A g \in Goals : ~ Make(g)
    BY <2>10 DEF vars, Descend, UpToDate, Make
  <2>12. ASSUME NEW q \in Packages,
                \/ Download(q) \/ Extract(q) \/ Rsync(q) \/ Patch(q) \/ Configure(q) \/ Build(q)
                \/ (\E d \in Dests : Install(q, d)) \/ RsyncSource(q) \/ RecipeFails(q)
                \/ EditSources(q) \/ EditConfig(q)
         PROVE  FALSE
    BY <2>10, <2>12 DEF Download, Extract, Rsync, Patch, Configure, Build, Install, RsyncSource,
         RecipeFails, EditSources, EditConfig
  <2>13. ASSUME NEW q \in Packages, EditTree(q) PROVE FALSE
    BY <2>2, <2>13 DEF EditTree
  <2> QED
    BY <2>5, <2>6, <2>7, <2>8, <2>9, <2>11, <2>12, <2>13 DEF Next, MakeStep, UserStep
<1>5. CASE t \notin done
  <2>1. Ready(Top) /\ Return /\ Top = t
    BY <1>2, <1>5
  <2>2. CleanForRebuild(p)
    <3>1. ~ CutStep /\ ~ UserStep /\ ~ UNCHANGED vars /\ ~ Descend
      <4>1. done' # done
        BY <1>2, <1>5
      <4>2. ~ CutStep
        BY <1>2 DEF CutStep, Interrupted, CleanAllCut, DownloadCut, FetchCut, PatchCut,
             ConfigureCut, BuildCut, InstallCut, UninstallCut, CleanPackageCut, DircleanCut,
             CleanForRebuildCut, Fault
      <4>3. ~ UserStep
        BY <1>2, <4>1 DEF UserStep, Make, Idle, EditSources, EditTree, EditConfig, DeleteStamp,
             engine
      <4> QED BY <4>1, <4>2, <4>3 DEF vars, engine, Descend
    <3>2. ~ UpToDate /\ ~ CleanAll
      BY <2>1 DEF UpToDate, CleanAll, Ready, HasRecipe, Stamps, InstallStamps, PseudoStamps
    <3>3. ASSUME NEW q \in Packages,
                 \/ Download(q) \/ Extract(q) \/ Rsync(q) \/ Patch(q) \/ Configure(q) \/ Build(q)
                 \/ RsyncSource(q) \/ Uninstall(q) \/ CleanPackage(q) \/ Dirclean(q)
                 \/ CleanForReconfigure(q)
          PROVE  FALSE
      BY <2>1, <3>3 DEF Download, Extract, Rsync, Patch, Configure, Build, RsyncSource, Uninstall,
           CleanPackage, Dirclean, CleanForReconfigure, Runs, Ready
    <3>4. ASSUME NEW q \in Packages, NEW d \in Dests, Install(q, d) PROVE FALSE
      BY <2>1, <3>4, InstallStampDistinct DEF Install, Runs, Ready, InstallStamps
    <3>5. ASSUME NEW q \in Packages, RecipeFails(q) PROVE FALSE
      BY <1>2, <3>5 DEF RecipeFails
    <3>6. PICK q \in Packages : CleanForRebuild(q)
      BY <3>1, <3>2, <3>3, <3>4, <3>5 DEF Next, MakeStep
    <3>7. q = p
      BY <2>1, <3>6 DEF CleanForRebuild, Ready
    <3> QED BY <3>6, <3>7
  <2>3. Remove(FirstRebuildStamps(Len(RebuildStamps(p)), p), p)
    BY <2>2 DEF CleanForRebuild
  <2>4. {"built"} \union InstallStamps \subseteq FirstRebuildStamps(Len(RebuildStamps(p)), p)
    BY RebuildStampsAll
  <2>5. /\ stamps'[p] \intersect InstallStamps = {}
        /\ torn'[p] \intersect ({"built"} \union InstallStamps) = {}
    BY <1>1, <1>3, <2>3, <2>4, RemoveStep
  <2>6. p \notin stale'
    BY <2>3, <2>5 DEF Remove, Ages
  <2> QED BY <1>2, <2>5, <2>6
<1> QED BY <1>4, <1>5

\* A package whose install stamps never outlived .stamp_built, and that has no
\* stamp left by an interrupted removal of its files, has the same build in all
\* its destinations once it is installed.  foo-rebuild and foo-reconfigure bring
\* every package into that state, one whose foo-clean-for-rebuild was cut short
\* earlier (pkg-generic.mk:440-444) too; a plain "make foo" keeps it.
THEOREM DestinationsHoldOneBuild == Spec => DestinationsAgree
<1>1. Init => Aged /\ Agrees /\ Restarted
  BY DEF Init, Aged, Agrees, AgreesAt, Trusted, Restarted
<1>2. WalkInv /\ Aged /\ Agrees /\ Restarted /\ [Next]_vars => Aged' /\ Agrees' /\ Restarted'
  BY AgedStep, AgreesStep, RestartedStep DEF WalkInv, IInv
<1>3. ASSUME WalkInv, Agrees, Restarted, [Next]_vars, Succeeds,
             \/ goal[1] \in {"rebuild", "reconfigure"}
             \/ goal[1] = "pkg" /\ goal[2] \notin stale /\ torn[goal[2]] = {},
             NEW d \in InstallTo[goal[2]], NEW e \in InstallTo[goal[2]]
      PROVE  inst[goal[2]][d] = inst[goal[2]][e]
  <2> DEFINE p == goal[2]
  <2>1. /\ d \in Dests /\ InstallStamp[d] \in stamps[p]
        /\ e \in Dests /\ InstallStamp[e] \in stamps[p]
        /\ p \in Packages /\ goal = <<goal[1], p>> /\ goal # <<>>
        /\ \A i \in DOMAIN Prereqs(goal) : Prereqs(goal)[i] \in done
    BY <1>3, EndIsInstalled, GoalPair DEF Delivering
  <2>2. goal[1] # "pkg" => <<"clean-for-rebuild", p>> \in done
    <3>1. CASE goal[1] = "rebuild"
      <4>1. Prereqs(goal) = << <<"clean-for-rebuild", p>>, <<"pkg", p>> >>
        BY <3>1 DEF Prereqs
      <4> QED BY <2>1, <4>1
    <3>2. CASE goal[1] = "reconfigure"
      <4>1. Prereqs(goal) = << <<"clean-for-reconfigure", p>>, <<"pkg", p>> >>
        BY <3>2 DEF Prereqs
      <4>2. <<"clean-for-reconfigure", p>> \in done
        BY <2>1, <4>1
      <4>3. Prereqs(<<"clean-for-reconfigure", p>>) = << <<"clean-for-rebuild", p>> >>
        BY DEF Prereqs
      <4> QED BY <1>3, <4>2, <4>3 DEF WalkInv, IInv, EngineInv, DoneIsClosed
    <3> QED BY <1>3, <3>1, <3>2
  <2>3. p \notin stale /\ torn[p] \intersect ({"built"} \union InstallStamps) = {}
    BY <1>3, <2>1, <2>2 DEF Restarted
  <2> QED BY <1>3, <2>1, <2>3, InstallStampDistinct DEF Agrees, AgreesAt, Trusted
<1>4. WalkInv /\ Agrees /\ Restarted /\ [Next]_vars =>
        [/\ Succeeds
         /\ \/ goal[1] \in {"rebuild", "reconfigure"}
            \/ goal[1] = "pkg" /\ goal[2] \notin stale /\ torn[goal[2]] = {}
         => \A d, e \in InstallTo[goal[2]] : inst[goal[2]][d] = inst[goal[2]][e]]_vars
  BY <1>3
<1> QED BY <1>1, <1>2, <1>4, WalkAlways, PTL DEF Spec, DestinationsAgree

-----------------------------------------------------------------------------
(* A rebuild delivers what was there when make started *)

\* The stamps that foo-clean-for-rebuild removes.
Late == {"rsynced", "built"} \union InstallStamps

\* The removals that the goal starts with are over; foo-reconfigure has two.
Cleared(p) ==
  /\ goal[1] = "rebuild" => <<"clean-for-rebuild", p>> \in done
  /\ goal[1] = "reconfigure" => <<"clean-for-reconfigure", p>> \in done

HalfCleared(p) ==
  /\ goal[1] = "reconfigure"
  /\ <<"clean-for-rebuild", p>> \in done
  /\ <<"clean-for-reconfigure", p>> \notin done

NewEnough(v) == v.src >= want.src /\ v.conf >= want.conf

\* The sources that were there when make started still are, or will be extracted.
SourceThere(p) ==
  IF p \in Overrides THEN srcdir[p] >= want.src
  ELSE IF "extracted" \in stamps[p] THEN tree[p].src >= want.src
  ELSE want.src <= 1

\* What has a stamp is as new as what was there when make started.
Current(p) ==
  /\ "rsynced" \in stamps[p] => tree[p].src >= want.src
  /\ "configured" \in stamps[p] => tree[p].conf >= want.conf
  /\ "built" \in stamps[p] => NewEnough(tree[p].obj)
  /\ \A d \in Dests : InstallStamp[d] \in stamps[p] => NewEnough(inst[p][d])

DeliveryOf(p) ==
  /\ goal[1] \notin Delivering => want = None
  /\ goal[1] = "rebuild" => want.conf = 0
  /\ cfg[p] >= want.conf
  /\ SourceThere(p)
  /\ Cleared(p) => Current(p)
  /\ HalfCleared(p) => stamps[p] \intersect Late = {}

Delivery == \A p \in Packages : goal # <<>> /\ goal[2] = p => DeliveryOf(p)

\* The fields of versions are numbers.
LEMMA VersionNumbers ==
  ASSUME TypeOK, NEW p \in Packages
  PROVE  /\ want.src \in Nat /\ want.conf \in Nat
         /\ srcdir[p] \in Nat \ {0} /\ cfg[p] \in Nat \ {0}
         /\ tree[p].src \in Nat /\ tree[p].conf \in Nat
         /\ tree[p].obj.src \in Nat /\ tree[p].obj.conf \in Nat
         /\ \A d \in Dests : inst[p][d].src \in Nat /\ inst[p][d].conf \in Nat
<1>1. MaxGen \in Nat \ {0}
  BY ConstantsAssumption
<1>2. \A v \in Version : v.src \in Nat /\ v.conf \in Nat
  BY <1>1 DEF Version
<1>3. want \in Version /\ tree[p] \in Tree /\ \A d \in Dests : inst[p][d] \in Version
  BY DEF TypeOK
<1>4. tree[p].obj \in Version /\ tree[p].src \in Nat /\ tree[p].conf \in Nat
  BY <1>1, <1>3 DEF Tree
<1>5. srcdir[p] \in Nat \ {0} /\ cfg[p] \in Nat \ {0}
  BY <1>1 DEF TypeOK
<1> QED BY <1>2, <1>3, <1>4, <1>5

\* A goal that promises nothing delivers it.
LEMMA NothingWanted ==
  ASSUME TypeOK, NEW p \in Packages, want = None
  PROVE  SourceThere(p) /\ Current(p) /\ cfg[p] >= want.conf
<1>1. want.src = 0 /\ want.conf = 0
  BY DEF None
<1>2. SourceThere(p)
  BY <1>1, VersionNumbers DEF SourceThere
<1>3. Current(p)
  BY <1>1, VersionNumbers DEF Current, NewEnough
<1> QED BY <1>1, <1>2, <1>3, VersionNumbers

\* The first targets above the goal.
LEMMA FirstAbove ==
  ASSUME NEW n \in Nat \ {0}
  PROVE  /\ n # 1 => 2 \in 2..n
         /\ n \notin {1, 2} => 3 \in 2..n
         /\ n \notin {1, 2, 3} => 4 \in 2..n
         /\ 2 - 1 = 1 /\ 3 - 1 = 2 /\ 4 - 1 = 3
  OBVIOUS

\* Until foo-reconfigure has removed its stamps nothing but removals runs.
LEMMA RemovalsBefore ==
  ASSUME WalkInv, stack # <<>>, NEW p \in Packages, goal = <<"reconfigure", p>>,
         <<"clean-for-reconfigure", p>> \notin done
  PROVE  Top[1] \in {"reconfigure", "clean-for-reconfigure", "clean-for-rebuild"}
<1>1. TypeOK /\ EngineInv /\ stack[1] = goal /\ Len(stack) \in Nat \ {0}
  BY TypeParts, TopType DEF WalkInv, IInv, GoalBelow
<1>2. CASE Len(stack) = 1
  BY <1>1, <1>2 DEF Top
<1>3. CASE Len(stack) # 1
  <2>1. 2 \in 2..Len(stack)
    BY <1>1, <1>3, FirstAbove
  <2>2. PICK j : Reason(stack[1], j, stack[2])
    BY <1>1, <2>1, WhyConsidered, FirstAbove
  <2>3. Prereqs(goal) = << <<"clean-for-reconfigure", p>>, <<"pkg", p>> >>
    BY DEF Prereqs
  <2>4. stack[2] = <<"clean-for-reconfigure", p>>
    <3>1. j = 1 \/ j = 2
      BY <1>1, <2>2, <2>3 DEF Reason
    <3>2. j # 2
      BY <1>1, <2>2, <2>3 DEF Reason
    <3> QED BY <1>1, <2>2, <2>3, <3>1, <3>2 DEF Reason
  <2>5. CASE Len(stack) = 2
    BY <2>4, <2>5 DEF Top
  <2>6. CASE Len(stack) # 2
    <3>1. 3 \in 2..Len(stack)
      BY <1>1, <1>3, <2>6, FirstAbove
    <3>2. PICK k : Reason(stack[2], k, stack[3])
      BY <1>1, <3>1, WhyConsidered, FirstAbove
    <3>3. Prereqs(stack[2]) = << <<"clean-for-rebuild", p>> >>
      BY <2>4 DEF Prereqs
    <3>4. stack[3] = <<"clean-for-rebuild", p>>
      BY <3>2, <3>3 DEF Reason
    <3>5. CASE Len(stack) = 3
      BY <3>4, <3>5 DEF Top
    <3>6. CASE Len(stack) # 3
      <4>1. 4 \in 2..Len(stack)
        BY <1>1, <1>3, <2>6, <3>6, FirstAbove
      <4>2. PICK h : Reason(stack[3], h, stack[4])
        BY <1>1, <4>1, WhyConsidered, FirstAbove
      <4>3. Prereqs(stack[3]) = <<>>
        BY <3>4 DEF Prereqs
      <4> QED BY <4>2, <4>3 DEF Reason
    <3> QED BY <3>5, <3>6
  <2> QED BY <2>5, <2>6
<1> QED BY <1>2, <1>3

\* What a step may do to the walk while make goes on with the same goal.
GoesOn == /\ goal # <<>> /\ goal' = goal /\ want' = want
          /\ done' = done \/ done' = done \union {Top}

LEMMA GoingOn ==
  ASSUME TypeOK, GoalBelow, [Next]_vars, goal # <<>>, goal' # <<>>
  PROVE  GoesOn
<1>1. stack # <<>>
  BY DEF GoalBelow
<1>2. ~ (\E g \in Goals : Make(g))
  BY <1>1 DEF Make, Idle
<1>3. ~ Abort
  BY DEF Abort
<1>4. CASE UNCHANGED engine
  BY <1>4 DEF engine, GoesOn
<1>5. CASE Descend
  BY <1>5 DEF Descend, GoesOn
<1>6. CASE Return
  BY <1>6 DEF Return, GoesOn
<1> QED BY <1>2, <1>3, <1>4, <1>5, <1>6, EngineMoves

LEMMA SameStage ==
  ASSUME NEW p, GoesOn,
         \/ Top[1] \notin {"clean-for-rebuild", "clean-for-reconfigure"}
         \/ Top[2] # p
         \/ done' = done
  PROVE  (Cleared(p)' <=> Cleared(p)) /\ (HalfCleared(p)' <=> HalfCleared(p))
<1>1. \A k \in {"clean-for-rebuild", "clean-for-reconfigure"} :
        <<k, p>> \in done' <=> <<k, p>> \in done
  BY DEF GoesOn
<1> QED BY <1>1 DEF GoesOn, Cleared, HalfCleared

\* The parts of Delivery that a step can disturb.
LEMMA DeliveryKept ==
  ASSUME Delivery, GoesOn, NEW p \in Packages, goal[2] = p, cfg' = cfg,
         SourceThere(p)',
         Cleared(p)' => Current(p)',
         HalfCleared(p)' => stamps'[p] \intersect Late = {}
  PROVE  Delivery'
<1>1. DeliveryOf(p)
  BY DEF Delivery, GoesOn
<1>2. DeliveryOf(p)'
  BY <1>1 DEF DeliveryOf, GoesOn
<1> QED BY <1>2 DEF Delivery, GoesOn

\* A step that leaves the files of the package alone.
LEMMA DeliveryElsewhere ==
  ASSUME TypeOK, Delivery, GoesOn, NEW p \in Packages, goal[2] = p, cfg' = cfg,
         stamps'[p] = stamps[p], tree'[p] = tree[p], inst'[p] = inst[p],
         srcdir'[p] \in Nat /\ srcdir'[p] >= srcdir[p],
         \/ Top[1] \notin {"clean-for-rebuild", "clean-for-reconfigure"}
         \/ Top[2] # p
         \/ done' = done
  PROVE  Delivery'
<1>1. DeliveryOf(p) /\ want' = want
  BY DEF Delivery, GoesOn
<1>2. SourceThere(p)'
  <2>1. want.src \in Nat /\ srcdir[p] \in Nat
    BY VersionNumbers
  <2> QED BY <1>1, <2>1 DEF DeliveryOf, SourceThere
<1>3. Current(p) => Current(p)'
  BY <1>1 DEF Current, NewEnough
<1> QED BY <1>1, <1>2, <1>3, SameStage, DeliveryKept DEF DeliveryOf

\* A stamp of an earlier step.
LEMMA DeliveryEarly ==
  ASSUME WalkInv, Delivery, GoesOn, NEW p \in Packages, goal[2] = p,
         Download(p) \/ Extract(p) \/ Rsync(p) \/ Patch(p) \/ Configure(p)
  PROVE  Delivery'
<1>1. /\ TypeOK /\ EngineInv /\ StampOrder /\ GoalBelow
      /\ DeliveryOf(p) /\ want' = want /\ goal \in Goals
  BY DEF Delivery, GoesOn, WalkInv, IInv, TypeOK
<1>2. PICK s \in {"downloaded", "extracted", "rsynced", "patched", "configured"} :
        Runs(s, p) /\ Touch(s, p)
  BY DEF Download, Extract, Rsync, Patch, Configure
<1>3. /\ stack # <<>> /\ Top = <<s, p>> /\ s \notin stamps[p]
      /\ stamps'[p] = stamps[p] \union {s}
  BY <1>1, <1>2, TouchStep DEF Runs, Ready
<1>4. (Cleared(p)' <=> Cleared(p)) /\ (HalfCleared(p)' <=> HalfCleared(p))
  BY <1>3, SameStage
<1>5. /\ inst' = inst /\ cfg' = cfg /\ srcdir' = srcdir /\ tree'[p].obj = tree[p].obj
      /\ s # "configured" => tree'[p].conf = tree[p].conf
      /\ s \notin {"extracted", "rsynced"} => tree'[p].src = tree[p].src
  <2>1. /\ inst' = inst /\ UNCHANGED user
        /\ s = "downloaded" => tree' = tree
        /\ s = "extracted" => tree' = [tree EXCEPT ![p] = WithSources(tree[p], 1)]
        /\ s = "rsynced" => tree' = [tree EXCEPT ![p].src = srcdir[p]]
        /\ s = "patched" => tree' = [tree EXCEPT ![p].patches = NPatches[p]]
        /\ s = "configured" => tree' = [tree EXCEPT ![p].conf = cfg[p]]
    BY <1>3 DEF Download, Extract, Rsync, Patch, Configure, Runs, Ready
  <2>2. WithSources(tree[p], 1).obj = tree[p].obj /\ WithSources(tree[p], 1).conf = tree[p].conf
    BY DEF WithSources
  <2>3. tree \in [Packages -> Tree]
    BY <1>1 DEF TypeOK
  <2>4. inst' = inst /\ cfg' = cfg /\ srcdir' = srcdir
    BY <2>1 DEF user
  <2> QED BY <2>1, <2>2, <2>3, <2>4 DEF Tree
<1>6. /\ s = "extracted" => tree'[p].src = 1 /\ p \notin Overrides
      /\ s = "rsynced" => tree'[p].src = srcdir[p] /\ p \in Overrides
      /\ s = "configured" => tree'[p].conf = cfg[p]
  <2>1. CASE s = "extracted"
    <3>1. tree' = [tree EXCEPT ![p] = WithSources(tree[p], 1)]
      BY <1>3, <2>1 DEF Download, Extract, Rsync, Patch, Configure, Runs, Ready
    <3> QED BY <1>1, <1>3, <2>1, <3>1, TopContext DEF WithSources, TypeOK
  <2>2. CASE s = "rsynced"
    <3>1. tree' = [tree EXCEPT ![p].src = srcdir[p]]
      BY <1>3, <2>2 DEF Download, Extract, Rsync, Patch, Configure, Runs, Ready
    <3>2. tree \in [Packages -> Tree]
      BY <1>1 DEF TypeOK
    <3> QED BY <1>1, <1>3, <2>2, <3>1, <3>2, TopContext DEF Tree
  <2>3. CASE s = "configured"
    <3>1. tree' = [tree EXCEPT ![p].conf = cfg[p]]
      BY <1>3, <2>3 DEF Download, Extract, Rsync, Patch, Configure, Runs, Ready
    <3>2. tree \in [Packages -> Tree]
      BY <1>1 DEF TypeOK
    <3> QED BY <2>3, <3>1, <3>2 DEF Tree
  <2> QED BY <2>1, <2>2, <2>3
<1>7. SourceThere(p)'
  <2>1. want.src \in Nat
    BY <1>1, VersionNumbers
  <2>2. CASE p \in Overrides
    BY <1>1, <1>5, <2>2 DEF DeliveryOf, SourceThere
  <2>3. CASE p \notin Overrides
    <3>1. CASE s = "extracted"
      BY <1>1, <1>3, <1>6, <2>1, <2>3, <3>1 DEF DeliveryOf, SourceThere
    <3>2. CASE s # "extracted"
      BY <1>1, <1>3, <1>5, <1>6, <2>3, <3>2 DEF DeliveryOf, SourceThere
    <3> QED BY <3>1, <3>2
  <2> QED BY <2>2, <2>3
<1>8. Cleared(p)' => Current(p)'
  <2> SUFFICES ASSUME Cleared(p) PROVE Current(p)'
    BY <1>4
  <2>1. Current(p)
    BY <1>1 DEF DeliveryOf
  <2>2. "rsynced" \in stamps'[p] => tree'[p].src >= want'.src
    <3>1. CASE s = "rsynced"
      BY <1>1, <1>6, <3>1 DEF DeliveryOf, SourceThere
    <3>2. CASE s # "rsynced"
      <4>1. s = "extracted" => "rsynced" \notin stamps[p]
        BY <1>1, <1>6 DEF StampOrder
      <4> QED BY <1>1, <1>3, <1>5, <2>1, <3>2, <4>1 DEF Current
    <3> QED BY <3>1, <3>2
  <2>3. "configured" \in stamps'[p] => tree'[p].conf >= want'.conf
    BY <1>1, <1>3, <1>5, <1>6, <2>1 DEF Current, DeliveryOf
  <2>4. "built" \in stamps'[p] => NewEnough(tree[p].obj)
    BY <1>3, <2>1 DEF Current
  <2>5. \A d \in Dests : InstallStamp[d] \in stamps'[p] => NewEnough(inst[p][d])
    BY <1>3, <2>1, InstallStampDistinct DEF Current, InstallStamps
  <2> QED BY <1>1, <1>5, <2>2, <2>3, <2>4, <2>5 DEF Current, NewEnough
<1>9. HalfCleared(p)' => stamps'[p] \intersect Late = {}
  <2> SUFFICES ASSUME HalfCleared(p) PROVE stamps'[p] \intersect Late = {}
    BY <1>4
  <2>1. stamps[p] \intersect Late = {}
    BY <1>1 DEF DeliveryOf
  <2>2. goal = <<"reconfigure", p>>
    BY <1>1, GoalPair DEF HalfCleared
  <2>3. Top[1] \in {"reconfigure", "clean-for-reconfigure", "clean-for-rebuild"}
    BY <1>3, <2>2, RemovalsBefore DEF HalfCleared
  <2> QED BY <1>3, <2>3
<1> QED BY <1>5, <1>7, <1>8, <1>9, DeliveryKept

\* A build or an installation: what it takes is current.
LEMMA DeliveryLate ==
  ASSUME WalkInv, Delivery, GoesOn, NEW p \in Packages, goal[2] = p,
         Build(p) \/ \E d \in Dests : Install(p, d)
  PROVE  Delivery'
<1>1. /\ TypeOK /\ EngineInv /\ StampOrder /\ GoalBelow
      /\ DeliveryOf(p) /\ want' = want /\ goal \in Goals
  BY DEF Delivery, GoesOn, WalkInv, IInv, TypeOK
<1>2. PICK s \in {"built"} \union InstallStamps : Runs(s, p) /\ Touch(s, p)
  BY InstallStampDistinct DEF Build, Install
<1>3. /\ stack # <<>> /\ Top = <<s, p>> /\ s \notin stamps[p]
      /\ stamps'[p] = stamps[p] \union {s}
  BY <1>1, <1>2, TouchStep DEF Runs, Ready
<1>4. (Cleared(p)' <=> Cleared(p)) /\ (HalfCleared(p)' <=> HalfCleared(p))
  BY <1>3, SameStage DEF InstallStamps
<1>5. /\ cfg' = cfg /\ srcdir' = srcdir
      /\ tree'[p].src = tree[p].src /\ tree'[p].conf = tree[p].conf
  <2>1. UNCHANGED user
    BY DEF Build, Install
  <2>2. CASE Build(p)
    <3>1. tree' = [tree EXCEPT ![p].obj = [src |-> tree[p].src, conf |-> tree[p].conf]]
      BY <2>2 DEF Build, Compiled
    <3>2. tree \in [Packages -> Tree]
      BY <1>1 DEF TypeOK
    <3> QED BY <2>1, <3>1, <3>2 DEF Tree, user
  <2>3. CASE \E d \in Dests : Install(p, d)
    BY <2>1, <2>3 DEF Install, user
  <2> QED BY <2>2, <2>3
<1>6. SourceThere(p)'
  BY <1>1, <1>3, <1>5 DEF DeliveryOf, SourceThere, InstallStamps
<1>7. ASSUME HalfCleared(p)' PROVE stamps'[p] \intersect Late = {}
  <2>1. HalfCleared(p)
    BY <1>4, <1>7
  <2>2. goal = <<"reconfigure", p>>
    BY <1>1, <2>1, GoalPair DEF HalfCleared
  <2>3. Top[1] \in {"reconfigure", "clean-for-reconfigure", "clean-for-rebuild"}
    BY <1>3, <2>1, <2>2, RemovalsBefore DEF HalfCleared
  <2> QED BY <1>3, <2>3 DEF InstallStamps
<1>8. ASSUME Cleared(p)' PROVE Current(p)'
  <2>1. Current(p)
    BY <1>1, <1>4, <1>8 DEF DeliveryOf
  <2>2. CASE Build(p)
    <3>1. s = "built" /\ inst' = inst
      <4>1. Top = <<"built", p>> /\ inst' = inst
        BY <2>2 DEF Build, Runs, Ready
      <4> QED BY <1>3, <4>1
    <3>2. /\ "configured" \in stamps[p]
          /\ p \in Overrides => "rsynced" \in stamps[p]
          /\ p \notin Overrides => "extracted" \in stamps[p]
      BY <1>3, <3>1, StampsBefore
    <3>3. tree[p].src >= want.src /\ tree[p].conf >= want.conf
      BY <1>1, <2>1, <3>2 DEF Current, DeliveryOf, SourceThere
    <3>4. tree'[p].obj = [src |-> tree[p].src, conf |-> tree[p].conf]
      <4>1. tree' = [tree EXCEPT ![p].obj = [src |-> tree[p].src, conf |-> tree[p].conf]]
        BY <2>2 DEF Build, Compiled
      <4>2. tree \in [Packages -> Tree]
        BY <1>1 DEF TypeOK
      <4> QED BY <4>1, <4>2 DEF Tree
    <3>5. NewEnough(tree'[p].obj)
      BY <3>3, <3>4 DEF NewEnough
    <3>6. \A d \in Dests : InstallStamp[d] \in stamps'[p] => InstallStamp[d] \in stamps[p]
      BY <1>3, <3>1, InstallStampDistinct DEF InstallStamps
    <3> QED BY <1>1, <1>3, <1>5, <2>1, <3>1, <3>5, <3>6 DEF Current, NewEnough
  <2>3. ASSUME NEW d \in Dests, Install(p, d) PROVE Current(p)'
    <3>1. s = InstallStamp[d] /\ tree' = tree /\ s \in InstallStamps
      <4>1. Top = <<InstallStamp[d], p>> /\ tree' = tree
        BY <2>3 DEF Install, Runs, Ready
      <4> QED BY <1>3, <4>1, InstallStampDistinct
    <3>2. NewEnough(tree[p].obj)
      BY <1>3, <2>1, <3>1, StampsBefore DEF Current
    <3>3. inst'[p][d] = tree[p].obj /\ \A e \in Dests \ {d} : inst'[p][e] = inst[p][e]
      <4>1. inst' = [inst EXCEPT ![p][d] = tree[p].obj]
        BY <2>3 DEF Install
      <4> QED BY <1>1, <4>1 DEF TypeOK
    <3>4. \A e \in Dests : InstallStamp[e] \in stamps'[p] => NewEnough(inst'[p][e])
      <4> SUFFICES ASSUME NEW e \in Dests, InstallStamp[e] \in stamps'[p]
                   PROVE  NewEnough(inst'[p][e])
        OBVIOUS
      <4>1. CASE e = d
        BY <3>2, <3>3, <4>1
      <4>2. CASE e # d
        <5>1. InstallStamp[e] \in stamps[p]
          BY <1>3, <3>1, <4>2, InstallStampDistinct
        <5> QED BY <2>1, <3>3, <4>2, <5>1 DEF Current
      <4> QED BY <4>1, <4>2
    <3> QED BY <1>1, <1>3, <2>1, <3>1, <3>4 DEF Current, NewEnough, InstallStamps
  <2> QED BY <2>2, <2>3
<1> QED BY <1>5, <1>6, <1>7, <1>8, DeliveryKept

\* Removing stamps keeps what the others promise.
LEMMA FewerStamps ==
  ASSUME WalkInv, Delivery, GoesOn, NEW p \in Packages, goal[2] = p,
         cfg' = cfg, srcdir' = srcdir,
         tree'[p].src = tree[p].src, tree'[p].conf = tree[p].conf,
         stamps'[p] \subseteq stamps[p],
         "extracted" \in stamps[p] => "extracted" \in stamps'[p],
         "built" \in stamps'[p] => tree'[p].obj = tree[p].obj,
         \A d \in Dests : InstallStamp[d] \in stamps'[p] => inst'[p][d] = inst[p][d]
  PROVE  /\ SourceThere(p)'
         /\ Current(p) => Current(p)'
         /\ stamps[p] \intersect Late = {} => stamps'[p] \intersect Late = {}
<1>1. DeliveryOf(p) /\ want' = want
  BY DEF Delivery, GoesOn
<1>2. SourceThere(p)'
  BY <1>1 DEF DeliveryOf, SourceThere
<1>3. ASSUME Current(p) PROVE Current(p)'
  <2>1. "built" \in stamps'[p] => NewEnough(tree'[p].obj)
    BY <1>3 DEF Current
  <2>2. \A d \in Dests : InstallStamp[d] \in stamps'[p] => NewEnough(inst'[p][d])
    BY <1>3 DEF Current
  <2> QED BY <1>1, <1>3, <2>1, <2>2 DEF Current, NewEnough
<1> QED BY <1>2, <1>3

\* The removals of the package itself: foo-uninstall, foo-clean, foo-dirclean
\* and the first step of foo-rebuild and foo-reconfigure.
LEMMA DeliveryRemoved ==
  ASSUME WalkInv, Delivery, GoesOn, NEW p \in Packages, goal[2] = p,
         \/ Uninstall(p) \/ CleanPackage(p) \/ Dirclean(p)
         \/ CleanForRebuild(p) \/ CleanForReconfigure(p)
  PROVE  Delivery'
<1>1. /\ TypeOK /\ EngineInv /\ StampOrder /\ GoalBelow
      /\ DeliveryOf(p) /\ want' = want /\ goal' = goal /\ goal \in Goals
  BY DEF Delivery, GoesOn, WalkInv, IInv, TypeOK
<1>2. want.src \in Nat /\ want.conf \in Nat /\ tree[p].conf \in Nat
  BY <1>1, VersionNumbers
<1>3. cfg' = cfg /\ srcdir' = srcdir
  BY DEF Uninstall, CleanPackage, Dirclean, CleanForRebuild, CleanForReconfigure, user
<1>4. CASE Uninstall(p)
  <2>1. /\ Remove({"staging_installed", "target_installed"}, p) /\ tree' = tree
        /\ inst' = [inst EXCEPT ![p] = Without({"staging", "target"}, inst[p])]
        /\ Top = <<"uninstalled", p>>
    BY <1>4 DEF Uninstall, Ready
  <2>2. stamps'[p] = stamps[p] \ {"staging_installed", "target_installed"}
    BY <1>1, <2>1, RemoveStep
  <2>3. \A d \in Dests : InstallStamp[d] \in stamps'[p] => inst'[p][d] = inst[p][d]
    BY <1>1, <2>1, <2>2, InstallStampFact DEF Without, TypeOK
  <2>4. (Cleared(p)' <=> Cleared(p)) /\ (HalfCleared(p)' <=> HalfCleared(p))
    BY <2>1, SameStage
  <2>5. /\ SourceThere(p)' /\ (Current(p) => Current(p)')
        /\ stamps[p] \intersect Late = {} => stamps'[p] \intersect Late = {}
    BY <1>3, <2>1, <2>2, <2>3, FewerStamps
  <2> QED BY <1>1, <1>3, <2>4, <2>5, DeliveryKept DEF DeliveryOf
<1>5. CASE CleanPackage(p)
  <2>1. /\ Remove({"built"}, p) /\ tree' = [tree EXCEPT ![p].obj = None] /\ inst' = inst
        /\ Top = <<"cleaned", p>>
    BY <1>5 DEF CleanPackage, Ready
  <2>2. stamps'[p] = stamps[p] \ {"built"}
    BY <1>1, <2>1, RemoveStep
  <2>3. tree'[p].src = tree[p].src /\ tree'[p].conf = tree[p].conf
    <3>1. tree \in [Packages -> Tree]
      BY <1>1 DEF TypeOK
    <3> QED BY <2>1, <3>1 DEF Tree
  <2>4. (Cleared(p)' <=> Cleared(p)) /\ (HalfCleared(p)' <=> HalfCleared(p))
    BY <2>1, SameStage
  <2>5. /\ SourceThere(p)' /\ (Current(p) => Current(p)')
        /\ stamps[p] \intersect Late = {} => stamps'[p] \intersect Late = {}
    BY <1>3, <2>1, <2>2, <2>3, FewerStamps
  <2> QED BY <1>1, <1>3, <2>4, <2>5, DeliveryKept DEF DeliveryOf
<1>6. CASE Dirclean(p)
  <2>1. Remove(Stamps, p) /\ stack # <<>> /\ Top[1] = "dircleaned"
    BY <1>6 DEF Dirclean, Ready
  <2>2. stamps'[p] = {}
    BY <1>1, <2>1, RemoveStep DEF TypeOK
  <2>3. want.src = 0
    <3>1. goal[1] = "dirclean"
      BY <2>1, RemovalGoal
    <3> QED BY <1>1, <3>1 DEF DeliveryOf, Delivering, None
  <2>4. SourceThere(p)'
    BY <1>1, <1>3, <2>2, <2>3 DEF DeliveryOf, SourceThere
  <2>5. Current(p)'
    BY <2>2 DEF Current
  <2> QED BY <1>3, <2>2, <2>4, <2>5, DeliveryKept
<1>7. CASE CleanForRebuild(p)
  <2> DEFINE All == FirstRebuildStamps(Len(RebuildStamps(p)), p)
  <2>1. Remove(All, p) /\ tree' = tree /\ inst' = inst /\ Top = <<"clean-for-rebuild", p>>
    BY <1>7 DEF CleanForRebuild, Ready
  <2>2. All \subseteq Late
    BY RebuildStampsRange, RebuildStampsLength DEF Late
  <2>3. Late \ All \subseteq {"rsynced"} /\ (p \in Overrides => "rsynced" \in All)
    BY RebuildStampsAll DEF Late
  <2> HIDE DEF All
  <2>4. stamps'[p] = stamps[p] \ All
    BY <1>1, <2>1, RemoveStep
  <2>5. stamps'[p] \intersect Late = {}
    BY <1>1, <2>3, <2>4 DEF StampOrder
  <2>6. SourceThere(p)' /\ (Current(p) => Current(p)')
    <3>1. "extracted" \in stamps[p] => "extracted" \in stamps'[p]
      BY <2>2, <2>4 DEF Late, InstallStamps
    <3> QED BY <1>3, <2>1, <2>4, <3>1, FewerStamps
  <2>7. ASSUME Cleared(p)' PROVE Current(p)'
    <3>1. CASE goal[1] = "rebuild"
      <4>1. want.conf = 0
        BY <1>1, <3>1 DEF DeliveryOf
      <4> QED BY <1>1, <1>2, <2>1, <2>5, <4>1, InstallStampDistinct DEF Current, Late
    <3>2. CASE goal[1] # "rebuild"
      <4>1. Cleared(p)
        BY <1>1, <2>1, <2>7, <3>2 DEF Cleared, GoesOn
      <4> QED BY <1>1, <2>6, <4>1 DEF DeliveryOf
    <3> QED BY <3>1, <3>2
  <2> QED BY <1>3, <2>5, <2>6, <2>7, DeliveryKept
<1>8. CASE CleanForReconfigure(p)
  <2>1. /\ Remove({"configured"}, p) /\ tree' = tree /\ inst' = inst
        /\ <<"clean-for-rebuild", p>> \in done
    <3>1. Prereqs(<<"clean-for-reconfigure", p>>) = << <<"clean-for-rebuild", p>> >>
      BY DEF Prereqs
    <3> QED BY <1>8, <3>1 DEF CleanForReconfigure, Ready
  <2>2. stamps'[p] = stamps[p] \ {"configured"}
    BY <1>1, <2>1, RemoveStep
  <2>3. /\ SourceThere(p)' /\ (Current(p) => Current(p)')
        /\ stamps[p] \intersect Late = {} => stamps'[p] \intersect Late = {}
    BY <1>3, <2>1, <2>2, FewerStamps
  <2>4. Cleared(p) \/ HalfCleared(p)
    BY <2>1 DEF Cleared, HalfCleared
  <2>5. Current(p)'
    <3>1. CASE Cleared(p)
      BY <1>1, <2>3, <3>1 DEF DeliveryOf
    <3>2. CASE HalfCleared(p)
      BY <1>1, <2>2, <3>2, InstallStampDistinct DEF DeliveryOf, Current, Late
    <3> QED BY <2>4, <3>1, <3>2
  <2>6. HalfCleared(p)' => HalfCleared(p)
    BY <1>1, <2>1 DEF HalfCleared, GoesOn
  <2> QED BY <1>1, <1>3, <2>3, <2>5, <2>6, DeliveryKept DEF DeliveryOf
<1> QED BY <1>4, <1>5, <1>6, <1>7, <1>8

\* foo-clean of the whole tree is a goal of its own.
LEMMA CleanAllEnds ==
  ASSUME TypeOK, EngineInv, GoalBelow, CleanAll
  PROVE  goal' = <<>>
<1>1. stack # <<>> /\ Top = <<"top-clean", Toolchain>> /\ Return
  BY DEF CleanAll, Ready
<1>2. Len(stack) \in 1..Len(stack) /\ Top = stack[Len(stack)]
  <2>1. Len(stack) \in Nat \ {0}
    BY <1>1, TypeParts, TopType
  <2> QED BY <2>1 DEF Top
<1>3. stack[Len(stack)][1] \in NoPrerequisite
  BY <1>1, <1>2 DEF NoPrerequisite
<1>4. Len(stack) = 1
  BY <1>2, <1>3, OnlyTheGoal
<1> QED BY <1>1, <1>4 DEF Return

\* A new goal: what is there is what make has to deliver.
LEMMA DeliveryStarts ==
  ASSUME TypeOK, NEW g \in Goals, Make(g)
  PROVE  Delivery'
<1> DEFINE p == g[2]
           scratch == g[1] = "pkg" /\ stamps[p] = {}
<1>1. p \in Packages /\ g # <<>>
  BY GoalPair
<1>2. /\ goal' = g /\ done' = {} /\ UNCHANGED <<stamps, tree, inst, srcdir, cfg>>
      /\ want' = [src  |-> IF scratch \/ g[1] \in {"rebuild", "reconfigure"}
                           THEN CurrentSrc(p) ELSE 0,
                  conf |-> IF scratch \/ g[1] = "reconfigure" THEN cfg[p] ELSE 0]
  BY DEF Make, files, user
<1>3. /\ srcdir[p] \in Nat \ {0} /\ cfg[p] \in Nat \ {0}
      /\ tree[p].src \in Nat /\ tree[p].conf \in Nat
      /\ tree[p].obj.src \in Nat /\ tree[p].obj.conf \in Nat
      /\ \A d \in Dests : inst[p][d].src \in Nat /\ inst[p][d].conf \in Nat
  BY <1>1, VersionNumbers
<1>4. want'.src \in {0, CurrentSrc(p)} /\ want'.conf \in {0, cfg[p]}
  BY <1>2
<1>5. g[1] \notin Delivering => want' = None
  BY <1>2 DEF Delivering, None
<1>6. g[1] = "rebuild" => want'.conf = 0
  BY <1>2
<1>7. g[1] = "pkg" /\ stamps[p] # {} => want'.src = 0 /\ want'.conf = 0
  BY <1>2
<1> HIDE DEF p, scratch
<1>8. cfg'[p] >= want'.conf
  BY <1>2, <1>3, <1>4
<1>9. SourceThere(p)'
  <2>1. CASE want'.src = 0
    BY <1>2, <1>3, <2>1 DEF SourceThere
  <2>2. CASE want'.src = CurrentSrc(p)
    BY <1>2, <1>3, <2>2 DEF SourceThere, CurrentSrc
  <2> QED BY <1>4, <2>1, <2>2
<1>10. ASSUME Cleared(p)' PROVE Current(p)'
  <2>1. g[1] \notin {"rebuild", "reconfigure"}
    BY <1>2, <1>10 DEF Cleared
  <2>2. CASE stamps[p] = {}
    BY <1>2, <2>2 DEF Current
  <2>3. CASE stamps[p] # {}
    <3>1. want'.src = 0 /\ want'.conf = 0
      BY <1>5, <1>7, <2>1, <2>3 DEF Delivering, None
    <3> QED BY <1>2, <1>3, <3>1 DEF Current, NewEnough
  <2> QED BY <2>2, <2>3
<1>11. ~ HalfCleared(p)'
  BY <1>2 DEF HalfCleared
<1>12. DeliveryOf(p)'
  BY <1>2, <1>5, <1>6, <1>8, <1>9, <1>10, <1>11 DEF DeliveryOf
<1> QED BY <1>2, <1>12 DEF Delivery, p

\* The recipes of another package leave this one alone.
LEMMA OtherPackage ==
  ASSUME TypeOK, NEW p \in Packages, NEW q \in Packages \ {p},
         \/ Download(q) \/ Extract(q) \/ Rsync(q) \/ Patch(q) \/ Configure(q) \/ Build(q)
         \/ \E d \in Dests : Install(q, d)
         \/ Uninstall(q) \/ CleanPackage(q) \/ Dirclean(q)
         \/ CleanForRebuild(q) \/ CleanForReconfigure(q)
  PROVE  /\ stamps'[p] = stamps[p] /\ tree'[p] = tree[p] /\ inst'[p] = inst[p]
         /\ UNCHANGED user /\ Top[2] # p
<1>1. (\E s : Touch(s, q)) \/ (\E S : Remove(S, q))
  BY DEF Download, Extract, Rsync, Patch, Configure, Build, Install,
         Uninstall, CleanPackage, Dirclean, CleanForRebuild, CleanForReconfigure
<1>2. stamps'[p] = stamps[p]
  BY <1>1, TouchStep, RemoveStep
<1>3. tree'[p] = tree[p] /\ inst'[p] = inst[p]
  <2>1. tree \in [Packages -> Tree] /\ inst \in [Packages -> [Dests -> Version]]
    BY DEF TypeOK
  <2>2. /\ tree' = tree \/ \E t : tree' = [tree EXCEPT ![q] = t]
        /\ inst' = inst \/ \E i : inst' = [inst EXCEPT ![q] = i]
    <3>1. CASE Download(q) \/ Extract(q) \/ Rsync(q)
      BY <3>1 DEF Download, Extract, Rsync
    <3>2. CASE Patch(q) \/ Configure(q) \/ Build(q)
      BY <3>2 DEF Patch, Configure, Build
    <3>3. CASE \E d \in Dests : Install(q, d)
      BY <3>3 DEF Install
    <3>4. CASE Uninstall(q) \/ CleanPackage(q) \/ Dirclean(q)
      BY <3>4 DEF Uninstall, CleanPackage, Dirclean
    <3>5. CASE CleanForRebuild(q) \/ CleanForReconfigure(q)
      BY <3>5 DEF CleanForRebuild, CleanForReconfigure
    <3> QED BY <3>1, <3>2, <3>3, <3>4, <3>5
  <2> QED BY <2>1, <2>2
<1>4. UNCHANGED user
  BY DEF Download, Extract, Rsync, Patch, Configure, Build, Install,
         Uninstall, CleanPackage, Dirclean, CleanForRebuild, CleanForReconfigure
<1>5. \E k : Top = <<k, q>>
  <2>1. CASE Download(q) \/ Extract(q) \/ Rsync(q) \/ Patch(q) \/ Configure(q) \/ Build(q)
    BY <2>1 DEF Download, Extract, Rsync, Patch, Configure, Build, Runs, Ready
  <2>2. CASE \E d \in Dests : Install(q, d)
    BY <2>2 DEF Install, Runs, Ready
  <2>3. CASE Uninstall(q) \/ CleanPackage(q) \/ Dirclean(q)
    BY <2>3 DEF Uninstall, CleanPackage, Dirclean, Ready
  <2>4. CASE CleanForRebuild(q) \/ CleanForReconfigure(q)
    BY <2>4 DEF CleanForRebuild, CleanForReconfigure, Ready
  <2> QED BY <2>1, <2>2, <2>3, <2>4
<1> QED BY <1>2, <1>3, <1>4, <1>5

LEMMA DeliveryStep ==
  ASSUME WalkInv, Delivery, [Next]_vars
  PROVE  Delivery'
<1>0. TypeOK /\ EngineInv /\ GoalBelow /\ goal \in Goals \union {<<>>}
  BY DEF WalkInv, IInv, TypeOK
<1>1. CASE goal' = <<>>
  BY <1>1 DEF Delivery
<1>2. CASE \E g \in Goals : Make(g)
  BY <1>0, <1>2, DeliveryStarts
<1>3. ASSUME goal' # <<>>, ~ (\E g \in Goals : Make(g))
      PROVE  Delivery'
  <2>1. ~ Abort
    BY <1>3 DEF Abort
  <2>2. goal # <<>> /\ stack # <<>>
    <3>1. CASE UNCHANGED engine
      BY <1>0, <1>3, <3>1 DEF engine, GoalBelow
    <3>2. CASE ~ UNCHANGED engine
      BY <1>0, <1>3, <2>1, <3>2, EngineMoves DEF GoalBelow, Descend
    <3> QED BY <3>1, <3>2
  <2>3. GoesOn
    BY <1>0, <1>3, <2>2, GoingOn
  <2>4. PICK p \in Packages : goal[2] = p
    BY <1>0, <2>2, GoalPair
  <2>5. srcdir[p] \in Nat /\ srcdir[p] >= srcdir[p]
    BY <1>0, VersionNumbers
  <2>6. CASE UNCHANGED vars
    <3>1. done' = done /\ UNCHANGED <<stamps, tree, inst, srcdir, cfg>>
      BY <2>6 DEF vars, files, user, engine
    <3> QED BY <1>0, <2>3, <2>4, <2>5, <3>1, DeliveryElsewhere
  <2>7. CASE Descend
    <3>1. done' = done /\ UNCHANGED <<stamps, tree, inst, srcdir, cfg>>
      BY <2>7 DEF Descend, files, user
    <3> QED BY <1>0, <2>3, <2>4, <2>5, <3>1, DeliveryElsewhere
  <2>8. CASE UpToDate
    <3>1. Top[1] \notin {"clean-for-rebuild", "clean-for-reconfigure"}
      BY <2>8 DEF UpToDate, HasRecipe, Stamps, InstallStamps
    <3>2. UNCHANGED <<stamps, tree, inst, srcdir, cfg>>
      BY <2>8 DEF UpToDate, files, user
    <3> QED BY <1>0, <2>3, <2>4, <2>5, <3>1, <3>2, DeliveryElsewhere
  <2>9. ~ CleanAll
    BY <1>0, <1>3, CleanAllEnds
  <2>10. ~ CutStep
    BY <2>1
    DEF CutStep, Interrupted, CleanAllCut, DownloadCut, FetchCut, PatchCut, ConfigureCut, BuildCut,
        InstallCut, UninstallCut, CleanPackageCut, DircleanCut, CleanForRebuildCut, Fault
  <2>11. ASSUME NEW q \in Packages, RsyncSource(q) PROVE Delivery'
    <3>1. /\ Top[1] \notin {"clean-for-rebuild", "clean-for-reconfigure"}
          /\ UNCHANGED <<stamps, tree, inst, srcdir, cfg>>
      BY <2>11 DEF RsyncSource, Ready, files, user
    <3> QED BY <1>0, <2>3, <2>4, <2>5, <3>1, DeliveryElsewhere
  <2>12. ASSUME NEW q \in Packages,
                \/ Download(q) \/ Extract(q) \/ Rsync(q) \/ Patch(q) \/ Configure(q)
                \/ Build(q) \/ \E d \in Dests : Install(q, d)
                \/ Uninstall(q) \/ CleanPackage(q) \/ Dirclean(q)
                \/ CleanForRebuild(q) \/ CleanForReconfigure(q)
         PROVE  Delivery'
    <3>1. CASE q = p
      BY <2>3, <2>4, <2>12, <3>1, DeliveryEarly, DeliveryLate, DeliveryRemoved
    <3>2. CASE q # p
      <4>1. /\ stamps'[p] = stamps[p] /\ tree'[p] = tree[p] /\ inst'[p] = inst[p]
            /\ UNCHANGED user /\ Top[2] # p
        BY <1>0, <2>12, <3>2, OtherPackage
      <4> QED BY <1>0, <2>3, <2>4, <2>5, <4>1, DeliveryElsewhere DEF user
    <3> QED BY <3>1, <3>2
  <2>13. ASSUME NEW q \in Packages PROVE ~ RecipeFails(q)
    BY <2>1 DEF RecipeFails
  <2>14. ASSUME NEW q \in Packages, EditSources(q) PROVE Delivery'
    <3>1. done' = done /\ UNCHANGED <<stamps, tree, inst, cfg>>
      BY <2>14 DEF EditSources, files, engine
    <3>2. srcdir'[p] \in Nat /\ srcdir'[p] >= srcdir[p]
      <4>1. srcdir' = [srcdir EXCEPT ![q] = @ + 1] /\ DOMAIN srcdir = Packages
        BY <1>0, <2>14 DEF EditSources, TypeOK
      <4> QED BY <2>5, <4>1
    <3> QED BY <1>0, <2>3, <2>4, <3>1, <3>2, DeliveryElsewhere
  <2>15. ASSUME NEW q \in Packages PROVE ~ (EditTree(q) \/ EditConfig(q) \/ DeleteStamp(q))
    BY <2>2 DEF EditTree, EditConfig, DeleteStamp, Idle
  <2>16. CASE MakeStep
    BY <2>7, <2>8, <2>9, <2>11, <2>12, <2>13, <2>16 DEF MakeStep
  <2>17. CASE UserStep
    BY <1>3, <2>14, <2>15, <2>17 DEF UserStep
  <2> QED BY <2>6, <2>10, <2>16, <2>17 DEF Next
<1> QED BY <1>1, <1>2, <1>3

\* When a rebuild, a reconfigure or a build from nothing succeeds, every
\* destination of the package holds sources, and where the goal promises it a
\* configuration, at least as new as those that were there when make started.
THEOREM RebuildsDeliver == Spec => RebuildDelivers
<1>1. Init => Delivery
  BY DEF Init, Delivery
<1>2. WalkInv /\ Delivery /\ [Next]_vars => Delivery'
  BY DeliveryStep
<1>3. ASSUME WalkInv, Delivery, [Next]_vars, Succeeds, NEW d \in InstallTo[goal[2]]
      PROVE  inst[goal[2]][d].src >= want.src /\ inst[goal[2]][d].conf >= want.conf
  <2>1. /\ goal \in Goals /\ goal # <<>>
        /\ \A i \in DOMAIN Prereqs(goal) : Prereqs(goal)[i] \in done
        /\ goal[1] \in Delivering => d \in Dests /\ InstallStamp[d] \in stamps[goal[2]]
    BY <1>3, EndIsInstalled
  <2>2. PICK p \in Packages : goal[2] = p
    BY <2>1, GoalPair
  <2>3. DeliveryOf(p) /\ TypeOK /\ d \in Dests
    <3>1. InstallTo[p] \subseteq Dests
      BY ConstantsAssumption
    <3> QED BY <1>3, <2>1, <2>2, <3>1 DEF Delivery, WalkInv, IInv
  <2>4. CASE goal[1] \in Delivering
    <3>1. goal[1] = "rebuild" => <<"clean-for-rebuild", p>> \in done
      <4>1. goal[1] = "rebuild" => Prereqs(goal) = << <<"clean-for-rebuild", p>>, <<"pkg", p>> >>
        BY <2>2 DEF Prereqs
      <4> QED BY <2>1, <4>1
    <3>2. goal[1] = "reconfigure" => <<"clean-for-reconfigure", p>> \in done
      <4>1. goal[1] = "reconfigure" =>
              Prereqs(goal) = << <<"clean-for-reconfigure", p>>, <<"pkg", p>> >>
        BY <2>2 DEF Prereqs
      <4> QED BY <2>1, <4>1
    <3>3. Current(p)
      BY <2>3, <3>1, <3>2 DEF Cleared, DeliveryOf
    <3> QED BY <2>1, <2>2, <2>3, <2>4, <3>3 DEF Current, NewEnough
  <2>5. CASE goal[1] \notin Delivering
    <3>1. want.src = 0 /\ want.conf = 0
      BY <2>3, <2>5 DEF DeliveryOf, None
    <3>2. inst[p][d].src \in Nat /\ inst[p][d].conf \in Nat
      BY <2>3, VersionNumbers
    <3> QED BY <2>2, <3>1, <3>2
  <2> QED BY <2>4, <2>5
<1>4. WalkInv /\ Delivery /\ [Next]_vars =>
        [Succeeds =>
           \A d \in InstallTo[goal[2]] :
             /\ inst[goal[2]][d].src >= want.src
             /\ inst[goal[2]][d].conf >= want.conf]_vars
  BY <1>3
<1> QED BY <1>1, <1>2, <1>4, WalkAlways, PTL DEF Spec, RebuildDelivers
=============================================================================
