------------------------- MODULE PkgGeneric_proofs --------------------------
(***************************************************************************)
(* Theorems about PkgGeneric, for every set of packages, every dependency  *)
(* graph and every number of faults.                                       *)
(***************************************************************************)
EXTENDS PkgGeneric, TLAPS

-----------------------------------------------------------------------------
(* Facts about the target graph *)

LEMMA TargetPair ==
  ASSUME NEW t \in Targets
  PROVE  /\ t = <<t[1], t[2]>>
         /\ t[1] \in HumanKinds \union Stamps \union PseudoStamps
         /\ t[2] \in Packages
  BY DEF Targets

\* The prerequisites of a target are targets.
LEMMA PrereqsType ==
  ASSUME NEW t \in Targets, NEW i \in DOMAIN Prereqs(t)
  PROVE  Prereqs(t)[i] \in Targets
<1>1. t[1] \in HumanKinds \union Stamps \union PseudoStamps /\ t[2] \in Packages
  BY TargetPair
<1>0. \A k \in HumanKinds \union Stamps \union PseudoStamps : <<k, t[2]>> \in Targets
  BY <1>1 DEF Targets
<1>2. CASE t[1] \in Stamps \union PseudoStamps \union {"clean-for-rebuild", "top-clean"}
  <2>1. Prereqs(t) = <<>>
    BY <1>2 DEF Prereqs, Stamps, PseudoStamps, InstallStamps
  <2> QED BY <2>1
<1>3. CASE t[1] = "pkg"
  BY <1>1, <1>3 DEF Prereqs, Targets, HumanKinds
<1>4. CASE t[1] = "install"
  BY <1>1, <1>4 DEF Prereqs, Targets, HumanKinds
<1>5. CASE t[1] \in {"install-host", "build"}
  <2>1. CASE t[1] = "install-host"
    <3>1. Prereqs(t) = << <<"build", t[2]>>, <<"host_installed", t[2]>> >>
      BY <2>1 DEF Prereqs
    <3>2. <<"build", t[2]>> \in Targets /\ <<"host_installed", t[2]>> \in Targets
      BY <1>0 DEF HumanKinds, Stamps, InstallStamps, PseudoStamps
    <3> QED BY <3>1, <3>2
  <2>2. CASE t[1] = "build"
    <3>1. Prereqs(t) = << <<"configure", t[2]>>, <<"built", t[2]>> >>
      BY <2>2 DEF Prereqs
    <3>2. <<"configure", t[2]>> \in Targets /\ <<"built", t[2]>> \in Targets
      BY <1>0 DEF HumanKinds, Stamps, InstallStamps, PseudoStamps
    <3> QED BY <3>1, <3>2
  <2> QED BY <1>5, <2>1, <2>2
<1>6. CASE t[1] \in {"install-staging", "install-target", "install-images"}
  <2>1. \A d \in Dests : \A n \in DOMAIN InstallPrereqs(d, t[2]) :
          InstallPrereqs(d, t[2])[n] \in Targets
    <3>1. \A d \in Dests : <<InstallStamp[d], t[2]>> \in Targets
      BY <1>0 DEF Dests, InstallStamp, Stamps, InstallStamps
    <3>2. <<"build", t[2]>> \in Targets
      BY <1>0 DEF HumanKinds
    <3> QED BY <3>1, <3>2 DEF InstallPrereqs
  <2>2. \E d \in Dests : Prereqs(t) = InstallPrereqs(d, t[2])
    <3>1. CASE t[1] = "install-staging"
      BY <3>1 DEF Prereqs, Dests
    <3>2. CASE t[1] = "install-target"
      BY <3>2 DEF Prereqs, Dests
    <3>3. CASE t[1] = "install-images"
      BY <3>3 DEF Prereqs, Dests
    <3> QED BY <1>6, <3>1, <3>2, <3>3
  <2> QED BY <2>1, <2>2
<1>7. CASE t[1] \in {"configure", "patch", "extract", "source", "rsync"}
  <2>1. Prereqs(t) = SourcePrereqs(t[1], t[2])
    BY <1>7 DEF Prereqs
  <2>2. CASE t[2] \in Overrides
    <3>1. CASE t[1] = "configure"
      <4>1. Prereqs(t) = << <<"depends", t[2]>>, <<"configured", t[2]>> >>
        BY <2>1, <2>2, <3>1 DEF SourcePrereqs
      <4>2. <<"depends", t[2]>> \in Targets /\ <<"configured", t[2]>> \in Targets
        BY <1>0 DEF HumanKinds, Stamps, InstallStamps, PseudoStamps
      <4> QED BY <4>1, <4>2
    <3>2. CASE t[1] = "patch"
      <4>1. Prereqs(t) = << <<"rsync", t[2]>> >>
        BY <2>1, <2>2, <3>2 DEF SourcePrereqs
      <4>2. <<"rsync", t[2]>> \in Targets
        BY <1>0 DEF HumanKinds, Stamps, InstallStamps, PseudoStamps
      <4> QED BY <4>1, <4>2
    <3>3. CASE t[1] = "extract"
      <4>1. Prereqs(t) = << <<"rsync", t[2]>> >>
        BY <2>1, <2>2, <3>3 DEF SourcePrereqs
      <4>2. <<"rsync", t[2]>> \in Targets
        BY <1>0 DEF HumanKinds, Stamps, InstallStamps, PseudoStamps
      <4> QED BY <4>1, <4>2
    <3>4. CASE t[1] = "source"
      <4>1. Prereqs(t) = << <<"rsync_sourced", t[2]>> >>
        BY <2>1, <2>2, <3>4 DEF SourcePrereqs
      <4>2. <<"rsync_sourced", t[2]>> \in Targets
        BY <1>0 DEF HumanKinds, Stamps, InstallStamps, PseudoStamps
      <4> QED BY <4>1, <4>2
    <3>5. CASE t[1] = "rsync"
      <4>1. Prereqs(t) = << <<"rsynced", t[2]>> >>
        BY <2>1, <2>2, <3>5 DEF SourcePrereqs
      <4>2. <<"rsynced", t[2]>> \in Targets
        BY <1>0 DEF HumanKinds, Stamps, InstallStamps, PseudoStamps
      <4> QED BY <4>1, <4>2
    <3> QED BY <1>7, <3>1, <3>2, <3>3, <3>4, <3>5
  <2>3. CASE t[2] \notin Overrides
    <3>1. CASE t[1] = "configure"
      <4>1. Prereqs(t) = << <<"patch", t[2]>>, <<"depends", t[2]>>, <<"configured", t[2]>> >>
        BY <2>1, <2>3, <3>1 DEF SourcePrereqs
      <4>2. <<"patch", t[2]>> \in Targets /\ <<"depends", t[2]>> \in Targets /\ <<"configured", t[2]>> \in Targets
        BY <1>0 DEF HumanKinds, Stamps, InstallStamps, PseudoStamps
      <4> QED BY <4>1, <4>2
    <3>2. CASE t[1] = "patch"
      <4>1. Prereqs(t) = << <<"extract", t[2]>>, <<"patched", t[2]>> >>
        BY <2>1, <2>3, <3>2 DEF SourcePrereqs
      <4>2. <<"extract", t[2]>> \in Targets /\ <<"patched", t[2]>> \in Targets
        BY <1>0 DEF HumanKinds, Stamps, InstallStamps, PseudoStamps
      <4> QED BY <4>1, <4>2
    <3>3. CASE t[1] = "extract"
      <4>1. Prereqs(t) = << <<"source", t[2]>>, <<"extracted", t[2]>> >>
        BY <2>1, <2>3, <3>3 DEF SourcePrereqs
      <4>2. <<"source", t[2]>> \in Targets /\ <<"extracted", t[2]>> \in Targets
        BY <1>0 DEF HumanKinds, Stamps, InstallStamps, PseudoStamps
      <4> QED BY <4>1, <4>2
    <3>4. CASE t[1] = "source"
      <4>1. Prereqs(t) = << <<"downloaded", t[2]>> >>
        BY <2>1, <2>3, <3>4 DEF SourcePrereqs
      <4>2. <<"downloaded", t[2]>> \in Targets
        BY <1>0 DEF HumanKinds, Stamps, InstallStamps, PseudoStamps
      <4> QED BY <4>1, <4>2
    <3>5. CASE t[1] = "rsync"
      <4>1. Prereqs(t) = <<>>
        BY <2>1, <2>3, <3>5 DEF SourcePrereqs
      <4> QED BY <1>0, <4>1
    <3> QED BY <1>7, <3>1, <3>2, <3>3, <3>4, <3>5
  <2> QED BY <2>2, <2>3
<1>8. CASE t[1] = "depends"
  <2>1. Prereqs(t) = SourcePrereqs("depends", t[2])
    BY <1>8 DEF Prereqs
  <2>2. /\ Deps[t[2]] \in Seq(Packages)
        /\ \A j \in DOMAIN Deps[t[2]] : <<"pkg", Deps[t[2]][j]>> \in Targets
    BY <1>1, ConstantsAssumption DEF Targets, HumanKinds
  <2>3. CASE t[2] \in Overrides
    <3>1. Prereqs(t) = << <<"rsync", t[2]>> >> \o
                         [j \in DOMAIN Deps[t[2]] |-> <<"pkg", Deps[t[2]][j]>>]
      BY <2>1, <2>3 DEF SourcePrereqs
    <3>2. <<"rsync", t[2]>> \in Targets
      BY <1>0 DEF HumanKinds
    <3>3. DOMAIN Deps[t[2]] = 1..Len(Deps[t[2]]) /\ Len(Deps[t[2]]) \in Nat
      BY <2>2
    <3>4. [j \in DOMAIN Deps[t[2]] |-> <<"pkg", Deps[t[2]][j]>>] \in Seq(Targets)
      BY <2>2, <3>3
    <3>5. Prereqs(t) \in Seq(Targets)
      BY <3>1, <3>2, <3>4
    <3> QED BY <3>5
  <2>4. CASE t[2] \notin Overrides
    BY <2>1, <2>2, <2>4 DEF SourcePrereqs
  <2> QED BY <2>3, <2>4
<1>9. CASE t[1] \in {"uninstall", "clean", "dirclean", "rebuild",
                      "clean-for-reconfigure", "reconfigure"}
  <2>1. CASE t[1] = "uninstall"
    <3>1. Prereqs(t) = << <<"configure", t[2]>>, <<"uninstalled", t[2]>> >>
      BY <2>1 DEF Prereqs
    <3>2. <<"configure", t[2]>> \in Targets /\ <<"uninstalled", t[2]>> \in Targets
      BY <1>0 DEF HumanKinds, Stamps, InstallStamps, PseudoStamps
    <3> QED BY <3>1, <3>2
  <2>2. CASE t[1] = "clean"
    <3>1. Prereqs(t) = << <<"uninstall", t[2]>>, <<"cleaned", t[2]>> >>
      BY <2>2 DEF Prereqs
    <3>2. <<"uninstall", t[2]>> \in Targets /\ <<"cleaned", t[2]>> \in Targets
      BY <1>0 DEF HumanKinds, Stamps, InstallStamps, PseudoStamps
    <3> QED BY <3>1, <3>2
  <2>3. CASE t[1] = "dirclean"
    <3>1. Prereqs(t) = << <<"dircleaned", t[2]>> >>
      BY <2>3 DEF Prereqs
    <3>2. <<"dircleaned", t[2]>> \in Targets
      BY <1>0 DEF HumanKinds, Stamps, InstallStamps, PseudoStamps
    <3> QED BY <3>1, <3>2
  <2>4. CASE t[1] = "rebuild"
    <3>1. Prereqs(t) = << <<"clean-for-rebuild", t[2]>>, <<"pkg", t[2]>> >>
      BY <2>4 DEF Prereqs
    <3>2. <<"clean-for-rebuild", t[2]>> \in Targets /\ <<"pkg", t[2]>> \in Targets
      BY <1>0 DEF HumanKinds, Stamps, InstallStamps, PseudoStamps
    <3> QED BY <3>1, <3>2
  <2>5. CASE t[1] = "clean-for-reconfigure"
    <3>1. Prereqs(t) = << <<"clean-for-rebuild", t[2]>> >>
      BY <2>5 DEF Prereqs
    <3>2. <<"clean-for-rebuild", t[2]>> \in Targets
      BY <1>0 DEF HumanKinds, Stamps, InstallStamps, PseudoStamps
    <3> QED BY <3>1, <3>2
  <2>6. CASE t[1] = "reconfigure"
    <3>1. Prereqs(t) = << <<"clean-for-reconfigure", t[2]>>, <<"pkg", t[2]>> >>
      BY <2>6 DEF Prereqs
    <3>2. <<"clean-for-reconfigure", t[2]>> \in Targets /\ <<"pkg", t[2]>> \in Targets
      BY <1>0 DEF HumanKinds, Stamps, InstallStamps, PseudoStamps
    <3> QED BY <3>1, <3>2
  <2> QED BY <1>9, <2>1, <2>2, <2>3, <2>4, <2>5, <2>6
<1>10. CASE t[1] = "real"
  BY <1>1, <1>10, ConstantsAssumption DEF Prereqs, BaseTargets, Targets, HumanKinds
<1>11. CASE t[1] = "world"
  <2>1. Prereqs(t) = << <<"pkg", Toolchain>> >> \o
                       [j \in DOMAIN TargetsAll |-> <<"real", TargetsAll[j]>>]
    BY <1>11 DEF Prereqs, BaseTargets
  <2>2. /\ TargetsAll \in Seq(Packages)
        /\ \A j \in DOMAIN TargetsAll : <<"real", TargetsAll[j]>> \in Targets
        /\ <<"pkg", Toolchain>> \in Targets
    BY ConstantsAssumption DEF Targets, HumanKinds
  <2>3. DOMAIN TargetsAll = 1..Len(TargetsAll) /\ Len(TargetsAll) \in Nat
    BY <2>2
  <2> QED BY <2>1, <2>2, <2>3
<1> QED
  BY <1>1, <1>2, <1>3, <1>4, <1>5, <1>6, <1>7, <1>8, <1>9, <1>10, <1>11
     DEF HumanKinds

\* They are numbered from 1.
LEMMA PrereqsDomain ==
  ASSUME NEW t \in Targets
  PROVE  DOMAIN Prereqs(t) \subseteq Nat \ {0}
<1>1. t[1] \in HumanKinds \union Stamps \union PseudoStamps /\ t[2] \in Packages
  BY TargetPair
<1>2. /\ DOMAIN Deps[t[2]] = 1..Len(Deps[t[2]]) /\ Len(Deps[t[2]]) \in Nat
      /\ DOMAIN TargetsAll = 1..Len(TargetsAll) /\ Len(TargetsAll) \in Nat
  BY <1>1, ConstantsAssumption
<1>3. CASE t[1] = "depends"
  <2>1. CASE t[2] \in Overrides
    BY <1>2, <1>3, <2>1 DEF Prereqs, SourcePrereqs
  <2>2. CASE t[2] \notin Overrides
    BY <1>2, <1>3, <2>2 DEF Prereqs, SourcePrereqs
  <2> QED BY <2>1, <2>2
<1>4. CASE t[1] = "world"
  BY <1>2, <1>4 DEF Prereqs, BaseTargets
<1>5. CASE t[1] \notin {"depends", "world"}
  BY <1>5 DEF Prereqs, SourcePrereqs, InstallPrereqs, BaseTargets
<1> QED BY <1>3, <1>4, <1>5

\* What it means for a target of a given kind to be the i-th prerequisite of t.
PrereqFact(t, i) ==
  LET u == Prereqs(t)[i]
      Earlier(k) == \E j \in 1..(i - 1) : Prereqs(t)[j] = <<k, u[2]>>
  IN /\ u[1] \notin {"rebuild", "reconfigure", "dirclean", "clean", "top-clean"}
     /\ u[1] = "configured"  => Earlier("depends") /\ (u[2] \in Overrides \/ Earlier("patch"))
     /\ u[1] = "patched"     => u[2] \notin Overrides /\ Earlier("extract")
     /\ u[1] = "extracted"   => u[2] \notin Overrides /\ Earlier("source")
     /\ u[1] = "rsynced"     => u[2] \in Overrides
     /\ u[1] = "cleaned"     => t[1] = "clean" /\ Earlier("uninstall")
     /\ u[1] = "uninstalled" => t[1] = "uninstall" /\ i = 2 /\ DOMAIN Prereqs(t) = 1..2
     /\ u[1] = "uninstall"   => t = <<"clean", u[2]>> /\ i = 1
     /\ u[1] = "dircleaned"  => t[1] = "dirclean" /\ i = 1 /\ DOMAIN Prereqs(t) = 1..1
     /\ u[1] = "clean-for-rebuild" =>
          t[1] \in {"rebuild", "clean-for-reconfigure"} /\ i = 1
     /\ u[1] = "clean-for-reconfigure" => t[1] = "reconfigure" /\ i = 1

\* Kinds of prerequisites that PrereqFact says nothing about.
Ordinary == {"pkg", "install-host", "install-staging", "install-target", "install-images",
             "install", "build", "configure", "patch", "extract", "depends", "source",
             "rsync", "real", "downloaded", "rsync_sourced", "built"} \union InstallStamps

LEMMA OrdinaryFact ==
  ASSUME NEW t, NEW i, Prereqs(t)[i][1] \in Ordinary
  PROVE  PrereqFact(t, i)
  BY DEF PrereqFact, Ordinary, InstallStamps

LEMMA PrereqFacts ==
  ASSUME NEW t \in Targets, NEW i \in DOMAIN Prereqs(t)
  PROVE  PrereqFact(t, i)
<1>1. t = <<t[1], t[2]>> /\ t[1] \in HumanKinds \union Stamps \union PseudoStamps
  BY TargetPair
<1>2. CASE t[1] \in Stamps \union PseudoStamps \union {"clean-for-rebuild", "top-clean"}
  <2>1. Prereqs(t) = <<>>
    BY <1>2 DEF Prereqs, Stamps, PseudoStamps, InstallStamps
  <2> QED BY <2>1
<1>3. CASE t[1] \in {"pkg", "install", "install-host", "build"}
  <2>1. CASE t[1] = "pkg"
    <3>1. Prereqs(t)[i][1] \in {"install"}
      BY <2>1 DEF Prereqs
    <3> QED BY <3>1, OrdinaryFact DEF Ordinary
  <2>2. CASE t[1] = "install"
    <3>1. Prereqs(t)[i][1] \in {"install-host", "install-staging", "install-target", "install-images"}
      BY <2>2 DEF Prereqs
    <3> QED BY <3>1, OrdinaryFact DEF Ordinary
  <2>3. CASE t[1] = "install-host"
    <3>1. Prereqs(t)[i][1] \in {"build", "host_installed"}
      BY <2>3 DEF Prereqs
    <3> QED BY <3>1, OrdinaryFact DEF Ordinary, InstallStamps
  <2>4. CASE t[1] = "build"
    <3>1. Prereqs(t)[i][1] \in {"configure", "built"}
      BY <2>4 DEF Prereqs
    <3> QED BY <3>1, OrdinaryFact DEF Ordinary
  <2> QED BY <1>3, <2>1, <2>2, <2>3, <2>4
<1>5. CASE t[1] \in {"install-staging", "install-target", "install-images"}
  <2>1. PICK d \in Dests : Prereqs(t) = InstallPrereqs(d, t[2])
    BY <1>5 DEF Prereqs, Dests
  <2>2. Prereqs(t)[i][1] \in {"build", InstallStamp[d]}
    BY <2>1 DEF InstallPrereqs
  <2>3. InstallStamp[d] \in InstallStamps
    BY <2>1 DEF InstallStamp, Dests, InstallStamps
  <2> QED BY <2>2, <2>3, OrdinaryFact DEF Ordinary
<1>6. CASE t[1] \in {"configure", "patch", "extract", "source", "rsync"}
  <2>1. CASE t[1] = "configure"
    <3>1. CASE t[2] \in Overrides
      <4>1. Prereqs(t) = << <<"depends", t[2]>>, <<"configured", t[2]>> >>
        BY <2>1, <3>1 DEF Prereqs, SourcePrereqs
      <4>2. CASE i = 1
        BY <4>1, <4>2 DEF PrereqFact
      <4>3. CASE i = 2
        <5>1. Prereqs(t)[i] = <<"configured", t[2]>> /\ Prereqs(t)[1] = <<"depends", t[2]>>
          BY <4>1, <4>3
        <5>2. 1 \in 1..(i - 1)
          BY <4>3
        <5> QED BY <3>1, <5>1, <5>2 DEF PrereqFact
      <4> QED BY <4>1, <4>2, <4>3
    <3>2. CASE t[2] \notin Overrides
      BY SMTT(60), <2>1, <3>2 DEF Prereqs, SourcePrereqs, PrereqFact
    <3> QED BY <3>1, <3>2
  <2>2. CASE t[1] = "patch"
    <3>1. CASE t[2] \in Overrides
      BY <2>2, <3>1 DEF Prereqs, SourcePrereqs, PrereqFact
    <3>2. CASE t[2] \notin Overrides
      BY <2>2, <3>2 DEF Prereqs, SourcePrereqs, PrereqFact
    <3> QED BY <3>1, <3>2
  <2>3. CASE t[1] = "extract"
    <3>1. CASE t[2] \in Overrides
      BY SMTT(60), <2>3, <3>1 DEF Prereqs, SourcePrereqs, PrereqFact
    <3>2. CASE t[2] \notin Overrides
      BY <2>3, <3>2 DEF Prereqs, SourcePrereqs, PrereqFact
    <3> QED BY <3>1, <3>2
  <2>4. CASE t[1] = "source"
    <3>1. Prereqs(t)[i][1] \in {"downloaded", "rsync_sourced"}
      BY <2>4 DEF Prereqs, SourcePrereqs
    <3> QED BY <3>1, OrdinaryFact DEF Ordinary
  <2>5. CASE t[1] = "rsync"
    BY <2>5 DEF Prereqs, SourcePrereqs, PrereqFact
  <2> QED BY <1>6, <2>1, <2>2, <2>3, <2>4, <2>5
<1>7. CASE t[1] = "depends"
  <2>1. Prereqs(t)[i][1] \in {"rsync", "pkg"}
    <3>1. Prereqs(t) = SourcePrereqs("depends", t[2])
      BY <1>7 DEF Prereqs
    <3>2. Deps[t[2]] \in Seq(Packages)
      BY TargetPair, ConstantsAssumption
    <3>3. CASE t[2] \in Overrides
      BY <3>1, <3>2, <3>3 DEF SourcePrereqs
    <3>4. CASE t[2] \notin Overrides
      BY <3>1, <3>4 DEF SourcePrereqs
    <3> QED BY <3>3, <3>4
  <2> QED BY <2>1 DEF PrereqFact
<1>8. CASE t[1] = "uninstall"
  BY <1>8 DEF Prereqs, PrereqFact
<1>9. CASE t[1] = "clean"
  BY <1>1, <1>9 DEF Prereqs, PrereqFact
<1>10. CASE t[1] = "dirclean"
  BY <1>10 DEF Prereqs, PrereqFact
<1>11. CASE t[1] \in {"rebuild", "reconfigure", "clean-for-reconfigure"}
  <2>1. CASE t[1] = "rebuild"
    BY <2>1 DEF Prereqs, PrereqFact
  <2>2. CASE t[1] = "reconfigure"
    BY <2>2 DEF Prereqs, PrereqFact
  <2>3. CASE t[1] = "clean-for-reconfigure"
    BY <2>3 DEF Prereqs, PrereqFact
  <2> QED BY <1>11, <2>1, <2>2, <2>3
<1>12. CASE t[1] = "real"
  BY <1>12 DEF Prereqs, BaseTargets, PrereqFact
<1>13. CASE t[1] = "world"
  <2>1. Prereqs(t) = << <<"pkg", Toolchain>> >> \o
                       [j \in DOMAIN TargetsAll |-> <<"real", TargetsAll[j]>>]
    BY <1>13 DEF Prereqs, BaseTargets
  <2>2. DOMAIN TargetsAll = 1..Len(TargetsAll) /\ Len(TargetsAll) \in Nat
    BY ConstantsAssumption
  <2>3. Prereqs(t)[i][1] \in {"pkg", "real"}
    BY <2>1, <2>2
  <2> QED BY <2>3 DEF PrereqFact
<1> QED
  BY <1>1, <1>2, <1>3, <1>5, <1>6, <1>7, <1>8, <1>9, <1>10, <1>11, <1>12, <1>13
  DEF HumanKinds

-----------------------------------------------------------------------------
(* Type correctness *)

EngineType ==
  /\ stack \in Seq(Targets)
  /\ done \in SUBSET Targets
  /\ goal \in Goals \union {<<>>}
  /\ want \in Version

FilesType ==
  /\ stamps \in [Packages -> SUBSET Stamps]
  /\ dl \in SUBSET Packages
  /\ tree \in [Packages -> Tree]
  /\ inst \in [Packages -> [Dests -> Version]]
  /\ torn \in [Packages -> SUBSET Stamps]
  /\ \A p \in Packages : torn[p] \subseteq stamps[p]

UserType ==
  /\ srcdir \in [Packages -> 1..MaxGen]
  /\ cfg \in [Packages -> 1..MaxGen]
  /\ faults \in 0..MaxFaults

LEMMA TypeParts ==
  TypeOK <=> EngineType /\ FilesType /\ stale \in SUBSET Packages /\ UserType
  BY DEF TypeOK, EngineType, FilesType, UserType

LEMMA NoneType == None \in Version /\ EmptyTree \in Tree
  BY ConstantsAssumption DEF None, Version, EmptyTree, Tree

\* The innermost target is a target.
LEMMA TopType ==
  ASSUME EngineType, stack # <<>>
  PROVE  /\ Top \in Targets
         /\ Len(stack) \in Nat \ {0}
  BY DEF EngineType, Top

LEMMA ReturnType ==
  ASSUME EngineType, stack # <<>>, Return
  PROVE  EngineType'
<1>1. Top \in Targets /\ Len(stack) \in Nat \ {0}
  BY TopType
<1>2. CASE Len(stack) = 1
  BY <1>2, NoneType DEF Return, EngineType
<1>3. CASE Len(stack) # 1
  <2>1. SubSeq(stack, 1, Len(stack) - 1) \in Seq(Targets)
    BY <1>1, <1>3 DEF EngineType
  <2> QED BY <1>1, <1>3, <2>1 DEF Return, EngineType
<1> QED BY <1>2, <1>3

LEMMA AbortType ==
  ASSUME Abort
  PROVE  EngineType'
  BY NoneType DEF Abort, EngineType

LEMMA DescendType ==
  ASSUME EngineType, Descend
  PROVE  EngineType'
<1>1. PICK i \in DOMAIN Prereqs(Top) : stack' = Append(stack, Prereqs(Top)[i])
  BY DEF Descend
<1>2. Prereqs(Top)[i] \in Targets
  BY <1>1, TopType, PrereqsType DEF Descend
<1> QED BY <1>1, <1>2 DEF Descend, EngineType

LEMMA MakeType ==
  ASSUME TypeOK, NEW g \in Goals, Make(g)
  PROVE  EngineType'
<1>1. g \in HumanKinds \X Packages
  BY DEF Goals
<1>2. g \in Targets /\ g[2] \in Packages
  BY <1>1 DEF Targets
<1>3. CurrentSrc(g[2]) \in 0..MaxGen /\ cfg[g[2]] \in 0..MaxGen /\ 0 \in 0..MaxGen
  <2>1. MaxGen \in Nat \ {0}
    BY ConstantsAssumption
  <2>2. srcdir[g[2]] \in 1..MaxGen /\ cfg[g[2]] \in 1..MaxGen
    BY <1>2 DEF TypeOK
  <2>3. tree[g[2]].src \in 0..MaxGen
    BY <1>2 DEF TypeOK, Tree
  <2> QED BY <2>1, <2>2, <2>3 DEF CurrentSrc
<1>4. want' \in Version
  BY <1>3 DEF Make, Version
<1> QED BY <1>2, <1>4 DEF Make, EngineType

\* Removing stamps leaves stamps and torn well typed.
LEMMA RemoveType ==
  ASSUME FilesType, NEW p \in Packages, NEW S, Remove(S, p)
  PROVE  /\ stamps' \in [Packages -> SUBSET Stamps]
         /\ torn' \in [Packages -> SUBSET Stamps]
         /\ \A q \in Packages : torn'[q] \subseteq stamps'[q]
  BY DEF FilesType, Remove

LEMMA TouchType ==
  ASSUME FilesType, NEW p \in Packages, NEW s \in Stamps, Touch(s, p)
  PROVE  /\ stamps' \in [Packages -> SUBSET Stamps]
         /\ torn' \in [Packages -> SUBSET Stamps]
         /\ \A q \in Packages : torn'[q] \subseteq stamps'[q]
  BY DEF FilesType, Touch

LEMMA TreeUpdateType ==
  ASSUME FilesType, NEW p \in Packages, NEW t \in Tree
  PROVE  [tree EXCEPT ![p] = t] \in [Packages -> Tree]
  BY DEF FilesType

LEMMA TreeFieldType ==
  ASSUME FilesType, NEW p \in Packages
  PROVE  /\ \A v \in 0..MaxGen : [tree EXCEPT ![p].src = v] \in [Packages -> Tree]
         /\ \A n \in Nat : [tree EXCEPT ![p].patches = n] \in [Packages -> Tree]
         /\ \A v \in 0..MaxGen : [tree EXCEPT ![p].conf = v] \in [Packages -> Tree]
         /\ \A o \in Version : [tree EXCEPT ![p].obj = o] \in [Packages -> Tree]
<1>1. \A v \in 0..MaxGen : [tree EXCEPT ![p].src = v] \in [Packages -> Tree]
  BY DEF FilesType, Tree
<1>2. \A n \in Nat : [tree EXCEPT ![p].patches = n] \in [Packages -> Tree]
  BY DEF FilesType, Tree
<1>3. \A v \in 0..MaxGen : [tree EXCEPT ![p].conf = v] \in [Packages -> Tree]
  BY DEF FilesType, Tree
<1>4. \A o \in Version : [tree EXCEPT ![p].obj = o] \in [Packages -> Tree]
  BY DEF FilesType, Tree
<1> QED BY <1>1, <1>2, <1>3, <1>4

LEMMA WithSourcesType ==
  ASSUME NEW t \in Tree, NEW v \in 0..MaxGen
  PROVE  WithSources(t, v) \in Tree
  BY DEF WithSources, Tree

LEMMA WithoutType ==
  ASSUME NEW D, NEW i \in [Dests -> Version]
  PROVE  Without(D, i) \in [Dests -> Version]
  BY NoneType DEF Without

LEMMA TornTreeType ==
  ASSUME NEW t \in Tree, NEW gone
  PROVE  TornTree(t, gone) \in Tree
<1>1. MaxGen \in Nat \ {0}
  BY ConstantsAssumption
<1> QED BY <1>1, NoneType DEF TornTree, Tree

\* The type invariant is inductive: the files.
LEMMA FilesTypeStep ==
  ASSUME TypeOK, [Next]_vars
  PROVE  FilesType'
<1>1. FilesType
  BY TypeParts
<1>2. MaxGen \in Nat \ {0} /\ MaxFaults \in Nat /\ NPatches \in [Packages -> Nat]
  BY ConstantsAssumption
<1>3. \A p \in Packages : /\ tree[p] \in Tree
                          /\ inst[p] \in [Dests -> Version]
                          /\ srcdir[p] \in 0..MaxGen /\ cfg[p] \in 0..MaxGen
  BY <1>2 DEF TypeOK
<1>4. CASE UNCHANGED files
  BY <1>1, <1>4 DEF FilesType, files
<1>5. CASE UNCHANGED vars \/ Descend \/ UpToDate \/ \E g \in Goals : Make(g)
  BY <1>4, <1>5 DEF vars, Descend, UpToDate, Make
<1>6. CASE CleanAll
  BY <1>1, <1>3, <1>6, NoneType, WithoutType DEF CleanAll, FilesType
<1>7. CASE CleanAllCut
  <2>1. PICK n \in 1..4, gone \in CutRemovals :
          LET lost == IF n = 4 THEN gone ELSE {}
          IN /\ inst' = [p \in Packages |-> Without(FirstCleaned(n), inst[p])]
             /\ tree' = [p \in Packages |-> TornTree(tree[p], lost)]
             /\ stamps' = [p \in Packages |-> stamps[p] \ lost]
             /\ torn' = [p \in Packages |-> stamps[p] \ lost]
    BY <1>7 DEF CleanAllCut
  <2>2. tree' \in [Packages -> Tree] /\ inst' \in [Packages -> [Dests -> Version]]
    BY <1>3, <2>1, TornTreeType, WithoutType
  <2> QED BY <1>1, <1>7, <2>1, <2>2 DEF CleanAllCut, FilesType
<1>25. CASE Interrupted
  BY <1>4, <1>25 DEF Interrupted
<1>8. ASSUME NEW p \in Packages, Download(p) \/ DownloadCut(p) \/ RsyncSource(p) \/
             RecipeFails(p) \/ EditSources(p) \/ EditConfig(p)
      PROVE  FilesType'
  BY <1>1, <1>4, <1>8, TouchType DEF Download, DownloadCut, RsyncSource, RecipeFails,
       EditSources, EditConfig, FilesType, Stamps
<1>9. ASSUME NEW p \in Packages, Extract(p) \/ Rsync(p) PROVE FilesType'
  <2>1. tree' \in [Packages -> Tree]
    <3>1. CASE Extract(p)
      <4>1. WithSources(tree[p], 1) \in Tree
        BY <1>2, <1>3, WithSourcesType
      <4> QED BY <1>1, <3>1, <4>1, TreeUpdateType DEF Extract
    <3>2. CASE Rsync(p)
      BY <1>1, <1>2, <1>3, <3>2 DEF Rsync, FilesType, Tree
    <3> QED BY <1>9, <3>1, <3>2
  <2> QED BY <1>1, <1>9, <2>1, TouchType DEF Extract, Rsync, FilesType, Stamps
<1>10. ASSUME NEW p \in Packages, Patch(p) \/ Configure(p) PROVE FilesType'
  <2>1. tree' \in [Packages -> Tree]
    <3>1. CASE Patch(p)
      BY <1>1, <1>2, <3>1, TreeFieldType DEF Patch
    <3>2. CASE Configure(p)
      BY <1>1, <1>3, <3>2, TreeFieldType DEF Configure
    <3> QED BY <1>10, <3>1, <3>2
  <2> QED BY <1>1, <1>10, <2>1, TouchType DEF Patch, Configure, FilesType, Stamps
<1>11. ASSUME NEW p \in Packages, Build(p) PROVE FilesType'
  <2>1. [src |-> tree[p].src, conf |-> tree[p].conf] \in Version
    BY <1>3 DEF Tree, Version
  <2>2. tree' \in [Packages -> Tree]
    BY <1>1, <1>11, <2>1 DEF Build, Compiled, FilesType, Tree
  <2> QED BY <1>1, <1>11, <2>2, TouchType DEF Build, FilesType, Stamps
<1>12. ASSUME NEW p \in Packages, NEW d \in Dests, Install(p, d) PROVE FilesType'
  <2>1. tree[p].obj \in Version
    BY <1>3 DEF Tree
  <2>2. InstallStamp[d] \in Stamps
    BY DEF InstallStamp, Dests, Stamps, InstallStamps
  <2> QED BY <1>1, <1>12, <2>1, <2>2, TouchType DEF Install, FilesType
<1>13. ASSUME NEW p \in Packages, Uninstall(p) \/ UninstallCut(p) PROVE FilesType'
  <2>1. PICK D : inst' = [inst EXCEPT ![p] = Without(D, inst[p])]
    BY <1>13 DEF Uninstall, UninstallCut
  <2>2. PICK S : Remove(S, p)
    BY <1>13 DEF Uninstall, UninstallCut
  <2> QED BY <1>1, <1>3, <1>13, <2>1, <2>2, WithoutType, RemoveType
          DEF Uninstall, UninstallCut, FilesType
<1>14. ASSUME NEW p \in Packages, CleanPackage(p) \/ CleanPackageCut(p) PROVE FilesType'
  <2>1. tree' \in [Packages -> Tree]
    <3>1. tree' = [tree EXCEPT ![p].obj = None]
      BY <1>14 DEF CleanPackage, CleanPackageCut
    <3> QED BY <1>1, <3>1, NoneType, TreeFieldType
  <2>2. CASE CleanPackage(p)
    BY <1>1, <2>1, <2>2, RemoveType DEF CleanPackage, FilesType
  <2>3. CASE CleanPackageCut(p)
    BY <1>1, <2>1, <2>3 DEF CleanPackageCut, FilesType
  <2> QED BY <1>14, <2>2, <2>3
<1>15. ASSUME NEW p \in Packages, Dirclean(p) PROVE FilesType'
  BY <1>1, <1>15, NoneType, TreeUpdateType, RemoveType DEF Dirclean, FilesType
<1>16. ASSUME NEW p \in Packages, DircleanCut(p) PROVE FilesType'
  <2>1. PICK gone : /\ tree' = [tree EXCEPT ![p] = TornTree(tree[p], gone)]
                    /\ stamps' = [stamps EXCEPT ![p] = @ \ gone]
                    /\ torn' = [torn EXCEPT ![p] = stamps[p] \ gone]
    BY <1>16 DEF DircleanCut
  <2>2. tree' \in [Packages -> Tree]
    BY <1>1, <1>3, <2>1, TornTreeType, TreeUpdateType
  <2> QED BY <1>1, <1>16, <2>1, <2>2 DEF DircleanCut, FilesType
<1>17. ASSUME NEW p \in Packages, CleanForRebuild(p) \/ CleanForReconfigure(p)
       PROVE  FilesType'
  BY <1>1, <1>17, RemoveType DEF CleanForRebuild, CleanForReconfigure, FilesType
<1>18. ASSUME NEW p \in Packages, CleanForRebuildCut(p) PROVE FilesType'
  <2>1. PICK gone : Remove(gone, p)
    BY <1>18 DEF CleanForRebuildCut
  <2> QED BY <1>1, <1>18, <2>1, RemoveType DEF CleanForRebuildCut, FilesType
<1>19. ASSUME NEW p \in Packages, NEW s, FetchCut(s, p) PROVE FilesType'
  <2>0. 0 \in 0..MaxGen /\ 1 \in 0..MaxGen
    BY <1>2
  <2>1. PICK v \in 0..MaxGen : tree' = [tree EXCEPT ![p] = WithSources(tree[p], v)]
    BY <1>3, <1>19, <2>0 DEF FetchCut
  <2>2. WithSources(tree[p], v) \in Tree
    BY <1>3, WithSourcesType
  <2> QED BY <1>1, <1>19, <2>1, <2>2, TreeUpdateType DEF FetchCut, FilesType
<1>20. ASSUME NEW p \in Packages, PatchCut(p) PROVE FilesType'
  <2>1. PICK k \in 0..NPatches[p] : tree' = [tree EXCEPT ![p].patches = k]
    BY <1>20 DEF PatchCut
  <2>2. k \in Nat
    BY <1>2
  <2>3. tree' \in [Packages -> Tree]
    BY <1>1, <2>1, <2>2, TreeFieldType
  <2> QED BY <1>1, <1>20, <2>3 DEF PatchCut, FilesType
<1>21. ASSUME NEW p \in Packages, ConfigureCut(p) \/ BuildCut(p) PROVE FilesType'
  <2>1. tree' \in [Packages -> Tree]
    <3>1. CASE ConfigureCut(p)
      <4>1. 0 \in 0..MaxGen
        BY <1>2
      <4>2. PICK c \in 0..MaxGen : tree' = [tree EXCEPT ![p].conf = c]
        BY <1>3, <3>1, <4>1 DEF ConfigureCut
      <4> QED BY <1>1, <4>2, TreeFieldType
    <3>2. CASE BuildCut(p)
      <4>1. PICK b \in {None, Compiled(p)} : tree' = [tree EXCEPT ![p].obj = b]
        BY <3>2 DEF BuildCut
      <4>2. b \in Version
        BY <1>3, <4>1, NoneType DEF Compiled, Tree, Version
      <4> QED BY <1>1, <4>1, <4>2, TreeFieldType
    <3> QED BY <1>21, <3>1, <3>2
  <2> QED BY <1>1, <1>21, <2>1 DEF ConfigureCut, BuildCut, FilesType
<1>22. ASSUME NEW p \in Packages, NEW d \in Dests, InstallCut(p, d) PROVE FilesType'
  <2>1. PICK b \in {None, tree[p].obj} : inst' = [inst EXCEPT ![p][d] = b]
    BY <1>22 DEF InstallCut
  <2>2. b \in Version
    BY <1>3, <2>1, NoneType DEF Tree
  <2> QED BY <1>1, <1>22, <2>1, <2>2 DEF InstallCut, FilesType
<1>23. ASSUME NEW p \in Packages, EditTree(p) PROVE FilesType'
  <2>1. tree[p].src + 1 \in 0..MaxGen
    BY <1>2, <1>23 DEF EditTree
  <2> QED BY <1>1, <1>23, <2>1 DEF EditTree, FilesType, Tree
<1>24. ASSUME NEW p \in Packages, DeleteStamp(p) PROVE FilesType'
  BY <1>1, <1>24, RemoveType DEF DeleteStamp, FilesType
<1> QED
  BY <1>5, <1>6, <1>7, <1>8, <1>9, <1>10, <1>11, <1>12, <1>13, <1>14, <1>15, <1>16,
     <1>17, <1>18, <1>19, <1>20, <1>21, <1>22, <1>23, <1>24, <1>25
  DEF Next, MakeStep, CutStep, UserStep

\* The stamps change where one is touched and where some are removed; only
\* there a package becomes stale, or ceases to be.
LEMMA StaleMoves ==
  ASSUME [Next]_vars
  PROVE  \/ UNCHANGED <<stamps, stale>>
         \/ \E p \in Packages, s \in Stamps : Runs(s, p) /\ Touch(s, p)
         \/ Ages
<1>1. CASE UNCHANGED vars \/ Descend \/ UpToDate \/ Interrupted \/ \E g \in Goals : Make(g)
  BY <1>1 DEF vars, files, Descend, UpToDate, Interrupted, Make
<1>2. CASE CleanAll \/ CleanAllCut
  BY <1>2 DEF CleanAll, CleanAllCut, Ages
<1>3. ASSUME NEW p \in Packages,
             \/ Download(p) \/ Extract(p) \/ Rsync(p) \/ Patch(p) \/ Configure(p) \/ Build(p)
             \/ \E d \in Dests : Install(p, d)
      PROVE  \E s \in Stamps : Runs(s, p) /\ Touch(s, p)
  <2>1. \A d \in Dests : InstallStamp[d] \in Stamps
    BY DEF InstallStamp, Dests, Stamps, InstallStamps
  <2> QED BY <1>3, <2>1 DEF Download, Extract, Rsync, Patch, Configure, Build, Install, Stamps
<1>4. ASSUME NEW p \in Packages,
             \/ Uninstall(p) \/ UninstallCut(p) \/ CleanPackage(p) \/ Dirclean(p)
             \/ DircleanCut(p) \/ CleanForRebuild(p) \/ CleanForRebuildCut(p)
             \/ CleanForReconfigure(p) \/ DeleteStamp(p)
      PROVE  Ages
  BY <1>4 DEF Uninstall, UninstallCut, CleanPackage, Dirclean, DircleanCut, CleanForRebuild,
              CleanForRebuildCut, CleanForReconfigure, DeleteStamp, Remove
<1>5. ASSUME NEW p \in Packages,
             \/ RsyncSource(p) \/ RecipeFails(p) \/ DownloadCut(p)
             \/ FetchCut("extracted", p) \/ FetchCut("rsynced", p) \/ PatchCut(p)
             \/ ConfigureCut(p) \/ BuildCut(p) \/ (\E d \in Dests : InstallCut(p, d))
             \/ CleanPackageCut(p) \/ EditSources(p) \/ EditTree(p) \/ EditConfig(p)
      PROVE  UNCHANGED <<stamps, stale>>
  BY <1>5 DEF RsyncSource, RecipeFails, DownloadCut, FetchCut, PatchCut, ConfigureCut, BuildCut,
              InstallCut, CleanPackageCut, EditSources, EditTree, EditConfig, files
<1> QED BY <1>1, <1>2, <1>3, <1>4, <1>5 DEF Next, MakeStep, CutStep, UserStep

LEMMA StaleType ==
  ASSUME TypeOK, [Next]_vars
  PROVE  stale' \in SUBSET Packages
  BY StaleMoves DEF TypeOK, Touch, Ages

\* What a step does to the walk of make.
LEMMA EngineMoves ==
  ASSUME [Next]_vars
  PROVE  \/ UNCHANGED engine
         \/ Abort
         \/ Descend
         \/ \E g \in Goals : Make(g)
         \/ stack # <<>> /\ Ready(Top) /\ Return
<1>1. CASE UNCHANGED vars
  BY <1>1 DEF vars
<1>2. CASE CutStep
  BY <1>2 DEF CutStep, Interrupted, CleanAllCut, DownloadCut, FetchCut, PatchCut, ConfigureCut, BuildCut,
       InstallCut, UninstallCut, CleanPackageCut, DircleanCut, CleanForRebuildCut, Fault
<1>3. CASE UserStep
  BY <1>3 DEF UserStep, EditSources, EditTree, EditConfig, DeleteStamp
<1>4. CASE MakeStep
  <2>1. CASE Descend \/ UpToDate \/ CleanAll
    BY <2>1 DEF UpToDate, CleanAll, Ready
  <2>2. ASSUME NEW p \in Packages,
               Download(p) \/ Extract(p) \/ Rsync(p) \/ Patch(p) \/ Configure(p) \/ Build(p)
        PROVE  stack # <<>> /\ Ready(Top) /\ Return
    BY <2>2 DEF Download, Extract, Rsync, Patch, Configure, Build, Runs, Ready, Touch
  <2>3. ASSUME NEW p \in Packages, NEW d \in Dests, Install(p, d)
        PROVE  stack # <<>> /\ Ready(Top) /\ Return
    BY <2>3 DEF Install, Runs, Ready, Touch
  <2>4. ASSUME NEW p \in Packages,
               RsyncSource(p) \/ Uninstall(p) \/ CleanPackage(p) \/ Dirclean(p) \/
               CleanForRebuild(p) \/ CleanForReconfigure(p)
        PROVE  stack # <<>> /\ Ready(Top) /\ Return
    BY <2>4 DEF RsyncSource, Uninstall, CleanPackage, Dirclean, CleanForRebuild,
         CleanForReconfigure, Ready
  <2>5. ASSUME NEW p \in Packages, RecipeFails(p) PROVE Abort
    BY <2>5 DEF RecipeFails
  <2> QED BY <1>4, <2>1, <2>2, <2>3, <2>4, <2>5 DEF MakeStep
<1> QED BY <1>1, <1>2, <1>3, <1>4 DEF Next

LEMMA EngineTypeStep ==
  ASSUME TypeOK, [Next]_vars
  PROVE  EngineType'
<1>1. EngineType
  BY TypeParts
<1>2. CASE UNCHANGED engine
  BY <1>1, <1>2 DEF engine, EngineType
<1> QED BY <1>1, <1>2, EngineMoves, AbortType, DescendType, MakeType, ReturnType

LEMMA UserTypeStep ==
  ASSUME TypeOK, [Next]_vars
  PROVE  UserType'
<1>1. UserType /\ MaxGen \in Nat \ {0} /\ MaxFaults \in Nat
  BY TypeParts, ConstantsAssumption
<1>2. CASE UNCHANGED <<user, faults>>
  BY <1>1, <1>2 DEF user, UserType
<1>3. CASE UNCHANGED user /\ Fault
  BY <1>1, <1>3 DEF user, UserType, Fault
<1>4. ASSUME NEW p \in Packages, EditSources(p) PROVE UserType'
  BY <1>1, <1>4 DEF EditSources, UserType
<1>5. ASSUME NEW p \in Packages, EditConfig(p) PROVE UserType'
  BY <1>1, <1>5 DEF EditConfig, UserType
<1>6. CASE CutStep
  BY <1>3, <1>6 DEF CutStep, Interrupted, CleanAllCut, DownloadCut, FetchCut, PatchCut, ConfigureCut,
       BuildCut, InstallCut, UninstallCut, CleanPackageCut, DircleanCut, CleanForRebuildCut
<1>7. CASE MakeStep
  BY <1>2, <1>7 DEF MakeStep, Descend, UpToDate, CleanAll, Download, Extract, Rsync, Patch,
       Configure, Build, Install, RsyncSource, Uninstall, CleanPackage, Dirclean,
       CleanForRebuild, CleanForReconfigure, RecipeFails
<1>8. CASE UserStep
  BY <1>2, <1>4, <1>5, <1>8 DEF UserStep, Make, EditTree, DeleteStamp
<1>9. CASE UNCHANGED vars
  BY <1>2, <1>9 DEF vars
<1> QED BY <1>6, <1>7, <1>8, <1>9 DEF Next

\* Type correctness of the package infrastructure: every variable keeps its
\* type whatever the recipes, the faults and the user do.
THEOREM TypeCorrect == Spec => []TypeOK
<1>1. Init => TypeOK
  <2> SUFFICES ASSUME Init PROVE TypeOK
    OBVIOUS
  <2>1. MaxGen \in Nat \ {0} /\ MaxFaults \in Nat
    BY ConstantsAssumption
  <2>2. stack \in Seq(Targets)
    BY DEF Init
  <2> QED BY <2>1, <2>2, NoneType DEF Init, TypeOK
<1>2. TypeOK /\ [Next]_vars => TypeOK'
  <2> SUFFICES ASSUME TypeOK, [Next]_vars PROVE TypeOK'
    OBVIOUS
  <2> QED BY EngineTypeStep, FilesTypeStep, UserTypeStep, StaleType
          DEF TypeOK, EngineType, FilesType, UserType
<1> QED BY <1>1, <1>2, PTL DEF Spec

-----------------------------------------------------------------------------
(* The inductive invariant *)

Undoing == {"uninstalled", "dircleaned"}

\* Every target under consideration was reached from the one before it, after
\* all the earlier prerequisites of that one.
StackIsPath ==
  \A i \in 1..(Len(stack) - 1) : \E j \in DOMAIN Prereqs(stack[i]) :
    /\ stack[i + 1] = Prereqs(stack[i])[j]
    /\ \A k \in 1..(j - 1) : Prereqs(stack[i])[k] \in done

\* make is done with a target only after all its prerequisites.
DoneIsClosed ==
  \A t \in done : \A i \in DOMAIN Prereqs(t) : Prereqs(t)[i] \in done

\* What the order of the prerequisites guarantees about stamps on the stack.
StampContext ==
  \A i \in 1..Len(stack) :
    /\ stack[i][1] = "configured" => /\ <<"depends", stack[i][2]>> \in done
                                     /\ \/ stack[i][2] \in Overrides
                                        \/ <<"patch", stack[i][2]>> \in done
    /\ stack[i][1] = "patched"    => /\ <<"extract", stack[i][2]>> \in done
                                     /\ stack[i][2] \notin Overrides
    /\ stack[i][1] = "extracted"  => /\ <<"source", stack[i][2]>> \in done
                                     /\ stack[i][2] \notin Overrides
    /\ stack[i][1] = "rsynced"    => stack[i][2] \in Overrides
    /\ stack[i][1] = "cleaned"    => <<"uninstall", stack[i][2]>> \in done

\* The targets that remove stamps come before everything else ...
RemovalsFirst ==
  stack # <<>> =>
    /\ Top[1] \in {"clean-for-rebuild", "clean-for-reconfigure"} =>
         \A t \in done : t[1] = "clean-for-rebuild"
    /\ Top[1] \in {"rebuild", "reconfigure", "dirclean"} /\ Prereqs(Top)[1] \notin done =>
         done = {}
    /\ Top[1] \in {"dircleaned", "top-clean"} => done = {}

\* ... or after everything else.
RemovalsLast ==
  stack # <<>> /\ (\E t \in done : t[1] \in Undoing) =>
    /\ Top[1] \in {"uninstall", "clean", "cleaned", "dirclean"}
    /\ Top[1] \in {"uninstall", "dirclean"} =>
         \A i \in DOMAIN Prereqs(Top) : Prereqs(Top)[i] \in done
    /\ Top[1] = "clean" => <<"uninstall", Top[2]>> \in done

EngineInv ==
  /\ stack = <<>> => done = {}
  /\ StackIsPath
  /\ DoneIsClosed
  /\ StampContext
  /\ RemovalsFirst
  /\ RemovalsLast

\* The stamps make is done with exist, unless the package was uninstalled since.
DoneStampsExist ==
  \A t \in done : t[1] \in Stamps =>
    t[1] \in stamps[t[2]] \/ <<"uninstalled", t[2]>> \in done

\* An override package is rsynced, the others are extracted and then patched.
StampOrder ==
  \A p \in Packages :
    /\ p \in Overrides => "extracted" \notin stamps[p] /\ "patched" \notin stamps[p]
    /\ p \notin Overrides => "rsynced" \notin stamps[p]
    /\ "patched" \in stamps[p] \ torn[p] => "extracted" \in stamps[p]

Trusted(p) == stamps[p] \ torn[p]

\* StampSound, stamp by stamp.
SoundAt(p) ==
  /\ "downloaded" \in Trusted(p) => p \in dl
  /\ Trusted(p) \intersect {"extracted", "rsynced"} # {} => tree[p].src > 0
  /\ "patched" \in Trusted(p) => tree[p].patches = NPatches[p]
  /\ "configured" \in Trusted(p) => tree[p].conf > 0
  /\ "built" \in Trusted(p) => tree[p].obj # None
  /\ \A d \in Dests : InstallStamp[d] \in Trusted(p) => inst[p][d] # None

Sound == \A p \in Packages : SoundAt(p)

IInv == /\ TypeOK
        /\ EngineInv
        /\ DoneStampsExist
        /\ StampOrder
        /\ Sound

-----------------------------------------------------------------------------
(* The walk of make preserves its part of the invariant *)

\* When no make runs nothing is done.
LEMMA EmptyWalk ==
  ASSUME stack = <<>>, done = {}
  PROVE  EngineInv
  BY DEF EngineInv, StackIsPath, DoneIsClosed, StampContext, RemovalsFirst, RemovalsLast

LEMMA MakeInv ==
  ASSUME NEW g \in Goals, Make(g)
  PROVE  EngineInv'
<1>1. stack' = <<g>> /\ done' = {} /\ g[1] \in HumanKinds
  BY DEF Make, Goals
<1>2. g[1] \notin {"configured", "patched", "extracted", "rsynced", "cleaned"}
  BY <1>1 DEF HumanKinds
<1> QED
  BY <1>1, <1>2
  DEF EngineInv, StackIsPath, DoneIsClosed, StampContext, RemovalsFirst, RemovalsLast

LEMMA DescendInv ==
  ASSUME TypeOK, EngineInv, Descend
  PROVE  EngineInv'
<1>1. /\ stack \in Seq(Targets) /\ stack # <<>> /\ Len(stack) \in Nat \ {0}
      /\ Top \in Targets /\ Top = stack[Len(stack)]
      /\ done' = done
  BY TypeParts, TopType DEF Descend, EngineType, Top
<1>2. PICK i \in DOMAIN Prereqs(Top) :
        /\ Prereqs(Top)[i] \notin done
        /\ \A j \in 1..(i - 1) : Prereqs(Top)[j] \in done
        /\ stack' = Append(stack, Prereqs(Top)[i])
  BY DEF Descend
<1> DEFINE u == Prereqs(Top)[i]
<1>3. /\ Len(stack') = Len(stack) + 1
      /\ \A n \in 1..Len(stack) : stack'[n] = stack[n]
      /\ stack'[Len(stack) + 1] = u
      /\ stack' # <<>>
      /\ Top' = u
  BY <1>1, <1>2 DEF Top
<1>4. PrereqFact(Top, i)
  BY <1>1, <1>2, PrereqFacts
<1>5. StackIsPath'
  <2> SUFFICES ASSUME NEW n \in 1..(Len(stack') - 1)
               PROVE  \E j \in DOMAIN Prereqs(stack'[n]) :
                        /\ stack'[n + 1] = Prereqs(stack'[n])[j]
                        /\ \A k \in 1..(j - 1) : Prereqs(stack'[n])[k] \in done'
    BY DEF StackIsPath
  <2>1. CASE n = Len(stack)
    BY <1>1, <1>2, <1>3, <2>1
  <2>2. CASE n # Len(stack)
    <3>1. n \in 1..(Len(stack) - 1) /\ stack'[n] = stack[n] /\ stack'[n + 1] = stack[n + 1]
      BY <1>1, <1>3, <2>2
    <3> QED BY <1>1, <3>1 DEF EngineInv, StackIsPath
  <2> QED BY <2>1, <2>2
<1>6. DoneIsClosed'
  BY <1>1 DEF EngineInv, DoneIsClosed
<1>7. StampContext'
  <2> SUFFICES ASSUME NEW n \in 1..Len(stack')
               PROVE  /\ stack'[n][1] = "configured" =>
                           /\ <<"depends", stack'[n][2]>> \in done
                           /\ \/ stack'[n][2] \in Overrides
                              \/ <<"patch", stack'[n][2]>> \in done
                      /\ stack'[n][1] = "patched" => /\ <<"extract", stack'[n][2]>> \in done
                                                     /\ stack'[n][2] \notin Overrides
                      /\ stack'[n][1] = "extracted" => /\ <<"source", stack'[n][2]>> \in done
                                                       /\ stack'[n][2] \notin Overrides
                      /\ stack'[n][1] = "rsynced" => stack'[n][2] \in Overrides
                      /\ stack'[n][1] = "cleaned" => <<"uninstall", stack'[n][2]>> \in done
    BY <1>1 DEF StampContext
  <2>1. CASE n = Len(stack) + 1
    <3>1. stack'[n] = u
      BY <1>3, <2>1
    <3> QED BY <1>2, <1>4, <3>1 DEF PrereqFact
  <2>2. CASE n # Len(stack) + 1
    <3>1. n \in 1..Len(stack) /\ stack'[n] = stack[n]
      BY <1>1, <1>3, <2>2
    <3>2. StampContext
      BY DEF EngineInv
    <3> QED BY <3>1, <3>2 DEF StampContext
  <2> QED BY <2>1, <2>2
<1>8. RemovalsFirst'
  <2>1. u[1] \in {"clean-for-rebuild", "clean-for-reconfigure"} =>
           \A t \in done : t[1] = "clean-for-rebuild"
    BY <1>1, <1>2, <1>4 DEF EngineInv, RemovalsFirst, PrereqFact
  <2>2. u[1] \notin {"rebuild", "reconfigure", "dirclean", "top-clean"}
    BY <1>4 DEF PrereqFact
  <2>3. u[1] = "dircleaned" => done = {}
    BY <1>1, <1>2, <1>4 DEF EngineInv, RemovalsFirst, PrereqFact
  <2> QED BY <1>1, <1>3, <2>1, <2>2, <2>3 DEF RemovalsFirst
<1>9. RemovalsLast'
  <2> SUFFICES ASSUME \E t \in done : t[1] \in Undoing
               PROVE  /\ u[1] \in {"uninstall", "clean", "cleaned", "dirclean"}
                      /\ u[1] \in {"uninstall", "dirclean"} =>
                           \A n \in DOMAIN Prereqs(u) : Prereqs(u)[n] \in done
                      /\ u[1] = "clean" => <<"uninstall", u[2]>> \in done
    BY <1>1, <1>3 DEF RemovalsLast
  <2>1. /\ Top[1] \in {"clean", "cleaned"}
        /\ Top[1] = "clean" => <<"uninstall", Top[2]>> \in done
    BY <1>1, <1>2 DEF EngineInv, RemovalsLast
  <2>2. Top[1] = "clean" /\ <<"uninstall", Top[2]>> \in done
    <3>1. Top[1] = "cleaned" => Prereqs(Top) = <<>>
      BY DEF Prereqs
    <3>2. Prereqs(Top) # <<>>
      BY <1>2
    <3> QED BY <2>1, <3>1, <3>2
  <2>3. u = <<"cleaned", Top[2]>>
    BY <1>2, <2>2 DEF Prereqs
  <2> QED BY <2>3
<1> QED
  BY <1>3, <1>5, <1>6, <1>7, <1>8, <1>9 DEF EngineInv

LEMMA PrefixProperties ==
  ASSUME NEW s \in Seq(Targets), NEW m \in Nat \ {0}, m <= Len(s)
  PROVE  /\ Len(SubSeq(s, 1, m)) = m
         /\ \A n \in 1..m : SubSeq(s, 1, m)[n] = s[n]
  OBVIOUS

LEMMA ReturnInv ==
  ASSUME TypeOK, EngineInv, stack # <<>>, Ready(Top), Return
  PROVE  EngineInv'
<1>1. /\ stack \in Seq(Targets) /\ Len(stack) \in Nat \ {0}
      /\ Top \in Targets /\ Top = stack[Len(stack)]
      /\ done \in SUBSET Targets
  BY TypeParts, TopType DEF EngineType, Top
<1>2. CASE Len(stack) = 1
  <2>1. stack' = <<>> /\ done' = {}
    BY <1>2 DEF Return
  <2> QED
    BY <2>1
    DEF EngineInv, StackIsPath, DoneIsClosed, StampContext, RemovalsFirst, RemovalsLast
<1>3. CASE Len(stack) # 1
  <2> DEFINE m == Len(stack) - 1
             t == stack[m]
  <2>1. /\ stack' = SubSeq(stack, 1, m) /\ done' = done \union {Top}
    BY <1>3 DEF Return
  <2>2. /\ m \in Nat \ {0} /\ Len(stack') = m /\ stack' # <<>>
        /\ \A n \in 1..m : stack'[n] = stack[n]
        /\ Top' = t /\ t \in Targets
    <3>1. m \in Nat \ {0} /\ m <= Len(stack)
      BY <1>1, <1>3
    <3>2. Len(stack') = m /\ \A n \in 1..m : stack'[n] = stack[n]
      BY <1>1, <2>1, <3>1, PrefixProperties
    <3>3. stack' # <<>> /\ t \in Targets
      BY <1>1, <3>1, <3>2
    <3> QED BY <3>1, <3>2, <3>3 DEF Top
  <2>3. PICK j \in DOMAIN Prereqs(t) :
          /\ Top = Prereqs(t)[j]
          /\ \A k \in 1..(j - 1) : Prereqs(t)[k] \in done
    BY <1>1, <1>3, <2>2 DEF EngineInv, StackIsPath
  <2>4. PrereqFact(t, j)
    BY <2>2, <2>3, PrereqFacts
  <2>5. StackIsPath'
    <3> SUFFICES ASSUME NEW n \in 1..(Len(stack') - 1)
                 PROVE  \E k \in DOMAIN Prereqs(stack'[n]) :
                          /\ stack'[n + 1] = Prereqs(stack'[n])[k]
                          /\ \A h \in 1..(k - 1) : Prereqs(stack'[n])[h] \in done'
      BY DEF StackIsPath
    <3>1. /\ n \in 1..(Len(stack) - 1)
          /\ stack'[n] = stack[n] /\ stack'[n + 1] = stack[n + 1]
      BY <1>1, <2>2
    <3> QED BY <2>1, <3>1 DEF EngineInv, StackIsPath
  <2>6. DoneIsClosed'
    BY <1>1, <2>1 DEF EngineInv, DoneIsClosed, Ready
  <2>7. StampContext'
    BY SMTT(60), <1>1, <2>1, <2>2 DEF EngineInv, StampContext
  <2>8. RemovalsFirst'
    <3>1. ASSUME t[1] \in {"clean-for-rebuild", "clean-for-reconfigure"}
          PROVE  \A d \in done' : d[1] = "clean-for-rebuild"
      <4>1. t[1] = "clean-for-reconfigure"
        <5>1. t[1] = "clean-for-rebuild" => Prereqs(t) = <<>>
          BY DEF Prereqs
        <5> QED BY <2>3, <3>1, <5>1
      <4>2. Top[1] = "clean-for-rebuild"
        BY <2>3, <4>1 DEF Prereqs
      <4> QED BY <1>1, <2>1, <4>2 DEF EngineInv, RemovalsFirst
    <3>2. Prereqs(t)[1] \in done'
      <4>1. CASE j = 1
        BY <2>1, <2>3, <4>1
      <4>2. CASE j # 1
        <5>1. 1 \in 1..(j - 1)
          <6>1. DOMAIN Prereqs(t) \subseteq Nat \ {0}
            BY <2>2, PrereqsDomain
          <6> QED BY <2>3, <4>2, <6>1
        <5> QED BY <2>1, <2>3, <5>1
      <4> QED BY <4>1, <4>2
    <3>3. t[1] \notin {"dircleaned", "top-clean"}
      <4>1. t[1] \in {"dircleaned", "top-clean"} => Prereqs(t) = <<>>
        BY DEF Prereqs
      <4> QED BY <2>3, <4>1
    <3> QED BY <2>2, <3>1, <3>2, <3>3 DEF RemovalsFirst
  <2>9. RemovalsLast'
    <3> SUFFICES ASSUME \E d \in done' : d[1] \in Undoing
                 PROVE  /\ t[1] \in {"uninstall", "clean", "cleaned", "dirclean"}
                        /\ t[1] \in {"uninstall", "dirclean"} =>
                             \A n \in DOMAIN Prereqs(t) : Prereqs(t)[n] \in done'
                        /\ t[1] = "clean" => <<"uninstall", t[2]>> \in done'
      BY <2>2 DEF RemovalsLast
    <3>1. Top[1] \in Undoing \/
            Top[1] \in {"uninstall", "clean", "cleaned", "dirclean"}
      BY <1>1, <2>1 DEF EngineInv, RemovalsLast
    <3>2. CASE Top[1] = "uninstalled"
      <4>1. t[1] = "uninstall" /\ j = 2 /\ DOMAIN Prereqs(t) = 1..2
        BY <2>3, <2>4, <3>2 DEF PrereqFact
      <4> QED BY <2>1, <2>3, <4>1
    <3>3. CASE Top[1] = "dircleaned"
      <4>1. t[1] = "dirclean" /\ j = 1 /\ DOMAIN Prereqs(t) = 1..1
        BY <2>3, <2>4, <3>3 DEF PrereqFact
      <4> QED BY <2>1, <2>3, <4>1
    <3>4. CASE Top[1] = "uninstall"
      <4>1. t = <<"clean", Top[2]>> /\ Top = <<"uninstall", Top[2]>>
        BY <1>1, <2>3, <2>4, <3>4, TargetPair DEF PrereqFact
      <4> QED BY <2>1, <4>1
    <3>5. CASE Top[1] = "cleaned"
      <4>1. t[1] = "clean" /\ <<"uninstall", Top[2]>> \in done
        BY <2>3, <2>4, <3>5 DEF PrereqFact
      <4>2. Top[2] = t[2]
        BY <2>3, <3>5, <4>1 DEF Prereqs
      <4> QED BY <2>1, <4>1, <4>2
    <3>6. CASE Top[1] \in {"clean", "dirclean"}
      BY <2>3, <2>4, <3>6 DEF PrereqFact
    <3> QED BY <3>1, <3>2, <3>3, <3>4, <3>5, <3>6 DEF Undoing
  <2> QED BY <2>2, <2>5, <2>6, <2>7, <2>8, <2>9 DEF EngineInv
<1> QED BY <1>2, <1>3

LEMMA EngineInvStep ==
  ASSUME TypeOK, EngineInv, [Next]_vars
  PROVE  EngineInv'
<1>1. CASE UNCHANGED engine
  BY <1>1
  DEF engine, EngineInv, StackIsPath, DoneIsClosed, StampContext, RemovalsFirst,
      RemovalsLast, Top
<1>2. CASE Abort
  <2>1. stack' = <<>> /\ done' = {}
    BY <1>2 DEF Abort
  <2> QED
    BY <2>1
    DEF EngineInv, StackIsPath, DoneIsClosed, StampContext, RemovalsFirst, RemovalsLast
<1> QED BY <1>1, <1>2, EngineMoves, DescendInv, MakeInv, ReturnInv

-----------------------------------------------------------------------------
(* The stamps and the files preserve their part *)

LEMMA ReturnDone ==
  ASSUME Return
  PROVE  done' = {} \/ done' = done \union {Top}
  BY DEF Return

\* A package being rebuilt keeps its early stamps.
LEMMA RebuildStampsRange ==
  ASSUME NEW p, NEW n \in 0..Len(RebuildStamps(p))
  PROVE  FirstRebuildStamps(n, p) \subseteq {"rsynced", "built"} \union InstallStamps
<1>1. CASE p \in Overrides
  <2>1. RebuildStamps(p) = <<"rsynced", "built", "staging_installed", "target_installed",
                             "images_installed", "host_installed">>
    BY <1>1 DEF RebuildStamps
  <2> QED BY <2>1 DEF FirstRebuildStamps, InstallStamps
<1>2. CASE p \notin Overrides
  <2>1. RebuildStamps(p) = <<"built", "staging_installed", "target_installed",
                             "images_installed", "host_installed">>
    BY <1>2 DEF RebuildStamps
  <2> QED BY <2>1 DEF FirstRebuildStamps, InstallStamps
<1> QED BY <1>1, <1>2

LEMMA RebuildStampsLength ==
  ASSUME NEW p
  PROVE  Len(RebuildStamps(p)) \in Nat \ {0}
  BY DEF RebuildStamps

\* A stamp that make is done with and that no uninstall removed exists.
LEMMA DoneStampExists ==
  ASSUME EngineInv, DoneStampsExist, stack # <<>>, NEW t \in done, t[1] \in Stamps,
         Top[1] \notin {"uninstall", "clean", "cleaned", "dirclean"}
  PROVE  t[1] \in stamps[t[2]]
<1>1. <<"uninstalled", t[2]>> \notin done
  BY DEF EngineInv, RemovalsLast, Undoing
<1> QED BY <1>1 DEF DoneStampsExist

\* The context of the innermost target.
LEMMA TopContext ==
  ASSUME TypeOK, EngineInv, stack # <<>>, NEW p, NEW s, Top = <<s, p>>
  PROVE  /\ s = "configured" => /\ <<"depends", p>> \in done
                                /\ p \in Overrides \/ <<"patch", p>> \in done
         /\ s = "patched"    => <<"extract", p>> \in done /\ p \notin Overrides
         /\ s = "extracted"  => <<"source", p>> \in done /\ p \notin Overrides
         /\ s = "rsynced"    => p \in Overrides
         /\ s = "cleaned"    => <<"uninstall", p>> \in done
<1> DEFINE n == Len(stack)
<1>1. stack \in Seq(Targets) /\ n \in 1..Len(stack)
  BY DEF TypeOK
<1>2. stack[n] = <<s, p>>
  BY DEF Top
<1>3. stack[n][1] = s /\ stack[n][2] = p
  BY <1>2
<1> HIDE DEF n
<1> QED BY <1>1, <1>3 DEF EngineInv, StampContext

LEMMA DoneStampsStep ==
  ASSUME TypeOK, EngineInv, DoneStampsExist, [Next]_vars
  PROVE  DoneStampsExist'
<1>1. CASE done' = {}
  BY <1>1 DEF DoneStampsExist
<1>2. CASE UNCHANGED <<stamps, done>>
  BY <1>2 DEF DoneStampsExist
<1>3. ASSUME UNCHANGED stamps, Return, Top[1] \in Stamps => Top[1] \in stamps[Top[2]]
      PROVE  DoneStampsExist'
  BY <1>3, ReturnDone DEF DoneStampsExist
<1>4. ASSUME NEW s \in Stamps, NEW p \in Packages, Ready(<<s, p>>), Touch(s, p)
      PROVE  DoneStampsExist'
  <2>1. Top = <<s, p>> /\ (done' = {} \/ done' = done \union {<<s, p>>})
    BY <1>4, ReturnDone DEF Ready, Touch
  <2>2. /\ stamps \in [Packages -> SUBSET Stamps] /\ done \in SUBSET Targets
        /\ stamps' = [stamps EXCEPT ![p] = @ \union {s}]
    BY <1>4 DEF Touch, TypeOK
  <2>3. \A t \in done : t[2] \in Packages
    BY <2>2, TargetPair
  <2> QED BY <2>1, <2>2, <2>3 DEF DoneStampsExist
<1>5. CASE UNCHANGED vars \/ Descend \/ UpToDate \/ CleanAll \/ \E g \in Goals : Make(g)
  <2>1. CASE UNCHANGED vars \/ Descend
    BY <1>2, <2>1 DEF vars, Descend, files, engine
  <2>2. CASE UpToDate
    BY <1>3, <2>2 DEF UpToDate, HasRecipe, files
  <2>3. CASE CleanAll
    <3>1. done = {} /\ done' \subseteq {<<"top-clean", Toolchain>>}
      BY <2>3, ReturnDone DEF CleanAll, Ready, EngineInv, RemovalsFirst
    <3> QED BY <3>1 DEF DoneStampsExist, Stamps, InstallStamps
  <2>4. CASE \E g \in Goals : Make(g)
    BY <1>1, <2>4 DEF Make
  <2> QED BY <1>5, <2>1, <2>2, <2>3, <2>4
<1>6. CASE CutStep
  BY <1>1, <1>6
  DEF CutStep, Interrupted, CleanAllCut, DownloadCut, FetchCut, PatchCut, ConfigureCut, BuildCut,
      InstallCut, UninstallCut, CleanPackageCut, DircleanCut, CleanForRebuildCut, Fault, Abort
<1>7. ASSUME NEW p \in Packages,
             Download(p) \/ Extract(p) \/ Rsync(p) \/ Patch(p) \/ Configure(p) \/ Build(p)
      PROVE  DoneStampsExist'
  <2>1. PICK s \in Stamps : Ready(<<s, p>>) /\ Touch(s, p)
    BY <1>7 DEF Download, Extract, Rsync, Patch, Configure, Build, Runs, Stamps
  <2> QED BY <1>4, <2>1
<1>8. ASSUME NEW p \in Packages, NEW d \in Dests, Install(p, d) PROVE DoneStampsExist'
  <2>1. InstallStamp[d] \in Stamps
    BY DEF InstallStamp, Dests, Stamps, InstallStamps
  <2> QED BY <1>4, <1>8, <2>1 DEF Install, Runs
<1>9. ASSUME NEW p \in Packages, RsyncSource(p) \/ RecipeFails(p) PROVE DoneStampsExist'
  <2>1. CASE RsyncSource(p)
    <3>1. Top[1] \notin Stamps
      BY <2>1 DEF RsyncSource, Ready, Stamps, InstallStamps
    <3> QED BY <1>3, <2>1, <3>1 DEF RsyncSource, files
  <2>2. CASE RecipeFails(p)
    BY <1>1, <2>2 DEF RecipeFails, Abort
  <2> QED BY <1>9, <2>1, <2>2
<1>10. ASSUME NEW p \in Packages, Uninstall(p) \/ CleanPackage(p) PROVE DoneStampsExist'
  <2>1. /\ stamps \in [Packages -> SUBSET Stamps] /\ done \in SUBSET Targets
        /\ \A t \in done : t[2] \in Packages
    BY TargetPair DEF TypeOK
  <2>2. /\ Top[1] \notin Stamps
        /\ done' = {} \/ done' = done \union {Top}
        /\ \A q \in Packages \ {p} : stamps'[q] = stamps[q]
    BY <1>10, <2>1, ReturnDone
    DEF Uninstall, CleanPackage, Ready, Remove, Stamps, InstallStamps
  <2>3. done' # {} => <<"uninstalled", p>> \in done'
    <3>1. CASE Uninstall(p)
      BY <2>2, <3>1 DEF Uninstall, Ready
    <3>2. CASE CleanPackage(p)
      <4>1. Top = <<"cleaned", p>> /\ stack # <<>> /\ stack \in Seq(Targets)
        BY <3>2 DEF CleanPackage, Ready, TypeOK
      <4>2. <<"uninstall", p>> \in done
        BY <4>1, TopContext
      <4>3. Prereqs(<<"uninstall", p>>) = << <<"configure", p>>, <<"uninstalled", p>> >>
        BY DEF Prereqs
      <4>4. <<"uninstalled", p>> \in done
        BY <4>2, <4>3 DEF EngineInv, DoneIsClosed
      <4> QED BY <2>2, <4>4
    <3> QED BY <1>10, <3>1, <3>2
  <2> QED BY <2>1, <2>2, <2>3 DEF DoneStampsExist
<1>11. ASSUME NEW p \in Packages,
              Dirclean(p) \/ CleanForRebuild(p) \/ CleanForReconfigure(p)
       PROVE  DoneStampsExist'
  <2>1. /\ \A t \in done : t[1] = "clean-for-rebuild"
        /\ Top[1] \in {"dircleaned", "clean-for-rebuild", "clean-for-reconfigure"}
        /\ done' \subseteq done \union {Top}
    BY <1>11, ReturnDone
    DEF Dirclean, CleanForRebuild, CleanForReconfigure, Ready, EngineInv, RemovalsFirst
  <2> QED BY <2>1 DEF DoneStampsExist, Stamps, InstallStamps
<1>12. ASSUME NEW p \in Packages,
              EditSources(p) \/ EditTree(p) \/ EditConfig(p) \/ DeleteStamp(p)
       PROVE  DoneStampsExist'
  <2>1. CASE EditSources(p) \/ EditTree(p) \/ EditConfig(p)
    BY <1>2, <2>1 DEF EditSources, EditTree, EditConfig, files, engine
  <2>2. CASE DeleteStamp(p)
    BY <1>1, <2>2 DEF DeleteStamp, Idle, EngineInv, engine
  <2> QED BY <1>12, <2>1, <2>2
<1> QED
  BY <1>5, <1>6, <1>7, <1>8, <1>9, <1>10, <1>11, <1>12 DEF Next, MakeStep, UserStep

\* How the recipes that touch a stamp change the stamps.
LEMMA TouchStep ==
  ASSUME TypeOK, NEW s, NEW p \in Packages, Touch(s, p)
  PROVE  /\ stamps'[p] = stamps[p] \union {s}
         /\ torn'[p] = torn[p] \ {s}
         /\ \A q \in Packages \ {p} : stamps'[q] = stamps[q] /\ torn'[q] = torn[q]
  BY DEF TypeOK, Touch

LEMMA RemoveStep ==
  ASSUME TypeOK, NEW S, NEW p \in Packages, Remove(S, p)
  PROVE  /\ stamps'[p] = stamps[p] \ S
         /\ torn'[p] = torn[p] \ S
         /\ \A q \in Packages \ {p} : stamps'[q] = stamps[q] /\ torn'[q] = torn[q]
  BY DEF TypeOK, Remove

LEMMA InstallStampFact ==
  /\ InstallStamp["staging"] = "staging_installed"
  /\ InstallStamp["target"] = "target_installed"
  /\ InstallStamp["images"] = "images_installed"
  /\ InstallStamp["host"] = "host_installed"
  /\ Dests = {"staging", "target", "images", "host"}
  BY DEF InstallStamp, Dests

LEMMA InstallStampDistinct ==
  /\ \A d \in Dests : InstallStamp[d] \in InstallStamps
  /\ \A d, e \in Dests : InstallStamp[d] = InstallStamp[e] => d = e
  BY InstallStampFact DEF InstallStamps

LEMMA StampOrderStep ==
  ASSUME TypeOK, EngineInv, DoneStampsExist, StampOrder, [Next]_vars
  PROVE  StampOrder'
<1>1. CASE UNCHANGED <<stamps, torn>>
  BY <1>1 DEF StampOrder
<1>2. ASSUME NEW p \in Packages, NEW s \in Stamps \ {"extracted", "rsynced", "patched"},
             Touch(s, p)
      PROVE  StampOrder'
  BY <1>2, TouchStep DEF StampOrder
<1>3. ASSUME NEW p \in Packages, NEW S, Remove(S, p),
             "extracted" \in S => Stamps \subseteq S
      PROVE  StampOrder'
  <2>1. "extracted" \in S => stamps'[p] = {}
    BY <1>3, RemoveStep DEF TypeOK
  <2> QED BY <1>3, <2>1, RemoveStep DEF StampOrder
<1>4. ASSUME NEW p \in Packages,
             \A q \in Packages \ {p} : stamps'[q] = stamps[q] /\ torn'[q] = torn[q],
             stamps'[p] \subseteq stamps[p],
             stamps'[p] \ torn'[p] \subseteq stamps[p] \ torn[p],
             stamps'[p] \ torn'[p] # {} => ("extracted" \in stamps[p] => "extracted" \in stamps'[p])
      PROVE  StampOrder'
  BY <1>4 DEF StampOrder
<1>5. CASE UNCHANGED vars \/ Descend \/ UpToDate \/ \E g \in Goals : Make(g)
  BY <1>1, <1>5 DEF vars, files, Descend, UpToDate, Make
<1>6. CASE CleanAll \/ CleanAllCut
  <2>1. \A p \in Packages : stamps'[p] \subseteq stamps[p] /\ stamps'[p] \ torn'[p] = {}
    <3>1. CASE CleanAll
      BY <3>1 DEF CleanAll
    <3>2. CASE CleanAllCut
      BY <3>2 DEF CleanAllCut
    <3> QED BY <1>6, <3>1, <3>2
  <2> QED BY <2>1 DEF StampOrder
<1>7. ASSUME NEW p \in Packages, Download(p) \/ Configure(p) \/ Build(p) PROVE StampOrder'
  BY <1>2, <1>7 DEF Download, Configure, Build, Stamps
<1>8. ASSUME NEW p \in Packages, NEW d \in Dests, Install(p, d) PROVE StampOrder'
  BY <1>2, <1>8, InstallStampDistinct DEF Install, Stamps, InstallStamps
<1>9. ASSUME NEW p \in Packages, Extract(p) \/ Rsync(p) \/ Patch(p) PROVE StampOrder'
  <2>1. CASE Extract(p)
    <3>1. p \notin Overrides
      BY <2>1, TopContext DEF Extract, Runs, Ready
    <3>2. Touch("extracted", p)
      BY <2>1 DEF Extract
    <3> QED BY <3>1, <3>2, TouchStep DEF StampOrder
  <2>2. CASE Rsync(p)
    <3>1. p \in Overrides
      BY <2>2, TopContext DEF Rsync, Runs, Ready
    <3>2. Touch("rsynced", p)
      BY <2>2 DEF Rsync
    <3> QED BY <3>1, <3>2, TouchStep DEF StampOrder
  <2>3. CASE Patch(p)
    <3>1. <<"extract", p>> \in done /\ p \notin Overrides /\ stack # <<>> /\ Top = <<"patched", p>>
      BY <2>3, TopContext DEF Patch, Runs, Ready
    <3>2. Prereqs(<<"extract", p>>) = << <<"source", p>>, <<"extracted", p>> >>
      BY <3>1 DEF Prereqs, SourcePrereqs
    <3>3. <<"extracted", p>> \in done
      BY <3>1, <3>2 DEF EngineInv, DoneIsClosed
    <3>4. "extracted" \in stamps[p]
      BY <3>1, <3>3, DoneStampExists DEF Stamps
    <3>5. Touch("patched", p)
      BY <2>3 DEF Patch
    <3> QED BY <3>1, <3>4, <3>5, TouchStep DEF StampOrder
  <2> QED BY <1>9, <2>1, <2>2, <2>3
<1>10. ASSUME NEW p \in Packages,
              Uninstall(p) \/ CleanPackage(p) \/ Dirclean(p) \/ CleanForReconfigure(p)
              \/ UninstallCut(p) \/ DeleteStamp(p)
       PROVE  StampOrder'
  <2>1. CASE Dirclean(p)
    BY <1>3, <2>1 DEF Dirclean
  <2>2. CASE UninstallCut(p)
    <3>1. PICK n \in 1..4 : Remove({"staging_installed"} \union
                                   IF n > 1 THEN {"target_installed"} ELSE {}, p)
      BY <2>2 DEF UninstallCut
    <3> QED BY <1>3, <3>1
  <2>3. CASE DeleteStamp(p)
    <3>1. PICK s \in HandRemovable : Remove({s}, p)
      BY <2>3 DEF DeleteStamp
    <3>2. s # "extracted"
      BY ConstantsAssumption
    <3> QED BY <1>3, <3>1, <3>2
  <2> QED
    BY <1>3, <1>10, <2>1, <2>2, <2>3 DEF Uninstall, CleanPackage, CleanForReconfigure
<1>11. ASSUME NEW p \in Packages, CleanForRebuild(p) \/ CleanForRebuildCut(p)
       PROVE  StampOrder'
  <2>1. CASE CleanForRebuild(p)
    <3>1. Len(RebuildStamps(p)) \in 0..Len(RebuildStamps(p))
      BY RebuildStampsLength
    <3>2. "extracted" \notin FirstRebuildStamps(Len(RebuildStamps(p)), p)
      BY <3>1, RebuildStampsRange DEF InstallStamps
    <3> QED BY <1>3, <2>1, <3>2 DEF CleanForRebuild
  <2>2. CASE CleanForRebuildCut(p)
    <3>1. PICK n \in 0..(Len(RebuildStamps(p)) - 1) : Remove(FirstRebuildStamps(n, p), p)
      BY <2>2 DEF CleanForRebuildCut
    <3>2. "extracted" \notin FirstRebuildStamps(n, p)
      BY RebuildStampsLength, RebuildStampsRange DEF InstallStamps
    <3> HIDE DEF FirstRebuildStamps
    <3> QED BY <1>3, <3>1, <3>2
  <2> QED BY <1>11, <2>1, <2>2
<1>12. ASSUME NEW p \in Packages, CleanPackageCut(p) \/ DircleanCut(p) PROVE StampOrder'
  <2>1. CASE CleanPackageCut(p)
    BY <1>4, <2>1 DEF CleanPackageCut, TypeOK
  <2>2. CASE DircleanCut(p)
    <3>1. PICK gone : /\ stamps' = [stamps EXCEPT ![p] = @ \ gone]
                      /\ torn' = [torn EXCEPT ![p] = stamps[p] \ gone]
      BY <2>2 DEF DircleanCut
    <3> QED BY <1>4, <3>1 DEF TypeOK
  <2> QED BY <1>12, <2>1, <2>2
<1>13. ASSUME NEW p \in Packages,
              RsyncSource(p) \/ RecipeFails(p) \/ DownloadCut(p) \/ FetchCut("extracted", p)
              \/ FetchCut("rsynced", p) \/ PatchCut(p) \/ ConfigureCut(p) \/ BuildCut(p)
              \/ (\E d \in Dests : InstallCut(p, d))
              \/ EditSources(p) \/ EditTree(p) \/ EditConfig(p)
       PROVE  StampOrder'
  BY <1>1, <1>13
  DEF RsyncSource, RecipeFails, DownloadCut, FetchCut, PatchCut, ConfigureCut, BuildCut,
      InstallCut, EditSources, EditTree, EditConfig, files
<1>14. CASE Interrupted
  BY <1>1, <1>14 DEF Interrupted, files
<1> QED
  BY <1>5, <1>6, <1>7, <1>8, <1>9, <1>10, <1>11, <1>12, <1>13, <1>14
  DEF Next, MakeStep, CutStep, UserStep

-----------------------------------------------------------------------------
(* The trusted stamps tell the truth *)

\* A step that only changes files of package p.
LEMMA SoundFrame ==
  ASSUME Sound, NEW p \in Packages,
         \A q \in Packages \ {p} : stamps'[q] = stamps[q] /\ torn'[q] = torn[q],
         \A q \in Packages \ {p} : tree'[q] = tree[q] /\ inst'[q] = inst[q],
         dl \subseteq dl', SoundAt(p)'
  PROVE  Sound'
  BY DEF Sound, SoundAt, Trusted

\* A step that changes neither the build tree of p nor what is installed of it,
\* and makes no stamp trusted.
LEMMA SoundShrink ==
  ASSUME Sound, NEW p \in Packages, Trusted(p)' \subseteq Trusted(p),
         dl' = dl, tree'[p] = tree[p], inst'[p] = inst[p]
  PROVE  SoundAt(p)'
  BY DEF Sound, SoundAt, Trusted

LEMMA SoundTouched ==
  ASSUME TypeOK, EngineInv, StampOrder, Sound, NEW p \in Packages,
         Download(p) \/ Extract(p) \/ Rsync(p) \/ Patch(p) \/ Configure(p) \/ Build(p)
  PROVE  Sound'
<1>1. PICK s \in Stamps \ InstallStamps : Touch(s, p)
  BY DEF Download, Extract, Rsync, Patch, Configure, Build, Stamps, InstallStamps
<1>2. inst' = inst /\ dl \subseteq dl'
  BY DEF Download, Extract, Rsync, Patch, Configure, Build
<1>3. \A q \in Packages \ {p} : tree'[q] = tree[q]
  BY DEF Download, Extract, Rsync, Patch, Configure, Build, TypeOK
<1>4. SoundAt(p)
  BY DEF Sound
<1>5. tree[p] \in Tree /\ srcdir[p] \in 1..MaxGen /\ cfg[p] \in 1..MaxGen /\ tree \in [Packages -> Tree]
  BY DEF TypeOK
<1>6. ASSUME Download(p) PROVE SoundAt(p)'
  <2>1. Trusted(p)' \subseteq Trusted(p) \union {"downloaded"}
    BY <1>6, TouchStep DEF Download, Trusted
  <2> QED BY <1>2, <1>4, <1>6, <2>1, InstallStampDistinct DEF Download, SoundAt, InstallStamps
<1>7. ASSUME Extract(p) PROVE SoundAt(p)'
  <2>1. Trusted(p)' \subseteq Trusted(p) \union {"extracted"}
    BY <1>7, TouchStep DEF Extract, Trusted
  <2>2. "patched" \notin Trusted(p)
    BY <1>7 DEF Extract, Runs, StampOrder, Trusted
  <2>3. tree'[p].src = 1 /\ tree'[p].conf = tree[p].conf /\ tree'[p].obj = tree[p].obj
    BY <1>5, <1>7 DEF Extract, WithSources
  <2> QED BY <1>2, <1>4, <2>1, <2>2, <2>3, InstallStampDistinct DEF SoundAt, InstallStamps
<1>8. ASSUME Rsync(p) PROVE SoundAt(p)'
  <2>1. Trusted(p)' \subseteq Trusted(p) \union {"rsynced"}
    BY <1>8, TouchStep DEF Rsync, Trusted
  <2>2. /\ tree'[p].src = srcdir[p] /\ tree'[p].conf = tree[p].conf
        /\ tree'[p].obj = tree[p].obj /\ tree'[p].patches = tree[p].patches
    BY <1>5, <1>8 DEF Rsync, Tree
  <2>3. tree'[p].src > 0
    BY <1>5, <2>2
  <2> QED BY <1>2, <1>4, <2>1, <2>2, <2>3, InstallStampDistinct DEF SoundAt, InstallStamps
<1>9. ASSUME Patch(p) PROVE SoundAt(p)'
  <2>1. Trusted(p)' \subseteq Trusted(p) \union {"patched"}
    BY <1>9, TouchStep DEF Patch, Trusted
  <2>2. /\ tree'[p].src = tree[p].src /\ tree'[p].conf = tree[p].conf
        /\ tree'[p].obj = tree[p].obj /\ tree'[p].patches = NPatches[p]
    BY <1>5, <1>9 DEF Patch, Tree
  <2> QED BY <1>2, <1>4, <2>1, <2>2, InstallStampDistinct DEF SoundAt, InstallStamps
<1>10. ASSUME Configure(p) PROVE SoundAt(p)'
  <2>1. Trusted(p)' \subseteq Trusted(p) \union {"configured"}
    BY <1>10, TouchStep DEF Configure, Trusted
  <2>2. /\ tree'[p].src = tree[p].src /\ tree'[p].conf = cfg[p]
        /\ tree'[p].obj = tree[p].obj /\ tree'[p].patches = tree[p].patches
    BY <1>5, <1>10 DEF Configure, Tree
  <2>3. tree'[p].conf > 0
    BY <1>5, <2>2
  <2> QED BY <1>2, <1>4, <2>1, <2>2, <2>3, InstallStampDistinct DEF SoundAt, InstallStamps
<1>11. ASSUME Build(p) PROVE SoundAt(p)'
  <2>1. Trusted(p)' \subseteq Trusted(p) \union {"built"}
    BY <1>11, TouchStep DEF Build, Trusted
  <2>2. /\ tree'[p].src = tree[p].src /\ tree'[p].conf = tree[p].conf
        /\ tree'[p].obj.src = tree[p].src /\ tree'[p].patches = tree[p].patches
    BY <1>5, <1>11 DEF Build, Compiled, Tree
  <2>3. tree'[p].obj # None
    BY <1>11, <2>2 DEF Build, None
  <2> QED BY <1>2, <1>4, <2>1, <2>2, <2>3, InstallStampDistinct DEF SoundAt, InstallStamps
<1>12. SoundAt(p)'
  BY <1>6, <1>7, <1>8, <1>9, <1>10, <1>11
<1> QED BY <1>1, <1>2, <1>3, <1>12, SoundFrame, TouchStep

LEMMA SoundInstalled ==
  ASSUME TypeOK, Sound, NEW p \in Packages, NEW d \in Dests,
         Install(p, d) \/ InstallCut(p, d)
  PROVE  Sound'
<1>1. dl' = dl /\ tree' = tree
  BY DEF Install, InstallCut
<1>2. \A q \in Packages \ {p} :
        stamps'[q] = stamps[q] /\ torn'[q] = torn[q] /\ inst'[q] = inst[q]
  BY TouchStep DEF Install, InstallCut, TypeOK
<1>3. \A e \in Dests \ {d} : inst'[p][e] = inst[p][e]
  BY DEF Install, InstallCut, TypeOK
<1>4. /\ Trusted(p)' \subseteq Trusted(p) \union {InstallStamp[d]}
      /\ InstallStamp[d] \notin Trusted(p)' \/ inst'[p][d] # None
  <2>1. CASE Install(p, d)
    <3>1. Trusted(p)' \subseteq Trusted(p) \union {InstallStamp[d]}
      BY <2>1, TouchStep DEF Install, Trusted
    <3>2. inst'[p][d] # None
      BY <2>1 DEF Install, TypeOK
    <3> QED BY <3>1, <3>2
  <2>2. CASE InstallCut(p, d)
    BY <2>2 DEF InstallCut, Runs, Trusted
  <2> QED BY <2>1, <2>2
<1>5. SoundAt(p)'
  BY <1>1, <1>3, <1>4, InstallStampDistinct DEF Sound, SoundAt, InstallStamps
<1> QED BY <1>1, <1>2, <1>5, SoundFrame

\* A recipe that was stopped before it touched its stamp.
LEMMA SoundCut ==
  ASSUME TypeOK, EngineInv, StampOrder, Sound, NEW p \in Packages,
         FetchCut("extracted", p) \/ FetchCut("rsynced", p) \/ PatchCut(p)
         \/ ConfigureCut(p) \/ BuildCut(p)
  PROVE  Sound'
<1>1. /\ inst' = inst /\ dl' = dl /\ stamps' = stamps /\ torn' = torn
      /\ \A q \in Packages \ {p} : tree'[q] = tree[q]
      /\ tree[p] \in Tree /\ tree \in [Packages -> Tree]
  BY DEF FetchCut, PatchCut, ConfigureCut, BuildCut, TypeOK
<1>2. SoundAt(p) /\ Trusted(p)' = Trusted(p)
  BY <1>1 DEF Sound, Trusted
<1>3. ASSUME NEW s \in {"extracted", "rsynced"}, FetchCut(s, p) PROVE SoundAt(p)'
  <2>1. tree'[p].conf = tree[p].conf /\ tree'[p].obj = tree[p].obj
    BY <1>1, <1>3 DEF FetchCut, WithSources
  <2>2. Trusted(p) \intersect {"extracted", "rsynced", "patched"} = {}
    <3>1. s = "extracted" => p \notin Overrides
      BY <1>3, TopContext DEF FetchCut, Runs, Ready
    <3>2. s = "rsynced" => p \in Overrides
      BY <1>3, TopContext DEF FetchCut, Runs, Ready
    <3> QED BY <1>3, <3>1, <3>2 DEF FetchCut, Runs, StampOrder, Trusted
  <2> QED BY <1>1, <1>2, <2>1, <2>2 DEF SoundAt
<1>4. ASSUME PatchCut(p) PROVE SoundAt(p)'
  <2>1. PICK k \in 0..NPatches[p] : tree' = [tree EXCEPT ![p].patches = k]
    BY <1>4 DEF PatchCut
  <2>2. /\ tree'[p].src = tree[p].src /\ tree'[p].conf = tree[p].conf
        /\ tree'[p].obj = tree[p].obj
    BY <1>1, <2>1 DEF Tree
  <2>3. "patched" \notin Trusted(p)
    BY <1>4 DEF PatchCut, Runs, Trusted
  <2> QED BY <1>1, <1>2, <2>2, <2>3 DEF SoundAt
<1>5. ASSUME ConfigureCut(p) PROVE SoundAt(p)'
  <2>1. /\ tree'[p].src = tree[p].src /\ tree'[p].patches = tree[p].patches
        /\ tree'[p].obj = tree[p].obj
    BY <1>1, <1>5 DEF ConfigureCut, Tree
  <2>2. "configured" \notin Trusted(p)
    BY <1>5 DEF ConfigureCut, Runs, Trusted
  <2> QED BY <1>1, <1>2, <2>1, <2>2 DEF SoundAt
<1>6. ASSUME BuildCut(p) PROVE SoundAt(p)'
  <2>1. /\ tree'[p].src = tree[p].src /\ tree'[p].patches = tree[p].patches
        /\ tree'[p].conf = tree[p].conf
    BY <1>1, <1>6 DEF BuildCut, Tree
  <2>2. "built" \notin Trusted(p)
    BY <1>6 DEF BuildCut, Runs, Trusted
  <2> QED BY <1>1, <1>2, <2>1, <2>2 DEF SoundAt
<1>7. SoundAt(p)'
  BY <1>3, <1>4, <1>5, <1>6
<1> QED BY <1>1, <1>7, SoundFrame

\* The recipes that remove stamps and files.
LEMMA SoundRemoved ==
  ASSUME TypeOK, Sound, NEW p \in Packages,
         Uninstall(p) \/ UninstallCut(p) \/ CleanPackage(p) \/ CleanPackageCut(p)
         \/ Dirclean(p) \/ DircleanCut(p)
  PROVE  Sound'
<1>1. /\ dl' = dl
      /\ tree \in [Packages -> Tree] /\ inst \in [Packages -> [Dests -> Version]]
      /\ stamps \in [Packages -> SUBSET Stamps] /\ torn \in [Packages -> SUBSET Stamps]
      /\ SoundAt(p)
  BY DEF Uninstall, UninstallCut, CleanPackage, CleanPackageCut, Dirclean, DircleanCut,
         TypeOK, Sound
<1>2. ASSUME Uninstall(p) \/ UninstallCut(p) PROVE Sound'
  <2>1. PICK S, D : /\ Remove(S, p)
                    /\ inst' = [inst EXCEPT ![p] = Without(D, @)]
                    /\ "staging" \in D => "staging_installed" \in S
                    /\ "target" \in D => "target_installed" \in S
                    /\ D \subseteq {"staging", "target"}
    <3>1. CASE Uninstall(p)
      BY <3>1 DEF Uninstall
    <3>2. CASE UninstallCut(p)
      <4>1. PICK n \in 1..4 :
              /\ Remove({"staging_installed"} \union
                        IF n > 1 THEN {"target_installed"} ELSE {}, p)
              /\ inst' = [inst EXCEPT ![p] =
                            Without((IF n > 2 THEN {"staging"} ELSE {}) \union
                                    (IF n > 3 THEN {"target"} ELSE {}), @)]
        BY <3>2 DEF UninstallCut
      <4> DEFINE S == {"staging_installed"} \union
                      IF n > 1 THEN {"target_installed"} ELSE {}
                 D == (IF n > 2 THEN {"staging"} ELSE {}) \union
                      (IF n > 3 THEN {"target"} ELSE {})
      <4>2. /\ "staging" \in D => "staging_installed" \in S
            /\ "target" \in D => "target_installed" \in S
            /\ D \subseteq {"staging", "target"}
        OBVIOUS
      <4>3. Remove(S, p) /\ inst' = [inst EXCEPT ![p] = Without(D, @)]
        BY <4>1
      <4> HIDE DEF S, D
      <4> QED BY <4>2, <4>3
    <3> QED BY <1>2, <3>1, <3>2
  <2>2. /\ tree' = tree
        /\ \A q \in Packages \ {p} : inst'[q] = inst[q]
        /\ \A d \in Dests \ D : inst'[p][d] = inst[p][d]
    BY <1>1, <1>2, <2>1 DEF Uninstall, UninstallCut, Without
  <2>3. Trusted(p)' = Trusted(p) \ S
    BY <2>1, RemoveStep DEF Trusted
  <2>4. \A d \in D : InstallStamp[d] \in S
    BY <2>1, InstallStampFact
  <2>5. SoundAt(p)'
    BY <1>1, <2>2, <2>3, <2>4 DEF SoundAt
  <2> QED BY <1>1, <2>1, <2>2, <2>5, RemoveStep, SoundFrame
<1>3. ASSUME CleanPackage(p) \/ CleanPackageCut(p) PROVE Sound'
  <2>1. inst' = inst /\ tree' = [tree EXCEPT ![p].obj = None]
    BY <1>3 DEF CleanPackage, CleanPackageCut
  <2>2. /\ tree'[p].src = tree[p].src /\ tree'[p].patches = tree[p].patches
        /\ tree'[p].conf = tree[p].conf
        /\ \A q \in Packages \ {p} : tree'[q] = tree[q]
    BY <1>1, <2>1 DEF Tree
  <2>3. /\ Trusted(p)' \subseteq Trusted(p) \ {"built"}
        /\ \A q \in Packages \ {p} : stamps'[q] = stamps[q] /\ torn'[q] = torn[q]
    <3>1. CASE CleanPackage(p)
      BY <3>1, RemoveStep DEF CleanPackage, Trusted
    <3>2. CASE CleanPackageCut(p)
      BY <1>1, <3>2 DEF CleanPackageCut, Trusted
    <3> QED BY <1>3, <3>1, <3>2
  <2>4. SoundAt(p)'
    BY <1>1, <2>1, <2>2, <2>3, InstallStampDistinct DEF SoundAt, InstallStamps
  <2> QED BY <1>1, <2>1, <2>2, <2>3, <2>4, SoundFrame
<1>4. ASSUME Dirclean(p) \/ DircleanCut(p) PROVE Sound'
  <2>1. inst' = inst /\ \A q \in Packages \ {p} : tree'[q] = tree[q]
    BY <1>1, <1>4 DEF Dirclean, DircleanCut
  <2>2. /\ Trusted(p)' = {}
        /\ \A q \in Packages \ {p} : stamps'[q] = stamps[q] /\ torn'[q] = torn[q]
    <3>1. CASE Dirclean(p)
      BY <1>1, <3>1, RemoveStep DEF Dirclean, Trusted
    <3>2. CASE DircleanCut(p)
      BY <1>1, <3>2 DEF DircleanCut, Trusted
    <3> QED BY <1>4, <3>1, <3>2
  <2>3. SoundAt(p)'
    BY <2>2 DEF SoundAt
  <2> QED BY <1>1, <2>1, <2>2, <2>3, SoundFrame
<1> QED BY <1>2, <1>3, <1>4

LEMMA SoundStep ==
  ASSUME TypeOK, EngineInv, StampOrder, Sound, [Next]_vars
  PROVE  Sound'
<1>1. ASSUME UNCHANGED <<dl, tree, inst>>,
             \A p \in Packages : Trusted(p)' \subseteq Trusted(p)
      PROVE  Sound'
  BY <1>1 DEF Sound, SoundAt
<1>2. CASE UNCHANGED vars \/ Descend \/ UpToDate \/ \E g \in Goals : Make(g)
  BY <1>1, <1>2 DEF vars, files, Descend, UpToDate, Make, Trusted
<1>3. CASE CleanAll \/ CleanAllCut
  <2>1. \A p \in Packages : Trusted(p)' = {}
    <3>1. CASE CleanAll
      BY <3>1 DEF CleanAll, Trusted
    <3>2. CASE CleanAllCut
      BY <3>2 DEF CleanAllCut, Trusted
    <3> QED BY <1>3, <3>1, <3>2
  <2> QED BY <2>1 DEF Sound, SoundAt
<1>4. ASSUME NEW p \in Packages,
             CleanForRebuild(p) \/ CleanForReconfigure(p) \/ CleanForRebuildCut(p)
             \/ DeleteStamp(p)
      PROVE  Sound'
  <2>1. PICK S : Remove(S, p)
    BY <1>4 DEF CleanForRebuild, CleanForReconfigure, CleanForRebuildCut, DeleteStamp
  <2>2. \A q \in Packages : Trusted(q)' \subseteq Trusted(q)
    BY <2>1, RemoveStep DEF Trusted
  <2> QED BY <1>1, <1>4, <2>2
          DEF CleanForRebuild, CleanForReconfigure, CleanForRebuildCut, DeleteStamp
<1>5. ASSUME NEW p \in Packages,
             RsyncSource(p) \/ RecipeFails(p)
             \/ EditSources(p) \/ EditConfig(p)
      PROVE  Sound'
  BY <1>1, <1>5 DEF RsyncSource, RecipeFails, EditSources, EditConfig, files, Trusted
<1>6. ASSUME NEW p \in Packages, EditTree(p) PROVE Sound'
  <2>1. tree[p] \in Tree /\ tree[p].src \in Int
    BY <1>6 DEF EditTree, TypeOK
  <2>2. /\ tree'[p].src > 0 /\ tree'[p].patches = tree[p].patches
        /\ tree'[p].conf = tree[p].conf /\ tree'[p].obj = tree[p].obj
        /\ \A q \in Packages \ {p} : tree'[q] = tree[q]
    BY <1>6, <2>1 DEF EditTree, TypeOK, Tree
  <2>3. SoundAt(p)'
    BY <1>6, <2>2 DEF EditTree, Sound, SoundAt, Trusted
  <2> QED BY <1>6, <2>2, <2>3, SoundFrame DEF EditTree
<1>7. CASE Interrupted
  BY <1>1, <1>7 DEF Interrupted, files, Trusted
<1>8. ASSUME NEW p \in Packages, DownloadCut(p) PROVE Sound'
  BY <1>8 DEF DownloadCut, Sound, SoundAt, Trusted
<1> QED
  BY <1>2, <1>3, <1>4, <1>5, <1>6, <1>7, <1>8, SoundTouched, SoundInstalled, SoundCut, SoundRemoved
  DEF Next, MakeStep, CutStep, UserStep

-----------------------------------------------------------------------------
(* The theorems *)

LEMMA IInvInit == Init => IInv
<1> SUFFICES ASSUME Init PROVE IInv
  OBVIOUS
<1>1. TypeOK
  <2>1. MaxGen \in Nat \ {0} /\ MaxFaults \in Nat
    BY ConstantsAssumption
  <2>2. stack \in Seq(Targets)
    BY DEF Init
  <2> QED BY <2>1, <2>2, NoneType DEF Init, TypeOK
<1>2. EngineInv /\ DoneStampsExist
  BY EmptyWalk DEF Init, DoneStampsExist
<1>3. StampOrder /\ Sound
  BY DEF Init, StampOrder, Sound, SoundAt, Trusted
<1> QED BY <1>1, <1>2, <1>3 DEF IInv

LEMMA IInvStep == IInv /\ [Next]_vars => IInv'
<1> SUFFICES ASSUME IInv, [Next]_vars PROVE IInv'
  OBVIOUS
<1>1. TypeOK'
  BY EngineTypeStep, FilesTypeStep, UserTypeStep, StaleType
  DEF IInv, TypeOK, EngineType, FilesType, UserType
<1> QED
  BY <1>1, EngineInvStep, DoneStampsStep, StampOrderStep, SoundStep DEF IInv

LEMMA IInvAlways == Spec => []IInv
  BY IInvInit, IInvStep, PTL DEF Spec

\* A stamp that no interrupted removal left behind tells the truth about the
\* files on disk, for all packages, dependencies, faults and edits.
THEOREM StampsAreSound == Spec => []StampSound
<1>1. IInv => StampSound
  <2> SUFFICES ASSUME IInv, NEW p \in Packages, NEW s \in stamps[p] \ torn[p]
               PROVE  Evidence(s, p)
    BY DEF StampSound
  <2>1. SoundAt(p) /\ s \in Trusted(p) /\ s \in Stamps
    BY DEF IInv, Sound, Trusted, TypeOK
  <2>2. CASE s \in InstallStamps
    <3>1. PICK d \in Dests : s = InstallStamp[d]
      BY <2>2, InstallStampFact DEF InstallStamps
    <3>2. inst[p][d] # None
      BY <2>1, <3>1 DEF SoundAt
    <3> QED BY <2>2, <3>1, <3>2 DEF Evidence, InstallStamps
  <2>3. CASE s \notin InstallStamps
    BY <2>1, <2>3 DEF SoundAt, Evidence, Stamps
  <2> QED BY <2>2, <2>3
<1> QED BY <1>1, IInvAlways, PTL

\* Only the configure step of a package completes its configuration.
LEMMA OnlyConfigure ==
  ASSUME TypeOK, [Next]_vars, NEW p \in Packages, Completes("configured", p)
  PROVE  Configure(p)
<1>1. stamps'[p] # stamps[p] /\ ~ (stamps'[p] \subseteq stamps[p])
  BY DEF Completes
<1>2. ASSUME NEW q \in Packages, NEW s, s # "configured" \/ q # p, Touch(s, q)
      PROVE  FALSE
  BY <1>2, TouchStep DEF Completes
<1>3. ASSUME NEW q \in Packages, NEW S, Remove(S, q)
      PROVE  FALSE
  BY <1>1, <1>3, RemoveStep
<1>4. ~ CutStep /\ ~ CleanAll
  <2>1. stamps \in [Packages -> SUBSET Stamps]
    BY DEF TypeOK
  <2>2. ~ CleanAll /\ ~ CleanAllCut /\ ~ Interrupted
    BY <1>1 DEF CleanAll, CleanAllCut, Interrupted, files
  <2>3. ASSUME NEW q \in Packages, UninstallCut(q) PROVE FALSE
    BY <1>3, <2>3 DEF UninstallCut
  <2>4. ASSUME NEW q \in Packages, DircleanCut(q) \/ CleanForRebuildCut(q) PROVE FALSE
    <3>1. PICK gone : stamps' = [stamps EXCEPT ![q] = @ \ gone]
      BY <2>4 DEF DircleanCut, CleanForRebuildCut, Remove
    <3> QED BY <1>1, <2>1, <3>1
  <2>5. ASSUME NEW q \in Packages,
               DownloadCut(q) \/ FetchCut("extracted", q) \/ FetchCut("rsynced", q)
               \/ PatchCut(q) \/ ConfigureCut(q) \/ BuildCut(q)
               \/ (\E d \in Dests : InstallCut(q, d)) \/ CleanPackageCut(q)
        PROVE  FALSE
    BY <1>1, <2>5
    DEF DownloadCut, FetchCut, PatchCut, ConfigureCut, BuildCut, InstallCut,
        CleanPackageCut, files
  <2> QED BY <2>2, <2>3, <2>4, <2>5 DEF CutStep
<1>5. ~ UserStep /\ ~ UNCHANGED vars /\ ~ Descend /\ ~ UpToDate
  <2>1. ASSUME NEW q \in Packages, DeleteStamp(q) PROVE FALSE
    BY <1>3, <2>1 DEF DeleteStamp
  <2> QED
    BY <1>1, <2>1
    DEF UserStep, Make, EditSources, EditTree, EditConfig, vars, files, Descend, UpToDate
<1>6. PICK q \in Packages :
        \/ Download(q) \/ Extract(q) \/ Rsync(q) \/ Patch(q) \/ Configure(q) \/ Build(q)
        \/ \E d \in Dests : Install(q, d)
        \/ RsyncSource(q) \/ Uninstall(q) \/ CleanPackage(q) \/ Dirclean(q)
        \/ CleanForRebuild(q) \/ CleanForReconfigure(q) \/ RecipeFails(q)
  BY <1>4, <1>5 DEF Next, MakeStep
<1>7. ~ (Uninstall(q) \/ CleanPackage(q) \/ Dirclean(q) \/ CleanForRebuild(q)
         \/ CleanForReconfigure(q))
  BY <1>3 DEF Uninstall, CleanPackage, Dirclean, CleanForRebuild, CleanForReconfigure
<1>8. ~ (Download(q) \/ Extract(q) \/ Rsync(q) \/ Patch(q) \/ Build(q))
  BY <1>2 DEF Download, Extract, Rsync, Patch, Build
<1>9. ASSUME NEW d \in Dests, Install(q, d) PROVE FALSE
  BY <1>2, <1>9, InstallStampDistinct DEF Install, InstallStamps
<1>10. ~ RsyncSource(q) /\ ~ RecipeFails(q)
  BY <1>1 DEF RsyncSource, RecipeFails, files
<1> QED BY <1>2, <1>6, <1>7, <1>8, <1>9, <1>10 DEF Configure

\* Once make is done with foo-install it is done with every install stamp of
\* foo, and has built it.
LEMMA InstallStampsDone ==
  ASSUME DoneIsClosed, NEW d \in Packages, <<"install", d>> \in done, NEW e \in InstallTo[d]
  PROVE  /\ e \in Dests
         /\ <<InstallStamp[e], d>> \in done
         /\ <<"build", d>> \in done
<1>0. e \in Dests
  BY ConstantsAssumption
<1>1. CASE d \in HostPkgs
  <2>1. Prereqs(<<"install", d>>) = << <<"install-host", d>> >>
    BY <1>1 DEF Prereqs
  <2>2. <<"install-host", d>> \in done
    BY <2>1 DEF DoneIsClosed
  <2>3. Prereqs(<<"install-host", d>>) = << <<"build", d>>, <<"host_installed", d>> >>
    BY DEF Prereqs
  <2>4. <<"host_installed", d>> \in done /\ <<"build", d>> \in done
    BY <2>2, <2>3 DEF DoneIsClosed
  <2>5. e = "host"
    BY <1>1, ConstantsAssumption
  <2> QED BY <2>4, <2>5, InstallStampFact
<1>2. CASE d \notin HostPkgs
  <2>1. e \in {"staging", "target", "images"}
    BY <1>0, <1>2, ConstantsAssumption DEF Dests
  <2>2. Prereqs(<<"install", d>>) = << <<"install-staging", d>>, <<"install-target", d>>,
                                       <<"install-images", d>> >>
    BY <1>2 DEF Prereqs
  <2>3. /\ <<"install-staging", d>> \in done
        /\ <<"install-target", d>> \in done
        /\ <<"install-images", d>> \in done
    BY <2>2 DEF DoneIsClosed
  <2>4. PICK k : /\ <<k, d>> \in done
                 /\ Prereqs(<<k, d>>) = << <<"build", d>>, <<InstallStamp[e], d>> >>
    <3>1. CASE e = "staging"
      <4>1. Prereqs(<<"install-staging", d>>) = InstallPrereqs("staging", d)
        BY DEF Prereqs
      <4> QED BY <2>3, <3>1, <4>1 DEF InstallPrereqs
    <3>2. CASE e = "target"
      <4>1. Prereqs(<<"install-target", d>>) = InstallPrereqs("target", d)
        BY DEF Prereqs
      <4> QED BY <2>3, <3>2, <4>1 DEF InstallPrereqs
    <3>3. CASE e = "images"
      <4>1. Prereqs(<<"install-images", d>>) = InstallPrereqs("images", d)
        BY DEF Prereqs
      <4> QED BY <2>3, <3>3, <4>1 DEF InstallPrereqs
    <3> QED BY <2>1, <3>1, <3>2, <3>3
  <2>5. /\ 2 \in DOMAIN Prereqs(<<k, d>>) /\ Prereqs(<<k, d>>)[2] = <<InstallStamp[e], d>>
        /\ 1 \in DOMAIN Prereqs(<<k, d>>) /\ Prereqs(<<k, d>>)[1] = <<"build", d>>
    BY <2>4
  <2> QED BY <1>0, <2>4, <2>5 DEF DoneIsClosed
<1> QED BY <1>0, <1>1, <1>2

\* While make removes nothing, the packages it is done with are installed.
LEMMA InstallIsInstalled ==
  ASSUME IInv, stack # <<>>, Top[1] \notin {"uninstall", "clean", "cleaned", "dirclean"},
         NEW d \in Packages, <<"install", d>> \in done
  PROVE  Installed(d)
<1> SUFFICES ASSUME NEW e \in InstallTo[d]
             PROVE  /\ InstallStamp[e] \in stamps[d]
                    /\ InstallStamp[e] \notin torn[d] => inst[d][e] # None
  BY DEF Installed
<1>1. DoneIsClosed /\ SoundAt(d)
  BY DEF IInv, EngineInv, Sound
<1>2. e \in Dests
  BY ConstantsAssumption
<1>3. <<InstallStamp[e], d>> \in done
  BY <1>1, InstallStampsDone
<1>4. InstallStamp[e] \in stamps[d]
  <2>1. InstallStamp[e] \in Stamps
    BY <1>2, InstallStampDistinct DEF Stamps
  <2> QED BY <1>3, <2>1, DoneStampExists DEF IInv
<1> QED BY <1>1, <1>2, <1>4 DEF SoundAt, Trusted

LEMMA PkgIsInstall ==
  ASSUME DoneIsClosed, NEW d, <<"pkg", d>> \in done
  PROVE  <<"install", d>> \in done
<1>1. Prereqs(<<"pkg", d>>) = << <<"install", d>> >>
  BY DEF Prereqs
<1> QED BY <1>1 DEF DoneIsClosed

LEMMA DoneIsInstalled ==
  ASSUME IInv, stack # <<>>, Top[1] \notin {"uninstall", "clean", "cleaned", "dirclean"},
         NEW d \in Packages, <<"pkg", d>> \in done
  PROVE  Installed(d)
<1>1. DoneIsClosed
  BY DEF IInv, EngineInv
<1> QED BY <1>1, PkgIsInstall, InstallIsInstalled

\* Once make is done with foo-depends it is done with all that foo depends on.
LEMMA DependsDone ==
  ASSUME DoneIsClosed, NEW p \in Packages, <<"depends", p>> \in done, NEW i \in DOMAIN Deps[p]
  PROVE  Deps[p][i] \in Packages /\ <<"pkg", Deps[p][i]>> \in done
<1>1. Deps[p] \in Seq(Packages)
  BY ConstantsAssumption
<1>2. Prereqs(<<"depends", p>>) = SourcePrereqs("depends", p)
  BY DEF Prereqs
<1>3. \A j \in DOMAIN Prereqs(<<"depends", p>>) : Prereqs(<<"depends", p>>)[j] \in done
  BY DEF DoneIsClosed
<1>4. PICK j \in DOMAIN Prereqs(<<"depends", p>>) :
        Prereqs(<<"depends", p>>)[j] = <<"pkg", Deps[p][i]>>
  <2>1. CASE p \in Overrides
    <3> DEFINE D == [k \in DOMAIN Deps[p] |-> <<"pkg", Deps[p][k]>>]
    <3>1. SourcePrereqs("depends", p) = << <<"rsync", p>> >> \o D
      BY <2>1 DEF SourcePrereqs
    <3>2. D \in Seq({"pkg"} \X Packages) /\ DOMAIN D = DOMAIN Deps[p] /\ i \in 1..Len(D)
      BY <1>1
    <3>3. D[i] = <<"pkg", Deps[p][i]>>
      OBVIOUS
    <3> HIDE DEF D
    <3>4. /\ i + 1 \in DOMAIN (<< <<"rsync", p>> >> \o D)
          /\ (<< <<"rsync", p>> >> \o D)[i + 1] = D[i]
      BY <3>2
    <3> QED BY <1>2, <3>1, <3>3, <3>4
  <2>2. CASE p \notin Overrides
    BY <1>2, <2>2 DEF SourcePrereqs
  <2> QED BY <2>1, <2>2
<1>5. Deps[p][i] \in Packages
  BY <1>1
<1> QED BY <1>3, <1>4, <1>5

\* A package is only ever configured while all it depends on is installed.
THEOREM DependenciesFirst == Spec => DepsBeforeConfigure
<1>1. ASSUME IInv, [Next]_vars, NEW p \in Packages, Completes("configured", p),
             NEW i \in DOMAIN Deps[p]
      PROVE  Installed(Deps[p][i])
  <2>1. Ready(<<"configured", p>>)
    BY <1>1, OnlyConfigure DEF Configure, Runs, IInv
  <2>2. stack # <<>> /\ Top[1] = "configured" /\ <<"depends", p>> \in done
    BY <1>1, <2>1, TopContext DEF Ready, IInv
  <2>3. DoneIsClosed
    BY <1>1 DEF IInv, EngineInv
  <2>4. Deps[p][i] \in Packages /\ <<"pkg", Deps[p][i]>> \in done
    BY <1>1, <2>2, <2>3, DependsDone
  <2> QED BY <1>1, <2>2, <2>4, DoneIsInstalled
<1>2. IInv /\ [Next]_vars =>
        [\A p \in Packages : Completes("configured", p) =>
           \A i \in DOMAIN Deps[p] : Installed(Deps[p][i])]_vars
  BY <1>1
<1> QED BY <1>2, IInvAlways, PTL DEF Spec, DepsBeforeConfigure

\* A tree without all of its patches, or with some of them twice, is never configured.
THEOREM PatchesFirst == Spec => PatchedBeforeConfigure
<1>1. ASSUME IInv, [Next]_vars, NEW p \in Packages \ Overrides, Completes("configured", p),
             torn[p] = {}
      PROVE  tree[p].patches = NPatches[p]
  <2>1. Ready(<<"configured", p>>)
    BY <1>1, OnlyConfigure DEF Configure, Runs, IInv
  <2>2. stack # <<>> /\ Top[1] = "configured" /\ <<"patch", p>> \in done
    BY <1>1, <2>1, TopContext DEF Ready, IInv
  <2>3. Prereqs(<<"patch", p>>) = << <<"extract", p>>, <<"patched", p>> >>
    BY <1>1 DEF Prereqs, SourcePrereqs
  <2>4. <<"patched", p>> \in done
    BY <1>1, <2>2, <2>3 DEF IInv, EngineInv, DoneIsClosed
  <2>5. "patched" \in stamps[p]
    BY <1>1, <2>2, <2>4, DoneStampExists DEF IInv, Stamps
  <2> QED BY <1>1, <2>5 DEF IInv, Sound, SoundAt, Trusted
<1>2. IInv /\ [Next]_vars =>
        [\A p \in Packages \ Overrides :
           Completes("configured", p) /\ torn[p] = {} =>
             tree[p].patches = NPatches[p]]_vars
  BY <1>1
<1> QED BY <1>2, IInvAlways, PTL DEF Spec, PatchedBeforeConfigure

=============================================================================
