------------------------- MODULE PkgProgress_proofs --------------------------
(***************************************************************************)
(* What can be proved of the progress of make: every step of an invocation  *)
(* brings it closer to its end, a full build that meets no fault ends with  *)
(* everything installed, and a build that succeeds is complete.             *)
(***************************************************************************)
EXTENDS PkgGoals_proofs, FiniteSetTheorems

-----------------------------------------------------------------------------
(* The rules have no cycle                                                   *)

\* The targets that bring packages together are above those of a package ...
Tier(t) == CASE t[1] = "world" -> 2 [] t[1] = "real" -> 1 [] OTHER -> 0

\* ... and the steps of a package have an order.
Step(k) ==
  CASE k \in {"rsync", "source", "dirclean", "clean-for-reconfigure"} -> 1
    [] k \in {"extract", "depends"} -> 2
    [] k = "patch" -> 3
    [] k = "configure" -> 4
    [] k \in {"build", "uninstall"} -> 5
    [] k \in {"install-staging", "install-target", "install-images", "install-host", "clean"} -> 6
    [] k = "install" -> 7
    [] k = "pkg" -> 8
    [] k \in {"rebuild", "reconfigure"} -> 9
    [] OTHER -> 0

Lower(u, t) ==
  \/ Tier(u) < Tier(t)
  \/ Tier(u) = Tier(t) /\ Rank[u[2]] < Rank[t[2]]
  \/ Tier(u) = Tier(t) /\ u[2] = t[2] /\ Step(u[1]) < Step(t[1])

LEMMA LevelTypes ==
  ASSUME NEW t
  PROVE  Tier(t) \in Nat /\ Step(t[1]) \in Nat
  BY DEF Tier, Step

LEMMA LowerOrder ==
  ASSUME NEW t \in Targets, NEW u \in Targets, NEW v \in Targets
  PROVE  ~Lower(t, t) /\ (Lower(t, u) /\ Lower(u, v) => Lower(t, v))
<1>1. /\ Tier(t) \in Nat /\ Tier(u) \in Nat /\ Tier(v) \in Nat
      /\ Step(t[1]) \in Nat /\ Step(u[1]) \in Nat /\ Step(v[1]) \in Nat
  BY LevelTypes
<1>2. Rank[t[2]] \in Nat /\ Rank[u[2]] \in Nat /\ Rank[v[2]] \in Nat
  BY TargetPair, ConstantsAssumption
<1> QED BY <1>1, <1>2 DEF Lower

\* A prerequisite of the same package comes in an earlier step.
LEMMA LowerStep ==
  ASSUME NEW k, NEW h, NEW p, h # "world", h # "real", Step(h) < Step(k)
  PROVE  Lower(<<h, p>>, <<k, p>>)
<1>1. Tier(<<h, p>>) = 0 /\ Tier(<<k, p>>) \in {0, 1, 2}
  BY DEF Tier
<1> QED BY <1>1 DEF Lower

\* Every prerequisite is lower than its target.
LEMMA PrereqLower ==
  ASSUME NEW t \in Targets, NEW i \in DOMAIN Prereqs(t)
  PROVE  Lower(Prereqs(t)[i], t)
<1>1. /\ t = <<t[1], t[2]>> /\ t[2] \in Packages
      /\ t[1] \in HumanKinds \union Stamps \union PseudoStamps
  BY TargetPair
<1>2. PICK k, p : k = t[1] /\ p = t[2] /\ t = <<k, p>>
  BY <1>1
<1>3. CASE k \in Stamps \union PseudoStamps \union {"clean-for-rebuild", "top-clean"}
  <2>1. Prereqs(t) = <<>>
    BY <1>2, <1>3 DEF Prereqs, Stamps, PseudoStamps, InstallStamps
  <2> QED BY <2>1
<1>4. ASSUME NEW h, Prereqs(t)[i] = <<h, p>>, h # "world", h # "real", Step(h) < Step(k)
      PROVE  Lower(Prereqs(t)[i], t)
  BY <1>2, <1>4, LowerStep
<1>5. \A s \in Stamps \union PseudoStamps :
        s # "world" /\ s # "real" /\ Step(s) = 0
  BY DEF Stamps, PseudoStamps, InstallStamps, Step
<1>6. CASE k \in {"install-staging", "install-target", "install-images"}
  <2>1. PICK d \in Dests : Prereqs(t) = InstallPrereqs(d, p)
    BY <1>2, <1>6 DEF Prereqs, Dests
  <2>2. Prereqs(t)[i] \in {<<"build", p>>, <<InstallStamp[d], p>>}
    BY <2>1 DEF InstallPrereqs
  <2>3. InstallStamp[d] \in Stamps
    BY <2>1, InstallStampDistinct DEF Stamps
  <2>4. Step(k) = 6 /\ Step("build") = 5
    BY <1>6 DEF Step
  <2> QED BY <1>4, <1>5, <2>2, <2>3, <2>4
<1>7. CASE k \in {"pkg", "install", "install-host", "build"}
  <2>1. Prereqs(t)[i] \in
          CASE k = "pkg" -> {<<"install", p>>}
            [] k = "install" -> {<<"install-host", p>>, <<"install-staging", p>>,
                                 <<"install-target", p>>, <<"install-images", p>>}
            [] k = "install-host" -> {<<"build", p>>, <<"host_installed", p>>}
            [] k = "build" -> {<<"configure", p>>, <<"built", p>>}
    BY <1>2, <1>7 DEF Prereqs
  <2>2. PICK h : /\ Prereqs(t)[i] = <<h, p>>
                 /\ h \in CASE k = "pkg" -> {"install"}
                            [] k = "install" -> {"install-host", "install-staging",
                                                 "install-target", "install-images"}
                            [] k = "install-host" -> {"build", "host_installed"}
                            [] k = "build" -> {"configure", "built"}
    BY <1>7, <2>1
  <2>3. h # "world" /\ h # "real" /\ Step(h) < Step(k)
    BY <1>7, <2>2 DEF Step
  <2> QED BY <1>4, <2>2, <2>3
<1>8. CASE k \in {"configure", "patch", "extract", "source", "rsync"}
  <2>1. Prereqs(t) = SourcePrereqs(k, p)
    BY <1>2, <1>8 DEF Prereqs
  <2>2. PICK h : /\ Prereqs(t)[i] = <<h, p>>
                 /\ h \in CASE k = "configure" -> {"patch", "depends", "configured"}
                            [] k = "patch" -> {"extract", "rsync", "patched"}
                            [] k = "extract" -> {"source", "rsync", "extracted"}
                            [] k = "source" -> {"downloaded", "rsync_sourced"}
                            [] k = "rsync" -> {"rsynced"}
    <3>1. CASE k = "configure"
      <4>1. Prereqs(t)[i] \in {<<"patch", p>>, <<"depends", p>>, <<"configured", p>>}
        BY <2>1, <3>1 DEF SourcePrereqs
      <4> QED BY <3>1, <4>1
    <3>2. CASE k = "patch"
      <4>1. Prereqs(t)[i] \in {<<"extract", p>>, <<"rsync", p>>, <<"patched", p>>}
        BY <2>1, <3>2 DEF SourcePrereqs
      <4> QED BY <3>2, <4>1
    <3>3. CASE k = "extract"
      <4>1. Prereqs(t)[i] \in {<<"source", p>>, <<"rsync", p>>, <<"extracted", p>>}
        BY <2>1, <3>3 DEF SourcePrereqs
      <4> QED BY <3>3, <4>1
    <3>4. CASE k = "source"
      <4>1. Prereqs(t)[i] \in {<<"downloaded", p>>, <<"rsync_sourced", p>>}
        BY <2>1, <3>4 DEF SourcePrereqs
      <4> QED BY <3>4, <4>1
    <3>5. CASE k = "rsync"
      <4>1. Prereqs(t)[i] \in {<<"rsynced", p>>}
        BY <2>1, <3>5 DEF SourcePrereqs
      <4> QED BY <3>5, <4>1
    <3> QED BY <1>8, <3>1, <3>2, <3>3, <3>4, <3>5
  <2>3. h # "world" /\ h # "real" /\ Step(h) < Step(k)
    BY <1>8, <2>2 DEF Step
  <2> QED BY <1>4, <2>2, <2>3
<1>9. CASE k = "depends"
  <2>1. /\ Deps[p] \in Seq(Packages) /\ DOMAIN Deps[p] = 1..Len(Deps[p]) /\ Len(Deps[p]) \in Nat
        /\ \A j \in DOMAIN Deps[p] : Rank[Deps[p][j]] < Rank[p]
    BY <1>1, <1>2, ConstantsAssumption
  <2>2. \/ Prereqs(t)[i] = <<"rsync", p>>
        \/ \E j \in DOMAIN Deps[p] : Prereqs(t)[i] = <<"pkg", Deps[p][j]>>
    <3>1. CASE p \in Overrides
      <4> DEFINE D == [j \in DOMAIN Deps[p] |-> <<"pkg", Deps[p][j]>>]
      <4>1. Prereqs(t) = << <<"rsync", p>> >> \o D
        BY <1>2, <1>9, <3>1 DEF Prereqs, SourcePrereqs
      <4>2. D \in Seq({"pkg"} \X Packages) /\ DOMAIN D = DOMAIN Deps[p]
        BY <2>1
      <4>3. \A j \in DOMAIN Deps[p] : D[j] = <<"pkg", Deps[p][j]>>
        OBVIOUS
      <4> HIDE DEF D
      <4>4. Prereqs(t)[i] = <<"rsync", p>> \/ \E j \in DOMAIN D : Prereqs(t)[i] = D[j]
        BY <4>1, <4>2
      <4> QED BY <4>2, <4>3, <4>4
    <3>2. CASE p \notin Overrides
      BY <1>2, <1>9, <3>2 DEF Prereqs, SourcePrereqs
    <3> QED BY <3>1, <3>2
  <2>3. CASE Prereqs(t)[i] = <<"rsync", p>>
    BY <1>4, <1>9, <2>3 DEF Step
  <2>4. ASSUME NEW j \in DOMAIN Deps[p], Prereqs(t)[i] = <<"pkg", Deps[p][j]>>
        PROVE  Lower(Prereqs(t)[i], t)
    <3>1. Tier(<<"pkg", Deps[p][j]>>) = 0 /\ Tier(t) = 0
      BY <1>2, <1>9 DEF Tier
    <3> QED BY <1>2, <2>1, <2>4, <3>1 DEF Lower
  <2> QED BY <2>2, <2>3, <2>4
<1>10. CASE k \in {"uninstall", "clean", "dirclean", "rebuild", "clean-for-reconfigure",
                   "reconfigure"}
  <2>1. Prereqs(t)[i] \in
          CASE k = "uninstall" -> {<<"configure", p>>, <<"uninstalled", p>>}
            [] k = "clean" -> {<<"uninstall", p>>, <<"cleaned", p>>}
            [] k = "dirclean" -> {<<"dircleaned", p>>}
            [] k = "rebuild" -> {<<"clean-for-rebuild", p>>, <<"pkg", p>>}
            [] k = "clean-for-reconfigure" -> {<<"clean-for-rebuild", p>>}
            [] k = "reconfigure" -> {<<"clean-for-reconfigure", p>>, <<"pkg", p>>}
    BY <1>2, <1>10 DEF Prereqs
  <2>2. PICK h : /\ Prereqs(t)[i] = <<h, p>>
                 /\ h \in CASE k = "uninstall" -> {"configure", "uninstalled"}
                            [] k = "clean" -> {"uninstall", "cleaned"}
                            [] k = "dirclean" -> {"dircleaned"}
                            [] k = "rebuild" -> {"clean-for-rebuild", "pkg"}
                            [] k = "clean-for-reconfigure" -> {"clean-for-rebuild"}
                            [] k = "reconfigure" -> {"clean-for-reconfigure", "pkg"}
    BY <1>10, <2>1
  <2>3. h # "world" /\ h # "real" /\ Step(h) < Step(k)
    BY <1>10, <2>2 DEF Step
  <2> QED BY <1>4, <2>2, <2>3
<1>11. CASE k \in {"real", "world"}
  <2>1. TargetsAll \in Seq(Packages) /\ DOMAIN TargetsAll = 1..Len(TargetsAll)
        /\ Len(TargetsAll) \in Nat
    BY ConstantsAssumption
  <2>2. Prereqs(t)[i][1] = "pkg" \/ (k = "world" /\ Prereqs(t)[i][1] = "real")
    <3>1. CASE k = "real"
      BY <1>2, <3>1 DEF Prereqs, BaseTargets
    <3>2. CASE k = "world"
      <4>1. Prereqs(t) = << <<"pkg", Toolchain>> >> \o
                           [j \in DOMAIN TargetsAll |-> <<"real", TargetsAll[j]>>]
        BY <1>2, <3>2 DEF Prereqs, BaseTargets
      <4> QED BY <2>1, <3>2, <4>1
    <3> QED BY <1>11, <3>1, <3>2
  <2>3. Tier(Prereqs(t)[i]) < Tier(t)
    BY <1>2, <1>11, <2>2 DEF Tier
  <2> QED BY <2>3 DEF Lower
<1> QED
  BY <1>1, <1>2, <1>3, <1>6, <1>7, <1>8, <1>9, <1>10, <1>11 DEF HumanKinds

-----------------------------------------------------------------------------
(* make comes to no target twice                                             *)

\* The targets under consideration get lower and lower, and make is done with
\* none of them.
Falling ==
  /\ \A m, n \in 1..Len(stack) : m < n => Lower(stack[n], stack[m])
  /\ \A n \in 1..Len(stack) : stack[n] \notin done

\* All that make has come to so far.
Walked == done \union {stack[n] : n \in 1..Len(stack)}

\* The steps that are left for the invocation: each target is come to once and
\* finished once.
StepsLeft == 2 * Cardinality(Targets) - Cardinality(done) - Cardinality(Walked)

LEMMA FallingDistinct ==
  ASSUME TypeOK, Falling, NEW m \in 1..Len(stack), NEW n \in 1..Len(stack), m # n
  PROVE  stack[m] # stack[n]
<1>1. Len(stack) \in Nat /\ stack[m] \in Targets /\ stack[n] \in Targets
  BY DEF TypeOK
<1>2. m < n \/ n < m
  BY <1>1
<1>3. Lower(stack[m], stack[n]) \/ Lower(stack[n], stack[m])
  BY <1>2 DEF Falling
<1>4. ~Lower(stack[m], stack[m])
  BY <1>1, LowerOrder
<1> QED BY <1>3, <1>4

\* make turns to a target that it has not come to yet.
LEMMA DescendFalls ==
  ASSUME TypeOK, Falling, Descend
  PROVE  /\ Falling'
         /\ \E u \in Targets \ Walked : Walked' = Walked \union {u}
         /\ done' = done /\ goal' = goal /\ stack' # <<>>
<1>0. /\ stack \in Seq(Targets) /\ stack # <<>> /\ Len(stack) \in Nat \ {0} /\ Top \in Targets
      /\ Top = stack[Len(stack)] /\ done' = done /\ goal' = goal
  BY TypeParts, TopType DEF EngineType, Top, Descend
<1>1. PICK i \in DOMAIN Prereqs(Top) :
        Prereqs(Top)[i] \notin done /\ stack' = Append(stack, Prereqs(Top)[i])
  BY DEF Descend
<1>2. PICK u \in Targets : u = Prereqs(Top)[i] /\ Lower(u, Top)
  BY <1>0, <1>1, PrereqsType, PrereqLower
<1>3. PICK c \in Nat \ {0} : c = Len(stack)
  BY <1>0
<1>4. /\ Len(stack') = c + 1 /\ stack'[c + 1] = u
      /\ \A n \in 1..c : stack'[n] = stack[n] /\ stack[n] \in Targets
  BY <1>0, <1>1, <1>2, <1>3
<1>5. \A n \in 1..c : Lower(u, stack[n])
  <2> SUFFICES ASSUME NEW n \in 1..c PROVE Lower(u, stack[n])
    OBVIOUS
  <2>1. CASE n = c
    BY <1>0, <1>2, <1>3, <2>1
  <2>2. CASE n # c
    <3>1. n < c /\ c \in 1..c
      BY <2>2
    <3>2. Lower(Top, stack[n])
      BY <1>0, <1>3, <3>1 DEF Falling
    <3>3. stack[n] \in Targets
      BY <1>4
    <3> QED BY <1>0, <1>2, <3>2, <3>3, LowerOrder
  <2> QED BY <2>1, <2>2
<1>6. \A n \in 1..(c + 1) : n \in 1..c \/ n = c + 1
  BY <1>3
<1>7. ASSUME NEW m \in 1..(c + 1), NEW n \in 1..(c + 1), m < n
      PROVE  Lower(stack'[n], stack'[m])
  <2>1. m \in 1..c
    BY <1>7
  <2>2. CASE n \in 1..c
    BY <1>3, <1>4, <1>7, <2>1, <2>2 DEF Falling
  <2>3. CASE n = c + 1
    BY <1>4, <1>5, <2>1, <2>3
  <2> QED BY <1>6, <2>2, <2>3
<1>8. \A n \in 1..(c + 1) : stack'[n] \notin done'
  BY <1>0, <1>1, <1>2, <1>3, <1>4, <1>6 DEF Falling
<1>9. Falling'
  BY <1>4, <1>7, <1>8 DEF Falling
<1>10. u \notin Walked
  <2>1. \A n \in 1..c : stack[n] # u
    BY <1>2, <1>4, <1>5, LowerOrder
  <2> QED BY <1>1, <1>2, <1>3, <2>1 DEF Walked
<1>11. {stack'[n] : n \in 1..Len(stack')} = {stack[n] : n \in 1..Len(stack)} \union {u}
  <2>1. c + 1 \in 1..(c + 1) /\ \A n \in 1..c : n \in 1..(c + 1)
    BY <1>3
  <2>2. \A x : (\E n \in 1..(c + 1) : x = stack'[n]) <=> (\E n \in 1..c : x = stack[n]) \/ x = u
    BY <1>4, <1>6, <2>1
  <2> QED BY <1>3, <1>4, <2>2
<1>12. Walked' = Walked \union {u}
  BY <1>0, <1>11 DEF Walked
<1>13. stack' # <<>>
  BY <1>4
<1> QED BY <1>0, <1>9, <1>10, <1>12, <1>13

\* make finishes a target that it has not finished yet.
LEMMA ReturnFalls ==
  ASSUME TypeOK, Falling, stack # <<>>, Return
  PROVE  /\ Falling'
         /\ stack' # <<>> => /\ Walked' = Walked /\ goal' = goal
                             /\ \E u \in Walked \ done : done' = done \union {u}
<1>0. /\ stack \in Seq(Targets) /\ Len(stack) \in Nat \ {0} /\ Top = stack[Len(stack)]
  BY TypeParts, TopType DEF EngineType, Top
<1>1. PICK c \in Nat \ {0} : c = Len(stack)
  BY <1>0
<1>2. CASE c = 1
  BY <1>1, <1>2 DEF Return, Falling
<1>3. CASE c # 1
  <2>1. stack' = SubSeq(stack, 1, c - 1) /\ done' = done \union {Top} /\ goal' = goal
    BY <1>1, <1>3 DEF Return
  <2>2. c - 1 \in Nat \ {0} /\ c - 1 <= Len(stack)
    BY <1>1, <1>3
  <2>3. Len(stack') = c - 1 /\ \A n \in 1..(c - 1) : stack'[n] = stack[n]
    BY <1>0, <2>1, <2>2, PrefixProperties
  <2>4. c \in 1..c /\ \A n \in 1..(c - 1) : n \in 1..c /\ n # c
    BY <1>1
  <2>5. \A n \in 1..(c - 1) : stack[n] \notin done /\ stack[n] # Top
    BY <1>0, <1>1, <2>4, FallingDistinct DEF Falling
  <2>6. Falling'
    <3>1. \A m, n \in 1..(c - 1) : m < n => Lower(stack'[n], stack'[m])
      BY <1>1, <2>3, <2>4 DEF Falling
    <3>2. \A n \in 1..(c - 1) : stack'[n] \notin done'
      BY <2>1, <2>3, <2>5
    <3> QED BY <2>3, <3>1, <3>2 DEF Falling
  <2>7. Top \in Walked \ done
    BY <1>0, <1>1, <2>4 DEF Falling, Walked
  <2>8. {stack[n] : n \in 1..Len(stack)} = {stack'[n] : n \in 1..Len(stack')} \union {Top}
    <3>1. \A n \in 1..c : n \in 1..(c - 1) \/ n = c
      BY <1>1
    <3>2. \A x : (\E n \in 1..c : x = stack[n]) <=>
                 (\E n \in 1..(c - 1) : x = stack'[n]) \/ x = Top
      BY <1>0, <1>1, <2>3, <2>4, <3>1
    <3> QED BY <1>1, <2>3, <3>2
  <2>9. Walked' = Walked
    BY <2>1, <2>8 DEF Walked
  <2> QED BY <2>1, <2>6, <2>7, <2>9
<1> QED BY <1>2, <1>3

-----------------------------------------------------------------------------
(* Every invocation ends                                                     *)

LEMMA SixFinite ==
  ASSUME NEW a, NEW b, NEW c, NEW d, NEW e, NEW f
  PROVE  IsFiniteSet({a, b, c, d, e, f})
<1>1. IsFiniteSet({a} \union {b}) /\ IsFiniteSet({c} \union {d}) /\ IsFiniteSet({e} \union {f})
  BY FS_Singleton, FS_Union
<1>2. IsFiniteSet(({a} \union {b}) \union ({c} \union {d}))
  BY <1>1, FS_Union
<1>3. IsFiniteSet((({a} \union {b}) \union ({c} \union {d})) \union ({e} \union {f}))
  BY <1>1, <1>2, FS_Union
<1>4. {a, b, c, d, e, f} = (({a} \union {b}) \union ({c} \union {d})) \union ({e} \union {f})
  OBVIOUS
<1> QED BY <1>3, <1>4

LEMMA TargetsFinite ==
  ASSUME IsFiniteSet(Packages)
  PROVE  IsFiniteSet(Targets)
<1> DEFINE A == {"pkg", "install", "install-staging", "install-target", "install-images",
                 "install-host"}
           B == {"build", "configure", "patch", "extract", "depends", "source"}
           C == {"rsync", "uninstall", "clean", "dirclean", "clean-for-rebuild", "rebuild"}
           D == {"clean-for-reconfigure", "reconfigure", "real", "world", "top-clean", "top-clean"}
           E == {"downloaded", "extracted", "rsynced", "patched", "configured", "built"}
           F == {"staging_installed", "target_installed", "images_installed", "host_installed",
                 "rsync_sourced", "uninstalled"}
           G == {"cleaned", "cleaned", "cleaned", "cleaned", "cleaned", "dircleaned"}
           AB == A \union B
           CD == C \union D
           EF == E \union F
           AD == AB \union CD
           EG == EF \union G
           All == AD \union EG
<1>1. /\ IsFiniteSet(A) /\ IsFiniteSet(B) /\ IsFiniteSet(C) /\ IsFiniteSet(D)
      /\ IsFiniteSet(E) /\ IsFiniteSet(F) /\ IsFiniteSet(G)
  BY SixFinite
<1>2. HumanKinds \union Stamps \union PseudoStamps = All
  BY DEF HumanKinds, Stamps, PseudoStamps, InstallStamps
<1> HIDE DEF A, B, C, D, E, F, G
<1>3. IsFiniteSet(AB) /\ IsFiniteSet(CD) /\ IsFiniteSet(EF)
  BY <1>1, FS_Union
<1> HIDE DEF AB, CD, EF
<1>4. IsFiniteSet(AD) /\ IsFiniteSet(EG)
  BY <1>1, <1>3, FS_Union
<1> HIDE DEF AD, EG
<1>5. IsFiniteSet(All)
  BY <1>4, FS_Union
<1> HIDE DEF All
<1>6. IsFiniteSet(All \X Packages)
  BY <1>5, FS_Product
<1> QED BY <1>2, <1>6 DEF Targets

LEMMA WalkedType ==
  ASSUME TypeOK
  PROVE  Walked \subseteq Targets /\ done \subseteq Walked
<1>1. done \subseteq Targets /\ \A n \in 1..Len(stack) : stack[n] \in Targets
  BY DEF TypeOK
<1> QED BY <1>1 DEF Walked

\* There is always a number of steps left.
LEMMA StepsLeftType ==
  ASSUME IsFiniteSet(Targets), TypeOK
  PROVE  /\ StepsLeft \in Nat
         /\ IsFiniteSet(done) /\ Cardinality(done) \in Nat
         /\ IsFiniteSet(Walked) /\ Cardinality(Walked) \in Nat
         /\ Cardinality(Targets) \in Nat
<1>1. done \in SUBSET Targets /\ Walked \in SUBSET Targets
  BY WalkedType
<1>2. /\ IsFiniteSet(done) /\ Cardinality(done) <= Cardinality(Targets)
      /\ IsFiniteSet(Walked) /\ Cardinality(Walked) <= Cardinality(Targets)
  BY <1>1, FS_Subset
<1>3. Cardinality(done) \in Nat /\ Cardinality(Walked) \in Nat /\ Cardinality(Targets) \in Nat
  BY <1>2, FS_CardinalityType
<1>4. \A a, b, c \in Nat : a <= c /\ b <= c => 2 * c - a - b \in Nat
  OBVIOUS
<1>5. StepsLeft \in Nat
  BY <1>2, <1>3, <1>4 DEF StepsLeft
<1> QED BY <1>2, <1>3, <1>5

\* A step of a running make ends it, brings it closer to its end, or is not a
\* step of make.
Advances ==
  stack # <<>> => stack' = <<>> \/ UNCHANGED engine \/ (StepsLeft' < StepsLeft /\ goal' = goal)

LEMMA FallingStep ==
  ASSUME TypeOK, Falling, [Next]_vars
  PROVE  Falling'
<1>1. CASE UNCHANGED engine
  BY <1>1 DEF engine, Falling
<1>2. CASE Abort
  BY <1>2 DEF Abort, Falling
<1>3. ASSUME NEW g \in Goals, Make(g) PROVE Falling'
  BY <1>3 DEF Make, Falling
<1> QED BY <1>1, <1>2, <1>3, EngineMoves, DescendFalls, ReturnFalls

LEMMA AdvancesStep ==
  ASSUME IsFiniteSet(Targets), TypeOK, Falling, [Next]_vars
  PROVE  Advances
<1> SUFFICES ASSUME stack # <<>>, stack' # <<>>, ~ UNCHANGED engine
             PROVE  StepsLeft' < StepsLeft /\ goal' = goal
  BY DEF Advances
<1>0. PICK d, w, t \in Nat : /\ d = Cardinality(done) /\ w = Cardinality(Walked)
                             /\ t = Cardinality(Targets) /\ StepsLeft = 2 * t - d - w
  BY StepsLeftType DEF StepsLeft
<1>1. IsFiniteSet(done) /\ IsFiniteSet(Walked)
  BY StepsLeftType
<1>2. CASE Descend
  <2>1. PICK u \in Targets \ Walked : Walked' = Walked \union {u}
    BY <1>2, DescendFalls
  <2>2. Cardinality(Walked') = w + 1
    BY <1>0, <1>1, <2>1, FS_AddElement
  <2>3. done' = done /\ goal' = goal
    BY <1>2, DescendFalls
  <2>4. StepsLeft' = 2 * t - d - (w + 1)
    BY <1>0, <2>2, <2>3 DEF StepsLeft
  <2> QED BY <1>0, <2>3, <2>4
<1>3. CASE Ready(Top) /\ Return
  <2>1. PICK u \in Walked \ done : done' = done \union {u}
    BY <1>3, ReturnFalls
  <2>2. Cardinality(done') = d + 1
    BY <1>0, <1>1, <2>1, FS_AddElement
  <2>3. Walked' = Walked /\ goal' = goal
    BY <1>3, ReturnFalls
  <2>4. StepsLeft' = 2 * t - (d + 1) - w
    BY <1>0, <2>2, <2>3 DEF StepsLeft
  <2> QED BY <1>0, <2>3, <2>4
<1>4. ~ Abort /\ \A g : ~ Make(g)
  BY DEF Abort, Make, Idle
<1> QED BY <1>2, <1>3, <1>4, EngineMoves

LEMMA FallingAlways == Spec => []Falling
<1>1. Init => Falling
  BY DEF Init, Falling
<1>2. TypeOK /\ Falling /\ [Next]_vars => Falling'
  BY FallingStep
<1> QED BY <1>1, <1>2, TypeCorrect, PTL DEF Spec

(* An invocation of make takes no more steps than StepsLeft says when it       *)
(* starts, whatever the recipes, the faults and the user do meanwhile: no      *)
(* package is considered twice, because the rules (pkg-generic.mk:355-451)     *)
(* have no cycle.  This is MakeEnds without the fairness: what it leaves open  *)
(* is that make does go on.                                                   *)
THEOREM EveryStepAdvances ==
  ASSUME IsFiniteSet(Packages)
  PROVE  Spec => [](StepsLeft \in Nat) /\ [][Advances]_vars
<1>0. IsFiniteSet(Targets)
  BY TargetsFinite
<1>1. TypeOK => StepsLeft \in Nat
  BY <1>0, StepsLeftType
<1>2. TypeOK /\ Falling /\ [Next]_vars => [Advances]_vars
  BY <1>0, AdvancesStep
<1> QED BY <1>1, <1>2, TypeCorrect, FallingAlways, PTL DEF Spec

-----------------------------------------------------------------------------
(* A full build that meets no fault                                          *)

\* What the rules have make be done with is on disk when make does not remove.
LEMMA DoneIsTrusted ==
  ASSUME WalkInv, Resumable, stack # <<>>, NEW p \in Packages, NEW s \in Stamps,
         Top[1] \notin {"uninstall", "clean", "cleaned", "dirclean"}, <<s, p>> \in done
  PROVE  s \in stamps[p] /\ s \in Trusted(p)
<1>1. s \in stamps[p]
  <2>1. EngineInv /\ DoneStampsExist
    BY DEF WalkInv, IInv
  <2> QED BY <2>1, DoneStampExists
<1> QED BY <1>1 DEF Resumable, Trusted

\* A sequence starts with what was put in front of it.
LEMMA FrontIsFirst ==
  ASSUME NEW S, NEW a, NEW D \in Seq(S)
  PROVE  1 \in DOMAIN (<<a>> \o D) /\ (<<a>> \o D)[1] = a
  OBVIOUS

\* An override package is rsynced before its dependencies are considered.
LEMMA RsyncIsFirst ==
  ASSUME NEW p \in Overrides
  PROVE  /\ 1 \in DOMAIN Prereqs(<<"depends", p>>)
         /\ Prereqs(<<"depends", p>>)[1] = <<"rsync", p>>
<1> DEFINE D == [i \in DOMAIN Deps[p] |-> <<"pkg", Deps[p][i]>>]
<1>1. /\ p \in Packages /\ Deps[p] \in Seq(Packages)
      /\ DOMAIN Deps[p] = 1..Len(Deps[p]) /\ Len(Deps[p]) \in Nat
  BY ConstantsAssumption
<1>2. \A i \in DOMAIN Deps[p] : <<"pkg", Deps[p][i]>> \in Targets
  BY <1>1 DEF Targets, HumanKinds
<1>3. D \in Seq(Targets)
  BY <1>1, <1>2
<1>4. Prereqs(<<"depends", p>>) = << <<"rsync", p>> >> \o D
  BY DEF Prereqs, SourcePrereqs
<1> HIDE DEF D
<1> QED BY <1>3, <1>4, FrontIsFirst

\* No recipe of a resumable build fails for what it finds on disk: the stamps
\* that make is done with tell the truth.
LEMMA NoFailure ==
  ASSUME WalkInv, Resumable, NEW p \in Packages
  PROVE  ~ RecipeFails(p)
<1>1. TypeOK /\ EngineInv /\ DoneIsClosed /\ SoundAt(p) /\ StampOrder
  BY DEF WalkInv, IInv, EngineInv, Sound
<1>2. torn[p] = {} /\ Trusted(p) = stamps[p]
  BY DEF Resumable, Trusted
<1>3. ASSUME Runs("extracted", p)
      PROVE  p \in dl
  <2>1. stack # <<>> /\ Top = <<"extracted", p>>
    BY <1>3 DEF Runs, Ready
  <2>2. <<"source", p>> \in done /\ p \notin Overrides
    BY <1>1, <2>1, TopContext
  <2>3. Prereqs(<<"source", p>>) = << <<"downloaded", p>> >>
    BY <2>2 DEF Prereqs, SourcePrereqs
  <2>4. <<"downloaded", p>> \in done
    BY <1>1, <2>2, <2>3 DEF DoneIsClosed
  <2>5. "downloaded" \in Trusted(p)
    BY <2>1, <2>4, DoneIsTrusted DEF Stamps
  <2> QED BY <1>1, <2>5 DEF SoundAt
<1>4. ASSUME Runs("patched", p)
      PROVE  tree[p].src > 0 /\ tree[p].patches = 0
  <2>1. stack # <<>> /\ Top = <<"patched", p>> /\ "patched" \notin stamps[p]
    BY <1>4 DEF Runs, Ready
  <2>2. <<"extract", p>> \in done /\ p \notin Overrides
    BY <1>1, <2>1, TopContext
  <2>3. Prereqs(<<"extract", p>>) = << <<"source", p>>, <<"extracted", p>> >>
    BY <2>2 DEF Prereqs, SourcePrereqs
  <2>4. <<"extracted", p>> \in done
    BY <1>1, <2>2, <2>3 DEF DoneIsClosed
  <2>5. "extracted" \in Trusted(p)
    BY <2>1, <2>4, DoneIsTrusted DEF Stamps
  <2> QED BY <1>1, <2>1, <2>2, <2>5 DEF SoundAt, Resumable
<1>5. ASSUME Runs("configured", p)
      PROVE  tree[p].src > 0
  <2>1. stack # <<>> /\ Top = <<"configured", p>>
    BY <1>5 DEF Runs, Ready
  <2>2. <<"depends", p>> \in done /\ (p \in Overrides \/ <<"patch", p>> \in done)
    BY <1>1, <2>1, TopContext
  <2>3. CASE p \in Overrides
    <3>1. <<"rsync", p>> \in done
      BY <1>1, <2>2, <2>3, RsyncIsFirst DEF DoneIsClosed
    <3>2. Prereqs(<<"rsync", p>>) = << <<"rsynced", p>> >>
      BY <2>3 DEF Prereqs, SourcePrereqs
    <3>3. <<"rsynced", p>> \in done
      BY <1>1, <3>1, <3>2 DEF DoneIsClosed
    <3>4. "rsynced" \in Trusted(p)
      BY <2>1, <3>3, DoneIsTrusted DEF Stamps
    <3> QED BY <1>1, <3>4 DEF SoundAt
  <2>4. CASE p \notin Overrides
    <3>1. <<"patch", p>> \in done
      BY <2>2, <2>4
    <3>2. Prereqs(<<"patch", p>>) = << <<"extract", p>>, <<"patched", p>> >>
      BY <2>4 DEF Prereqs, SourcePrereqs
    <3>3. <<"patched", p>> \in done
      BY <1>1, <3>1, <3>2 DEF DoneIsClosed
    <3>4. "patched" \in Trusted(p)
      BY <2>1, <3>3, DoneIsTrusted DEF Stamps
    <3>5. "extracted" \in Trusted(p)
      BY <1>1, <1>2, <3>4 DEF StampOrder
    <3> QED BY <1>1, <3>5 DEF SoundAt
  <2> QED BY <2>3, <2>4
<1>6. ASSUME Runs("built", p)
      PROVE  tree[p].src > 0 /\ tree[p].conf > 0
  <2>1. stack # <<>> /\ Top = <<"built", p>>
    BY <1>6 DEF Runs, Ready
  <2>2. /\ "configured" \in Trusted(p)
        /\ "rsynced" \in Trusted(p) \/ "extracted" \in Trusted(p)
    BY <1>2, <2>1, StampsBefore
  <2> QED BY <1>1, <2>2 DEF SoundAt
<1>7. ASSUME NEW d \in Dests, Runs(InstallStamp[d], p)
      PROVE  tree[p].obj # None
  <2>1. stack # <<>> /\ Top = <<InstallStamp[d], p>> /\ InstallStamp[d] \in InstallStamps
    BY <1>7, InstallStampDistinct DEF Runs, Ready
  <2>2. "built" \in Trusted(p)
    BY <1>2, <2>1, StampsBefore
  <2> QED BY <1>1, <2>2 DEF SoundAt
<1> QED BY <1>3, <1>4, <1>5, <1>6, <1>7 DEF RecipeFails

\* A step that makes no stamp distrusted, and leaves alone the patches of a
\* tree that is not patched yet, keeps a build resumable.
LEMMA ResumableFrame ==
  ASSUME Resumable,
         \A p \in Packages : torn'[p] \subseteq torn[p],
         \A p \in Packages : "patched" \in stamps[p] /\ "patched" \notin stamps'[p] =>
                               tree'[p].patches = 0,
         \A p \in Packages : \/ "patched" \in stamps'[p]
                             \/ tree'[p].patches = tree[p].patches
                             \/ tree'[p].patches = 0
  PROVE  Resumable'
  BY DEF Resumable

LEMMA ResumableStep ==
  ASSUME TypeOK, Resumable, [Next]_vars, ~ CutStep
  PROVE  Resumable'
<1>1. /\ stamps \in [Packages -> SUBSET Stamps] /\ torn \in [Packages -> SUBSET Stamps]
      /\ tree \in [Packages -> Tree]
  BY DEF TypeOK
<1>2. CASE UNCHANGED <<stamps, torn, tree>>
  BY <1>2 DEF Resumable
<1>3. ASSUME NEW p \in Packages, NEW s, Touch(s, p),
             \A q \in Packages : \/ "patched" \in stamps'[q]
                                 \/ tree'[q].patches = tree[q].patches
                                 \/ tree'[q].patches = 0
      PROVE  Resumable'
  <2>1. \A q \in Packages : torn'[q] \subseteq torn[q] /\ stamps[q] \subseteq stamps'[q]
    BY <1>3, TouchStep
  <2> QED BY <1>3, <2>1, ResumableFrame
<1>4. ASSUME NEW p \in Packages, NEW S, Remove(S, p), "patched" \notin S,
             \A q \in Packages : tree'[q].patches = tree[q].patches
      PROVE  Resumable'
  <2>1. \A q \in Packages : /\ torn'[q] \subseteq torn[q]
                            /\ "patched" \in stamps[q] => "patched" \in stamps'[q]
    BY <1>4, RemoveStep
  <2> QED BY <1>4, <2>1, ResumableFrame
<1>5. CASE \/ UNCHANGED vars \/ Descend \/ UpToDate \/ (\E g \in Goals : Make(g))
           \/ \E p \in Packages : \/ RsyncSource(p) \/ RecipeFails(p) \/ EditSources(p)
                                  \/ EditConfig(p)
  BY <1>2, <1>5
  DEF vars, files, Descend, UpToDate, Make, RsyncSource, RecipeFails, EditSources, EditConfig
<1>6. CASE CleanAll
  BY <1>6, ResumableFrame DEF CleanAll, EmptyTree
<1>7. ASSUME NEW p \in Packages,
             Download(p) \/ Extract(p) \/ Rsync(p) \/ Patch(p) \/ Configure(p) \/ Build(p)
      PROVE  Resumable'
  <2>1. CASE Download(p)
    BY <1>3, <2>1 DEF Download
  <2>2. CASE Extract(p)
    <3>1. \A q \in Packages : tree'[q].patches \in {tree[q].patches, 0}
      BY <1>1, <2>2 DEF Extract, WithSources
    <3> QED BY <1>3, <2>2, <3>1 DEF Extract
  <2>3. CASE Rsync(p) \/ Configure(p) \/ Build(p)
    <3>1. \A q \in Packages : tree'[q].patches = tree[q].patches
      BY <1>1, <2>3 DEF Rsync, Configure, Build, Tree
    <3> QED BY <1>3, <2>3, <3>1 DEF Rsync, Configure, Build
  <2>4. CASE Patch(p)
    <3>1. Touch("patched", p) /\ "patched" \in stamps'[p]
      BY <2>4, TouchStep DEF Patch
    <3>2. \A q \in Packages \ {p} : tree'[q] = tree[q]
      BY <1>1, <2>4 DEF Patch
    <3> QED BY <1>3, <3>1, <3>2
  <2> QED BY <1>7, <2>1, <2>2, <2>3, <2>4
<1>8. ASSUME NEW p \in Packages, NEW d \in Dests, Install(p, d)
      PROVE  Resumable'
  BY <1>3, <1>8 DEF Install
<1>9. ASSUME NEW p \in Packages,
             \/ Uninstall(p) \/ CleanPackage(p) \/ CleanForRebuild(p)
             \/ CleanForReconfigure(p) \/ DeleteStamp(p)
      PROVE  Resumable'
  <2>1. CASE Uninstall(p) \/ CleanForReconfigure(p)
    BY <1>4, <2>1 DEF Uninstall, CleanForReconfigure
  <2>2. CASE CleanPackage(p)
    <3>1. \A q \in Packages : tree'[q].patches = tree[q].patches
      BY <1>1, <2>2 DEF CleanPackage, Tree
    <3> QED BY <1>4, <2>2, <3>1 DEF CleanPackage
  <2>3. CASE CleanForRebuild(p)
    <3>1. Len(RebuildStamps(p)) \in 0..Len(RebuildStamps(p))
      BY RebuildStampsLength
    <3>2. "patched" \notin FirstRebuildStamps(Len(RebuildStamps(p)), p)
      BY <3>1, RebuildStampsRange DEF InstallStamps
    <3> QED BY <1>4, <2>3, <3>2 DEF CleanForRebuild
  <2>4. CASE DeleteStamp(p)
    <3>1. PICK s \in HandRemovable : Remove({s}, p)
      BY <2>4 DEF DeleteStamp
    <3>2. s # "patched"
      BY ConstantsAssumption
    <3> QED BY <1>4, <2>4, <3>1, <3>2 DEF DeleteStamp
  <2> QED BY <1>9, <2>1, <2>2, <2>3, <2>4
<1>10. ASSUME NEW p \in Packages, Dirclean(p)
       PROVE  Resumable'
  <2>1. /\ \A q \in Packages : torn'[q] \subseteq torn[q]
        /\ \A q \in Packages \ {p} : stamps'[q] = stamps[q]
    BY <1>10, RemoveStep DEF Dirclean
  <2>2. tree'[p].patches = 0 /\ \A q \in Packages \ {p} : tree'[q] = tree[q]
    BY <1>1, <1>10 DEF Dirclean, EmptyTree
  <2> QED BY <2>1, <2>2, ResumableFrame
<1>11. ASSUME NEW p \in Packages, EditTree(p)
       PROVE  Resumable'
  <2>1. \A q \in Packages : tree'[q].patches = tree[q].patches
    BY <1>1, <1>11 DEF EditTree, Tree
  <2> QED BY <1>11, <2>1, ResumableFrame DEF EditTree
<1> QED
  BY <1>5, <1>6, <1>7, <1>8, <1>9, <1>10, <1>11 DEF Next, MakeStep, UserStep

\* When make is done with everything that world needs, it is done with the
\* toolchain and all packages of the build.
LEMMA WorldIsDone ==
  ASSUME DoneIsClosed, Top[1] = "world", Ready(Top)
  PROVE  /\ <<"pkg", Toolchain>> \in done
         /\ \A i \in DOMAIN TargetsAll : <<"pkg", TargetsAll[i]>> \in done
<1>1. /\ TargetsAll \in Seq(Packages) /\ DOMAIN TargetsAll = 1..Len(TargetsAll)
      /\ Len(TargetsAll) \in Nat
  BY ConstantsAssumption
<1> DEFINE R == [j \in DOMAIN TargetsAll |-> <<"real", TargetsAll[j]>>]
<1>2. Prereqs(Top) = << <<"pkg", Toolchain>> >> \o R
  <2>1. PICK t : t = Top /\ t[1] = "world"
    OBVIOUS
  <2>2. Prereqs(t) = << <<"pkg", Toolchain>> >> \o R
    BY <2>1 DEF Prereqs, BaseTargets
  <2> QED BY <2>1, <2>2
<1>3. R \in Seq({"real"} \X Packages) /\ DOMAIN TargetsAll = 1..Len(R)
  BY <1>1
<1>4. \A i \in DOMAIN TargetsAll : R[i] = <<"real", TargetsAll[i]>>
  OBVIOUS
<1> HIDE DEF R
<1>5. 1 \in DOMAIN Prereqs(Top) /\ Prereqs(Top)[1] = <<"pkg", Toolchain>>
  BY <1>2, <1>3
<1>6. ASSUME NEW i \in DOMAIN TargetsAll
      PROVE  <<"pkg", TargetsAll[i]>> \in done
  <2>1. i + 1 \in DOMAIN Prereqs(Top) /\ Prereqs(Top)[i + 1] = R[i]
    BY <1>2, <1>3
  <2>2. <<"real", TargetsAll[i]>> \in done
    BY <1>4, <2>1 DEF Ready
  <2>3. PICK p : p = TargetsAll[i]
    OBVIOUS
  <2>4. Prereqs(<<"real", p>>) = Append(<< <<"pkg", Toolchain>> >>, <<"pkg", p>>)
    BY DEF Prereqs, BaseTargets
  <2>5. 2 \in DOMAIN Prereqs(<<"real", p>>) /\ Prereqs(<<"real", p>>)[2] = <<"pkg", p>>
    BY <2>4
  <2> QED BY <2>2, <2>3, <2>5 DEF DoneIsClosed
<1> QED BY <1>5, <1>6 DEF Ready

\* A target without a recipe only ever ends an invocation by being up to date.
LEMMA QuietEnd ==
  ASSUME [Next]_vars, Succeeds, ~ HasRecipe(Top)
  PROVE  UNCHANGED files
<1>1. ~ UNCHANGED vars /\ ~ UserStep
  BY DEF vars, engine, Succeeds, UserStep, Make, Idle, EditSources, EditTree, EditConfig,
         DeleteStamp
<1>2. ~ Descend
  BY DEF Descend, Succeeds
<1>3. ASSUME NEW s, NEW p, Ready(<<s, p>>) PROVE ~ HasRecipe(<<s, p>>)
  BY <1>3 DEF Ready
<1>4. \A s, p : Runs(s, p) => Ready(<<s, p>>)
  BY DEF Runs
<1>5. \A d \in Dests : InstallStamp[d] \in Stamps
  BY InstallStampDistinct DEF Stamps
<1>6. \A s \in Stamps \union PseudoStamps \union
             {"clean-for-rebuild", "clean-for-reconfigure", "top-clean"} :
        \A p : HasRecipe(<<s, p>>)
  BY DEF HasRecipe
<1>7. \A p : /\ ~ Runs("downloaded", p) /\ ~ Runs("extracted", p) /\ ~ Runs("rsynced", p)
             /\ ~ Runs("patched", p) /\ ~ Runs("configured", p) /\ ~ Runs("built", p)
             /\ \A d \in Dests : ~ Runs(InstallStamp[d], p)
             /\ ~ Ready(<<"uninstalled", p>>)
             /\ ~ Ready(<<"cleaned", p>>) /\ ~ Ready(<<"dircleaned", p>>)
             /\ ~ Ready(<<"clean-for-rebuild", p>>) /\ ~ Ready(<<"clean-for-reconfigure", p>>)
             /\ ~ Ready(<<"top-clean", p>>)
  BY <1>3, <1>4, <1>5, <1>6 DEF Stamps, PseudoStamps
<1>8. ~ CutStep
  BY <1>7
  DEF CutStep, Interrupted, CleanAllCut, DownloadCut, FetchCut, PatchCut, ConfigureCut, BuildCut,
      InstallCut, UninstallCut, CleanPackageCut, DircleanCut, CleanForRebuildCut
<1>9. UpToDate \/ \E p \in Packages : RsyncSource(p) \/ RecipeFails(p)
  BY <1>1, <1>2, <1>7, <1>8
  DEF Next, MakeStep, CleanAll, Download, Extract, Rsync, Patch, Configure, Build, Install,
      Uninstall, CleanPackage, Dirclean, CleanForRebuild, CleanForReconfigure
<1> QED BY <1>9 DEF UpToDate, RsyncSource, RecipeFails

\* A step that ends a build of world without a fault is its last.
LEMMA WorldEnds ==
  ASSUME WalkInv, Resumable, [Next]_vars, ~ CutStep, stack # <<>>, stack' = <<>>,
         goal[1] = "world"
  PROVE  \A i \in DOMAIN TargetsAll : Installed(TargetsAll[i])'
<1>1. /\ TypeOK /\ stack \in Seq(Targets) /\ Len(stack) \in Nat \ {0} /\ GoalBelow
      /\ IInv /\ DoneIsClosed
  <2>1. TypeOK /\ GoalBelow /\ IInv /\ DoneIsClosed
    BY DEF WalkInv, IInv, EngineInv
  <2> QED BY <2>1, TypeParts, TopType DEF EngineType
<1>2. MakeStep /\ ~ Descend /\ \A p \in Packages : ~ RecipeFails(p)
  <2>1. ~ UNCHANGED vars /\ ~ UserStep
    BY DEF vars, engine, UserStep, Make, Idle, EditSources, EditTree, EditConfig, DeleteStamp
  <2>2. ~ Descend
    BY <1>1 DEF Descend
  <2> QED BY <2>1, <2>2, NoFailure DEF Next
<1>3. Return
  BY <1>2
  DEF MakeStep, UpToDate, CleanAll, Download, Extract, Rsync, Patch, Configure, Build, Install,
      RsyncSource, Uninstall, CleanPackage, Dirclean, CleanForRebuild, CleanForReconfigure, Touch
<1>4. Len(stack) = 1
  <2> SUFFICES ASSUME Len(stack) # 1 PROVE FALSE
    OBVIOUS
  <2>1. Len(stack) - 1 \in Nat \ {0} /\ Len(stack) - 1 <= Len(stack)
    BY <1>1
  <2>2. stack' = SubSeq(stack, 1, Len(stack) - 1)
    BY <1>3 DEF Return
  <2>3. \A s \in Seq(Targets) : \A m \in Nat \ {0} :
          m <= Len(s) => Len(SubSeq(s, 1, m)) = m
    BY PrefixProperties
  <2>4. Len(stack') = Len(stack) - 1
    BY <1>1, <2>1, <2>2, <2>3
  <2> QED BY <2>1, <2>4
<1>5. Succeeds /\ Ready(Top) /\ Top = goal
  BY <1>1, <1>4, EndIsReady, EndIsInstalled DEF Succeeds
<1>6. UNCHANGED <<stamps, torn, inst>>
  <2>1. ~ HasRecipe(Top)
    BY <1>5 DEF HasRecipe, Stamps, PseudoStamps, InstallStamps
  <2> QED BY <1>5, <2>1, QuietEnd DEF files
<1>7. \A i \in DOMAIN TargetsAll : Installed(TargetsAll[i])
  <2> SUFFICES ASSUME NEW i \in DOMAIN TargetsAll PROVE Installed(TargetsAll[i])
    OBVIOUS
  <2>1. TargetsAll[i] \in Packages
    BY ConstantsAssumption
  <2>2. <<"pkg", TargetsAll[i]>> \in done
    BY <1>1, <1>5, WorldIsDone
  <2> QED BY <1>1, <1>5, <2>1, <2>2, DoneIsInstalled
<1> QED BY <1>6, <1>7 DEF Installed

\* A full build with no fault to come, on trees that can be resumed.
WorldGoing == goal # <<>> /\ goal[1] = "world" /\ faults = 0 /\ Resumable

\* It goes on, closer to its end unless the step is not one of make, or it has
\* installed everything.
WorldAdvances ==
  WorldGoing =>
    \/ WorldGoing' /\ (UNCHANGED engine \/ StepsLeft' < StepsLeft)
    \/ stack' = <<>> /\ \A i \in DOMAIN TargetsAll : Installed(TargetsAll[i])'

LEMMA NoFaultLeft ==
  ASSUME faults = 0, [Next]_vars
  PROVE  ~ CutStep /\ faults' = 0
<1>1. ~ Fault
  BY DEF Fault
<1>2. ~ CutStep
  BY <1>1
  DEF CutStep, Interrupted, CleanAllCut, DownloadCut, FetchCut, PatchCut, ConfigureCut, BuildCut,
      InstallCut, UninstallCut, CleanPackageCut, DircleanCut, CleanForRebuildCut
<1>3. faults' = faults
  BY <1>2
  DEF Next, MakeStep, Descend, UpToDate, CleanAll, Download, Extract, Rsync, Patch, Configure,
      Build, Install, RsyncSource, Uninstall, CleanPackage, Dirclean, CleanForRebuild,
      CleanForReconfigure, RecipeFails, UserStep, Make, EditSources, EditTree, EditConfig,
      DeleteStamp, vars
<1> QED BY <1>2, <1>3

(* A full build that meets no further fault, on trees whose stamps can be      *)
(* trusted and whose patch step was not interrupted, never fails: each of its  *)
(* steps brings it closer to its end, and at the end all packages are          *)
(* installed, whatever was left unfinished before (Makefile:400,410) and       *)
(* whatever sources are edited meanwhile.  This is WorldResumes without the    *)
(* fairness.                                                                   *)
THEOREM WorldGetsThere ==
  ASSUME IsFiniteSet(Packages)
  PROVE  Spec => [][WorldAdvances]_vars
<1>0. IsFiniteSet(Targets)
  BY TargetsFinite
<1>1. ASSUME WalkInv, Falling, [Next]_vars
      PROVE  WorldAdvances
  <2> SUFFICES ASSUME WorldGoing
               PROVE  \/ WorldGoing' /\ (UNCHANGED engine \/ StepsLeft' < StepsLeft)
                      \/ /\ stack' = <<>>
                         /\ \A i \in DOMAIN TargetsAll : Installed(TargetsAll[i])'
    BY DEF WorldAdvances
  <2>1. TypeOK /\ stack # <<>>
    BY <1>1 DEF WalkInv, IInv, GoalBelow, WorldGoing
  <2>2. ~ CutStep /\ faults' = 0 /\ Resumable'
    BY <1>1, <2>1, NoFaultLeft, ResumableStep DEF WorldGoing
  <2>3. CASE stack' = <<>>
    BY <1>1, <2>1, <2>2, <2>3, WorldEnds DEF WorldGoing
  <2>4. CASE stack' # <<>>
    <3>1. UNCHANGED engine \/ (StepsLeft' < StepsLeft /\ goal' = goal)
      BY <1>0, <1>1, <2>1, <2>4, AdvancesStep DEF Advances
    <3>2. goal' = goal
      BY <3>1 DEF engine
    <3> QED BY <2>2, <3>1, <3>2 DEF WorldGoing
  <2> QED BY <2>3, <2>4
<1>2. WalkInv /\ Falling /\ [Next]_vars => [WorldAdvances]_vars
  BY <1>1
<1> QED BY <1>2, WalkAlways, FallingAlways, PTL DEF Spec

-----------------------------------------------------------------------------
(* What a successful build leaves                                            *)

Building == Delivering \union {"world"}

\* The packages that the goal asks for.
Asked == IF goal[1] = "world" THEN {Toolchain} \union {TargetsAll[i] : i \in DOMAIN TargetsAll}
                              ELSE {goal[2]}

\* Of each package that is installed somewhere, D has all that it depends on.
ClosedUnderDeps(D) ==
  \A q \in D : InstallTo[q] # {} => \A i \in DOMAIN Deps[q] : Deps[q][i] \in D

LEMMA DependenciesDone ==
  ASSUME DoneIsClosed, NEW q \in Packages, <<"install", q>> \in done, InstallTo[q] # {},
         NEW i \in DOMAIN Deps[q]
  PROVE  Deps[q][i] \in Packages /\ <<"install", Deps[q][i]>> \in done
<1>1. <<"build", q>> \in done
  BY InstallStampsDone
<1>2. Prereqs(<<"build", q>>) = << <<"configure", q>>, <<"built", q>> >>
  BY DEF Prereqs
<1>3. <<"configure", q>> \in done
  BY <1>1, <1>2 DEF DoneIsClosed
<1>4. <<"depends", q>> \in done
  BY <1>3, ConfiguredIsDone
<1> QED BY <1>4, DependsDone, PkgIsInstall

\* When an invocation that builds ends, make is done with what was asked for.
LEMMA AskedIsDone ==
  ASSUME WalkInv, [Next]_vars, Succeeds, goal[1] \in Building
  PROVE  /\ stack # <<>> /\ Top = goal
         /\ \A q \in Asked : q \in Packages /\ <<"install", q>> \in done
<1>1. DoneIsClosed
  BY DEF WalkInv, IInv, EngineInv
<1>2. stack # <<>> /\ Ready(Top)
  BY EndIsReady
<1>3. /\ goal \in Goals /\ goal # <<>> /\ Top = goal
      /\ \A i \in DOMAIN Prereqs(goal) : Prereqs(goal)[i] \in done
  BY EndIsInstalled
<1>4. CASE goal[1] = "world"
  <2>1. /\ <<"pkg", Toolchain>> \in done
        /\ \A i \in DOMAIN TargetsAll : <<"pkg", TargetsAll[i]>> \in done
    BY <1>1, <1>2, <1>3, <1>4, WorldIsDone
  <2>2. Toolchain \in Packages /\ \A i \in DOMAIN TargetsAll : TargetsAll[i] \in Packages
    BY ConstantsAssumption
  <2>3. \A q \in Asked : q \in Packages /\ <<"pkg", q>> \in done
    BY <1>4, <2>1, <2>2 DEF Asked
  <2> QED BY <1>1, <1>2, <1>3, <2>3, PkgIsInstall
<1>5. CASE goal[1] # "world"
  <2>1. PICK p \in Packages : p = goal[2] /\ goal = <<goal[1], p>>
    BY <1>3, GoalPair
  <2>2. <<"install", p>> \in done
    <3>1. CASE goal[1] = "pkg"
      <4>1. Prereqs(goal) = << <<"install", p>> >>
        BY <2>1, <3>1 DEF Prereqs
      <4> QED BY <1>3, <4>1
    <3>2. CASE goal[1] = "rebuild"
      <4>1. Prereqs(goal) = << <<"clean-for-rebuild", p>>, <<"pkg", p>> >>
        BY <2>1, <3>2 DEF Prereqs
      <4>2. <<"pkg", p>> \in done
        BY <1>3, <4>1
      <4> QED BY <1>1, <4>2, PkgIsInstall
    <3>3. CASE goal[1] = "reconfigure"
      <4>1. Prereqs(goal) = << <<"clean-for-reconfigure", p>>, <<"pkg", p>> >>
        BY <2>1, <3>3 DEF Prereqs
      <4>2. <<"pkg", p>> \in done
        BY <1>3, <4>1
      <4> QED BY <1>1, <4>2, PkgIsInstall
    <3> QED BY <1>5, <3>1, <3>2, <3>3 DEF Building, Delivering
  <2> QED BY <1>2, <1>3, <1>5, <2>1, <2>2 DEF Asked
<1> QED BY <1>4, <1>5

BuildIsComplete ==
  Succeeds /\ goal[1] \in Building =>
    \E D \in SUBSET Packages : /\ Asked \subseteq D /\ ClosedUnderDeps(D)
                               /\ \A q \in D : Installed(q)'

(* A build that succeeds, of one package or of all, leaves everything that was *)
(* asked for in all its destinations, together with all it depends on,         *)
(* directly or through others (pkg-generic.mk:397-416), whatever was           *)
(* uninstalled, cleaned or interrupted in earlier invocations: what one of     *)
(* them took away from below an installed package is put back.  Of a package   *)
(* that no FOO_INSTALL_x installs the rules build nothing.                     *)
THEOREM BuildsAreComplete == Spec => [][BuildIsComplete]_vars
<1>1. ASSUME WalkInv, [Next]_vars
      PROVE  BuildIsComplete
  <2> SUFFICES ASSUME Succeeds, goal[1] \in Building
               PROVE  \E D \in SUBSET Packages : /\ Asked \subseteq D /\ ClosedUnderDeps(D)
                                                 /\ \A q \in D : Installed(q)'
    BY DEF BuildIsComplete
  <2> DEFINE D == {q \in Packages : <<"install", q>> \in done}
  <2>1. IInv /\ DoneIsClosed
    BY <1>1 DEF WalkInv, IInv, EngineInv
  <2>2. stack # <<>> /\ Top = goal /\ Asked \subseteq D
    BY <1>1, AskedIsDone
  <2>3. ClosedUnderDeps(D)
    BY <2>1, DependenciesDone DEF ClosedUnderDeps
  <2>4. \A q \in D : Installed(q)
    BY <2>1, <2>2, InstallIsInstalled DEF Building, Delivering
  <2>5. UNCHANGED <<stamps, torn, inst>>
    <3>1. ~ HasRecipe(Top)
      BY <2>2 DEF HasRecipe, Building, Delivering, Stamps, PseudoStamps, InstallStamps
    <3> QED BY <1>1, <3>1, QuietEnd DEF files
  <2>6. \A q \in D : Installed(q)'
    BY <2>4, <2>5 DEF Installed
  <2> QED BY <2>2, <2>3, <2>6
<1>2. WalkInv /\ [Next]_vars => [BuildIsComplete]_vars
  BY <1>1
<1> QED BY <1>2, WalkAlways, PTL DEF Spec
=============================================================================
