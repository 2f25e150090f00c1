---------------------------- MODULE Download_proofs ----------------------------
(***************************************************************************)
(* Proofs about Download.tla, for archives of any size and any number of    *)
(* builds, downloads and interruptions.                                     *)
(***************************************************************************)
EXTENDS Download, TLAPS

Methods == {"none", "wget", "scp"} \union Direct \union Checkout

\* A build that is past the test of a site is at a site, and one that writes
\* has a file open.
Placed(b) ==
  /\ pc[b] \in {"open", "wget", "remove", "direct", "checkout", "pack", "archive"}
       => site[b] <= Len(Sites(b))
  /\ pc[b] \in {"wget", "direct", "archive"} => fd[b] \in Inodes

\* TypeOK is inductive together with this.
TypeInv == TypeOK /\ \A b \in Builders : Placed(b)

\* What a build that runs wget has written is all in the temporary file, which
\* is not the file under the final name.
Writing(b) ==
  pc[b] = "wget" => /\ tmp # NoInode /\ fd[b] = tmp
                    /\ content[tmp] = 1..(pos[b] - 1)

\* The inductive invariant.
WgetInv ==
  /\ FinalComplete
  /\ tmp # NoInode => tmp # final
  /\ \A b \in Builders : Writing(b)
  /\ \A b \in Builders : pc[b] \notin {"direct", "checkout", "pack", "archive"}

-----------------------------------------------------------------------------
\* The sites are a sequence of methods.
LEMMA AttemptsType ==
  ASSUME NEW c \in Setups
  PROVE  Attempts(c) \in Seq(Methods) /\ Len(Attempts(c)) \in Nat
<1> DEFINE First  == IF c.primary # "none" THEN <<c.primary>> ELSE <<>>
           Second == IF c.only \/ c.method = "none" THEN <<>> ELSE <<c.method>>
           Third  == IF c.only \/ ~c.backup THEN <<>> ELSE <<"wget">>
<1>1. <<>> \in Seq(Methods) /\ \A m \in Methods : <<m>> \in Seq(Methods)
  OBVIOUS
<1>2. c.primary \in Methods /\ c.method \in Methods /\ "wget" \in Methods
  BY DownloadAssumption DEF Setup, Methods
<1>3. First \in Seq(Methods) /\ Second \in Seq(Methods) /\ Third \in Seq(Methods)
  BY <1>1, <1>2
<1>4. Attempts(c) = First \o Second \o Third
  BY DEF Attempts
<1> HIDE DEF First, Second, Third
<1>5. First \o Second \o Third \in Seq(Methods)
  BY <1>3
<1> QED BY <1>4, <1>5

\* Each build has some number of sites, and keeps them.
LEMMA SitesType ==
  ASSUME TypeOK, NEW b \in Builders
  PROVE  Len(Sites(b)) \in Nat
BY AttemptsType DEF Sites, TypeOK

LEMMA SitesStay ==
  ASSUME [Next]_vars
  PROVE  setup' = setup /\ \A b : Sites(b)' = Sites(b)
<1>1. setup' = setup
  <2>1. CASE UNCHANGED vars
    BY <2>1 DEF vars
  <2>2. CASE Next
    BY <2>2 DEF Next, Start, TestExists, NoMoreSites, Write, WgetOpen, WgetMove,
           WgetRefused, WgetRemove, DirectOpen, DirectDone, DirectRefused,
           CheckoutOpen, CheckoutDone, CheckoutRefused, ArchiveOpen, ArchiveDone,
           ArchiveFails, Interrupt
  <2> QED BY <2>1, <2>2
<1> QED BY <1>1 DEF Sites

\* Fresh is an inode that no name and no process refers to.
LEMMA FreshInode ==
  ASSUME TypeOK
  PROVE  /\ Fresh \in Inodes
         /\ Fresh \notin {final, tmp}
         /\ \A b \in Builders : fd[b] # Fresh
<1>1. \E i \in Inodes : i \notin {final, tmp} /\ \A b \in Builders : fd[b] # i
  BY InodesAssumption DEF TypeOK
<1> QED BY <1>1 DEF Fresh

\* Closing a file keeps the types and leaves the other builds alone.
LEMMA CloseType ==
  ASSUME TypeOK, NEW b \in Builders, Close(b)
  PROVE  /\ fd' \in [Builders -> Inodes \union {NoInode}]
         /\ pos' \in [Builders -> 1..(Chunks + 1)]
         /\ \A c \in Builders : c # b => fd'[c] = fd[c]
<1>1. 1 \in 1..(Chunks + 1)
  BY DownloadAssumption
<1> QED BY <1>1 DEF Close, TypeOK

\* So does moving on to the next site, if the build is at one.
LEMMA NextSiteType ==
  ASSUME TypeOK, NEW b \in Builders, NextSite(b), site[b] <= Len(Sites(b))
  PROVE  /\ site' \in [Builders -> Nat \ {0}]
         /\ site'[b] <= Len(Sites(b)) + 1
         /\ \A c \in Builders : c # b => site'[c] = site[c]
         /\ pc' = [pc EXCEPT ![b] = "test"]
         /\ Close(b)
<1>1. site[b] + 1 \in Nat \ {0} /\ site[b] + 1 <= Len(Sites(b)) + 1
  BY SitesType DEF TypeOK
<1> QED BY <1>1 DEF NextSite, Go, TypeOK

-----------------------------------------------------------------------------
\* The strengthened type invariant holds in every reachable state.
LEMMA TypesStrengthened == Spec => []TypeInv
<1>1. Init => TypeInv
  <2> SUFFICES ASSUME Init PROVE TypeInv
    OBVIOUS
  <2>1. 1 \in 1..(Chunks + 1) /\ \A b \in Builders : 1 <= Len(Sites(b)) + 1
    BY AttemptsType, DownloadAssumption DEF Init, Sites
  <2>2. 0 \in 0..MaxRuns /\ MaxFaults \in 0..MaxFaults
    BY DownloadAssumption
  <2>3. TypeOK
    <3>1. /\ site \in [Builders -> Nat \ {0}]
          /\ \A b \in Builders : site[b] <= Len(Sites(b)) + 1
      BY <2>1 DEF Init
    <3>2. /\ fd \in [Builders -> Inodes \union {NoInode}]
          /\ pos \in [Builders -> 1..(Chunks + 1)]
          /\ runs \in [Builders -> 0..MaxRuns]
          /\ refused \in [Builders -> BOOLEAN]
          /\ content \in [Inodes -> SUBSET (1..Chunks)]
      BY <2>1, <2>2 DEF Init
    <3> QED BY <2>2, <3>1, <3>2 DEF Init, TypeOK, Idle
  <2>4. \A b \in Builders : Placed(b)
    BY DEF Init, Placed
  <2> QED BY <2>3, <2>4 DEF TypeInv
<1>2. TypeInv /\ [Next]_vars => TypeInv'
  <2> SUFFICES ASSUME TypeInv, [Next]_vars PROVE TypeInv'
    OBVIOUS
  <2> USE DEF TypeInv, Placed
  <2> USE DownloadAssumption, InodesAssumption
  <2>0. /\ setup' = setup /\ \A c : Sites(c)' = Sites(c)
        /\ \A c \in Builders : Len(Sites(c)) \in Nat
    BY SitesType, SitesStay
  <2>1. CASE UNCHANGED vars
    BY <2>0, <2>1 DEF TypeOK, vars, files
  <2>2. CASE Next
    <3> PICK b \in Builders : \/ Start(b) \/ TestExists(b) \/ NoMoreSites(b) \/ Write(b)
        \/ WgetOpen(b) \/ WgetMove(b) \/ WgetRefused(b) \/ WgetRemove(b)
        \/ DirectOpen(b) \/ DirectDone(b) \/ DirectRefused(b)
        \/ CheckoutOpen(b) \/ CheckoutDone(b) \/ CheckoutRefused(b)
        \/ ArchiveOpen(b) \/ ArchiveDone(b) \/ ArchiveFails(b)
        \/ Interrupt(b)
      BY <2>2 DEF Next
    <3>1. CASE Start(b)
      <4>1. TypeOK'
        BY <2>0, <3>1 DEF Start, TypeOK, Go, files, Idle
      <4>2. Placed(b)'
        BY <2>0, <3>1 DEF Start, TypeOK, Go, files, Idle
      <4>3. \A c \in Builders : c # b => Placed(c)'
        BY <2>0, <3>1 DEF Start, TypeOK, Go, files, Idle
      <4> QED BY <4>1, <4>2, <4>3
    <3>2. CASE TestExists(b)
      BY <2>0, <3>2 DEF TestExists, TypeOK, Go, files, Idle
    <3>3. CASE NoMoreSites(b)
      BY <2>0, <3>3 DEF NoMoreSites, TypeOK, Go, files, Idle
    <3>4. CASE Write(b)
      <4>1. TypeOK'
        BY <2>0, <3>4 DEF Write, TypeOK
      <4>2. Placed(b)'
        BY <2>0, <3>4 DEF Write, TypeOK
      <4>3. \A c \in Builders : c # b => Placed(c)'
        BY <2>0, <3>4 DEF Write, TypeOK
      <4> QED BY <4>1, <4>2, <4>3
    <3>5. CASE WgetOpen(b)
      <4>1. TypeOK'
        BY SMTT(60), <2>0, <3>5, FreshInode DEF WgetOpen, TypeOK, Open, Go, Idle
      <4>2. Placed(b)'
        BY <2>0, <3>5, FreshInode DEF WgetOpen, TypeOK, Open, Go, Idle
      <4>3. \A c \in Builders : c # b => Placed(c)'
        BY <2>0, <3>5, FreshInode DEF WgetOpen, TypeOK, Open, Go, Idle
      <4> QED BY <4>1, <4>2, <4>3
    <3>6. CASE WgetMove(b)
      <4>1. CASE tmp # NoInode
        <5>1. /\ pc' = [pc EXCEPT ![b] = "ok"] /\ Close(b)
              /\ final' = tmp /\ tmp' = NoInode
              /\ UNCHANGED <<setup, content, clone, site, runs, refused, faults>>
          BY <3>6, <4>1 DEF WgetMove, Go
        <5>2. TypeOK'
          BY <2>0, <5>1, CloseType DEF TypeOK, Idle
        <5>3. Placed(b)'
          BY <2>0, <5>1 DEF TypeOK
        <5>4. \A c \in Builders : c # b => Placed(c)'
          BY <2>0, <5>1, CloseType DEF TypeOK
        <5> QED BY <5>2, <5>3, <5>4
      <4>2. CASE tmp = NoInode
        <5>1. /\ pc[b] = "wget" /\ pc' = [pc EXCEPT ![b] = "remove"] /\ Close(b)
              /\ final' = final /\ tmp' = tmp
              /\ UNCHANGED <<setup, content, clone, site, runs, refused, faults>>
          BY <3>6, <4>2 DEF WgetMove, Go
        <5>2. TypeOK'
          BY <2>0, <5>1, CloseType DEF TypeOK, Idle
        <5>3. Placed(b)'
          BY <2>0, <5>1 DEF TypeOK
        <5>4. \A c \in Builders : c # b => Placed(c)'
          BY <2>0, <5>1, CloseType DEF TypeOK
        <5> QED BY <5>2, <5>3, <5>4
      <4> QED BY <4>1, <4>2
    <3>7. CASE WgetRefused(b)
      BY <2>0, <3>7 DEF WgetRefused, TypeOK, Go, files, Idle
    <3>8. CASE WgetRemove(b)
      <4>1. NextSite(b) /\ Close(b) /\ site[b] <= Len(Sites(b))
        BY <3>8 DEF WgetRemove, NextSite
      <4>2. /\ site' \in [Builders -> Nat \ {0}] /\ site'[b] <= Len(Sites(b)) + 1
            /\ \A c \in Builders : c # b => site'[c] = site[c]
            /\ pc' = [pc EXCEPT ![b] = "test"]
        BY <4>1, NextSiteType
      <4>3. /\ fd' \in [Builders -> Inodes \union {NoInode}]
            /\ pos' \in [Builders -> 1..(Chunks + 1)]
            /\ \A c \in Builders : c # b => fd'[c] = fd[c]
        BY <4>1, CloseType
      <4>4. TypeOK'
        BY <2>0, <3>8, <4>2, <4>3 DEF WgetRemove, TypeOK, Idle
      <4>5. \A c \in Builders : Placed(c)'
        BY <2>0, <4>2, <4>3 DEF TypeOK
      <4> QED BY <4>4, <4>5
    <3>9. CASE DirectOpen(b)
      <4>1. final' \in Inodes
        BY <3>9, FreshInode DEF DirectOpen, TypeOK
      <4> QED BY SMTT(60), <2>0, <3>9, <4>1 DEF DirectOpen, Open, TypeOK, Go, Idle
    <3>10. CASE DirectDone(b)
      <4>1. TypeOK'
        BY <2>0, <3>10, CloseType DEF DirectDone, TypeOK, Go, files, Idle
      <4>2. Placed(b)'
        BY <2>0, <3>10, CloseType DEF DirectDone, TypeOK, Go, files, Idle
      <4>3. \A c \in Builders : c # b => Placed(c)'
        BY <2>0, <3>10, CloseType DEF DirectDone, TypeOK, Go, files, Idle
      <4> QED BY <4>1, <4>2, <4>3
    <3>11. CASE DirectRefused(b)
      BY SMTT(60), <2>0, <3>11 DEF DirectRefused, NextSite, Close, TypeOK, Go, files, Idle
    <3>12. CASE CheckoutOpen(b)
      <4>1. CASE clone # "absent" /\ Method(b) # "cvs"
        <5>1. /\ pc[b] = "open" /\ NextSite(b) /\ clone' = clone
              /\ UNCHANGED <<content, final, tmp, runs, refused, faults>>
          BY <2>0, <3>12, <4>1 DEF CheckoutOpen
        <5>2. NextSite(b) /\ Close(b) /\ site[b] <= Len(Sites(b))
          BY <5>1 DEF NextSite
        <5>3. /\ site' \in [Builders -> Nat \ {0}] /\ site'[b] <= Len(Sites(b)) + 1
              /\ \A c \in Builders : c # b => site'[c] = site[c]
              /\ pc' = [pc EXCEPT ![b] = "test"]
          BY <5>2, NextSiteType
        <5>4. /\ fd' \in [Builders -> Inodes \union {NoInode}]
              /\ pos' \in [Builders -> 1..(Chunks + 1)]
              /\ \A c \in Builders : c # b => fd'[c] = fd[c]
          BY <5>2, CloseType
        <5>5. TypeOK'
          BY <2>0, <5>1, <5>3, <5>4 DEF TypeOK, Idle
        <5>6. \A c \in Builders : Placed(c)'
          BY <2>0, <5>3, <5>4 DEF TypeOK
        <5> QED BY <5>5, <5>6
      <4>2. CASE ~(clone # "absent" /\ Method(b) # "cvs")
        BY <2>0, <3>12, <4>2 DEF CheckoutOpen, TypeOK, Go, Idle
      <4> QED BY <4>1, <4>2
    <3>18. CASE CheckoutDone(b)
      <4>1. TypeOK'
        BY <2>0, <3>18 DEF CheckoutDone, TypeOK, Go, Idle
      <4>2. \A c \in Builders : Placed(c)'
        BY <2>0, <3>18 DEF CheckoutDone, TypeOK, Go, Idle
      <4> QED BY <4>1, <4>2
    <3>13. CASE CheckoutRefused(b)
      BY SMTT(60), <2>0, <3>13 DEF CheckoutRefused, NextSite, Close, TypeOK, Go, Idle
    <3>14. CASE ArchiveOpen(b)
      <4>1. TypeOK'
        BY SMTT(60), <2>0, <3>14, FreshInode DEF ArchiveOpen, TypeOK, Open, Go, Idle
      <4>2. Placed(b)'
        BY <2>0, <3>14, FreshInode DEF ArchiveOpen, TypeOK, Open, Go, Idle
      <4>3. \A c \in Builders : c # b => Placed(c)'
        BY <2>0, <3>14, FreshInode DEF ArchiveOpen, TypeOK, Open, Go, Idle
      <4> QED BY <4>1, <4>2, <4>3
    <3>15. CASE ArchiveDone(b)
      <4>1. TypeOK'
        BY <2>0, <3>15, CloseType DEF ArchiveDone, TypeOK, Go, Idle
      <4>2. Placed(b)'
        BY <2>0, <3>15, CloseType DEF ArchiveDone, TypeOK, Go, Idle
      <4>3. \A c \in Builders : c # b => Placed(c)'
        BY <2>0, <3>15, CloseType DEF ArchiveDone, TypeOK, Go, Idle
      <4> QED BY <4>1, <4>2, <4>3
    <3>16. CASE ArchiveFails(b)
      <4>1. CASE Method(b) = "git"
        <5>1. /\ pc' = [pc EXCEPT ![b] = "ok"] /\ Close(b)
              /\ clone' = "absent" /\ refused' = [refused EXCEPT ![b] = TRUE]
              /\ UNCHANGED <<setup, content, final, tmp, site, runs, faults>>
          BY <3>16, <4>1 DEF ArchiveFails, Go
        <5>2. TypeOK'
          BY <2>0, <5>1, CloseType DEF TypeOK, Idle
        <5>3. Placed(b)'
          BY <2>0, <5>1 DEF TypeOK
        <5>4. \A c \in Builders : c # b => Placed(c)'
          BY <2>0, <5>1, CloseType DEF TypeOK
        <5> QED BY <5>2, <5>3, <5>4
      <4>2. CASE Method(b) # "git"
        <5>1. /\ pc[b] = "archive" /\ NextSite(b) /\ clone' = clone
              /\ refused' = [refused EXCEPT ![b] = TRUE]
              /\ UNCHANGED <<content, final, tmp, runs, faults>>
          BY <2>0, <3>16, <4>2 DEF ArchiveFails
        <5>2. NextSite(b) /\ Close(b) /\ site[b] <= Len(Sites(b))
          BY <5>1 DEF NextSite
        <5>3. /\ site' \in [Builders -> Nat \ {0}] /\ site'[b] <= Len(Sites(b)) + 1
              /\ \A c \in Builders : c # b => site'[c] = site[c]
              /\ pc' = [pc EXCEPT ![b] = "test"]
          BY <5>2, NextSiteType
        <5>4. /\ fd' \in [Builders -> Inodes \union {NoInode}]
              /\ pos' \in [Builders -> 1..(Chunks + 1)]
              /\ \A c \in Builders : c # b => fd'[c] = fd[c]
          BY <5>2, CloseType
        <5>5. TypeOK'
          BY <2>0, <5>1, <5>3, <5>4 DEF TypeOK, Idle
        <5>6. \A c \in Builders : Placed(c)'
          BY <2>0, <5>3, <5>4 DEF TypeOK
        <5> QED BY <5>5, <5>6
      <4> QED BY <4>1, <4>2
    <3>17. CASE Interrupt(b)
      <4>1. TypeOK'
        BY SMTT(60), <2>0, <3>17, CloseType DEF Interrupt, TypeOK, Go, files, Idle
      <4>2. Placed(b)'
        BY <2>0, <3>17, CloseType DEF Interrupt, TypeOK, Go, files, Idle
      <4>3. \A c \in Builders : c # b => Placed(c)'
        BY <2>0, <3>17, CloseType DEF Interrupt, TypeOK, Go, files, Idle
      <4> QED BY <4>1, <4>2, <4>3
    <3> QED BY <2>0, <3>1, <3>2, <3>3, <3>4, <3>5, <3>6, <3>7, <3>8, <3>9, <3>10, <3>11,
               <3>12, <3>13, <3>14, <3>15, <3>16, <3>17, <3>18
  <2> QED BY <2>1, <2>2
<1> QED BY <1>1, <1>2, PTL DEF Spec

\* Every variable keeps its type, for all builds, sites, methods and faults.
THEOREM TypeCorrect == Spec => []TypeOK
<1>1. TypeInv => TypeOK
  BY DEF TypeInv
<1> QED BY <1>1, TypesStrengthened, PTL

-----------------------------------------------------------------------------
\* A build that goes at a site uses wget.
LEMMA MethodIsWget ==
  ASSUME WgetOnly, TypeInv, NEW b \in Builders, pc[b] = "open"
  PROVE  Method(b) = "wget"
<1>1. site[b] \in 1..Len(Sites(b))
  BY SitesType DEF TypeInv, TypeOK, Placed
<1> QED BY <1>1 DEF Method, WgetOnly

\* The bytes that a build writes next complete what it has written.
LEMMA OneMoreChunk ==
  ASSUME NEW n \in Nat \ {0}
  PROVE  (1..(n - 1)) \union {n} = 1..((n + 1) - 1)
OBVIOUS

LEMMA WgetInductive ==
  ASSUME OneBuild, WgetOnly, TypeInv, WgetInv, [Next]_vars
  PROVE  WgetInv'
<1> PICK b \in Builders : Builders = {b}
  BY DEF OneBuild
<1> USE DEF WgetInv, Writing, FinalComplete, Complete
<1> SUFFICES /\ FinalComplete'
             /\ (tmp # NoInode => tmp # final)'
             /\ Writing(b)'
             /\ pc'[b] \notin {"direct", "checkout", "pack", "archive"}
  OBVIOUS
<1>0. NoInode \notin Inodes /\ Chunks \in Nat \ {0}
  BY InodesAssumption, DownloadAssumption
<1>1. CASE UNCHANGED vars
  BY <1>1 DEF vars, files
<1>2. CASE Next
  <2>0. \/ Start(b) \/ TestExists(b) \/ NoMoreSites(b) \/ Write(b)
        \/ WgetOpen(b) \/ WgetMove(b) \/ WgetRefused(b) \/ WgetRemove(b)
        \/ DirectOpen(b) \/ DirectDone(b) \/ DirectRefused(b)
        \/ CheckoutOpen(b) \/ CheckoutDone(b) \/ CheckoutRefused(b)
        \/ ArchiveOpen(b) \/ ArchiveDone(b) \/ ArchiveFails(b)
        \/ Interrupt(b)
    BY <1>2 DEF Next
  <2>1. CASE Start(b)
    BY <2>1 DEF Start, Go, files, TypeInv, TypeOK
  <2>2. CASE TestExists(b)
    BY <2>2 DEF TestExists, Go, files, TypeInv, TypeOK
  <2>3. CASE NoMoreSites(b)
    BY <2>3 DEF NoMoreSites, Go, files, TypeInv, TypeOK
  <2>4. CASE Write(b)
    <3>1. pc[b] = "wget" /\ fd[b] = tmp /\ tmp \in Inodes /\ tmp # final
      BY <2>4 DEF Write, TypeInv, TypeOK
    <3>2. content'[tmp] = (1..(pos[b] - 1)) \union {pos[b]}
      BY <2>4, <3>1 DEF Write, TypeInv, TypeOK
    <3>3. pos'[b] = pos[b] + 1 /\ pos[b] \in Nat \ {0}
      BY <2>4 DEF Write, TypeInv, TypeOK
    <3>4. content'[tmp] = 1..(pos'[b] - 1)
      BY <3>2, <3>3, OneMoreChunk
    <3>5. final # NoInode => content'[final] = content[final]
      BY <2>4, <3>1 DEF Write, TypeInv, TypeOK
    <3>6. UNCHANGED <<final, tmp, pc, fd>>
      BY <2>4 DEF Write
    <3> QED BY <3>1, <3>4, <3>5, <3>6
  <2>5. CASE WgetOpen(b)
    <3>1. tmp' \in Inodes /\ tmp' # final
      BY <1>0, <2>5, FreshInode DEF WgetOpen, TypeInv, TypeOK
    <3>2. content'[tmp'] = {} /\ pos'[b] = 1 /\ fd'[b] = tmp' /\ final' = final
      BY <2>5, <3>1 DEF WgetOpen, Open, TypeInv, TypeOK
    <3>3. final # NoInode => content'[final] = content[final]
      BY <2>5, <3>1 DEF WgetOpen, Open, TypeInv, TypeOK
    <3>4. pc'[b] = "wget"
      BY <2>5 DEF WgetOpen, Go, TypeInv, TypeOK
    <3>5. 1..(1 - 1) = {}
      OBVIOUS
    <3> QED BY <1>0, <3>1, <3>2, <3>3, <3>4, <3>5
  <2>6. CASE WgetMove(b)
    <3>1. /\ pc[b] = "wget" /\ tmp # NoInode /\ pos[b] = Chunks + 1
          /\ content[tmp] = 1..(pos[b] - 1)
      BY <1>0, <2>6 DEF WgetMove, TypeInv, TypeOK
    <3>2. content[tmp] = 1..Chunks
      BY <1>0, <3>1
    <3>3. final' = tmp /\ tmp' = NoInode /\ content' = content
      BY <2>6, <3>1 DEF WgetMove
    <3>4. pc'[b] = "ok"
      BY <2>6, <3>1 DEF WgetMove, Go, TypeInv, TypeOK
    <3> QED BY <3>2, <3>3, <3>4
  <2>7. CASE WgetRefused(b)
    BY <2>7 DEF WgetRefused, Go, files, TypeInv, TypeOK
  <2>8. CASE WgetRemove(b)
    BY <2>8 DEF WgetRemove, NextSite, Go, TypeInv, TypeOK
  <2>9. CASE DirectOpen(b) \/ CheckoutOpen(b)
    BY <2>9, MethodIsWget DEF DirectOpen, CheckoutOpen, Direct, Checkout
  <2>10. CASE DirectRefused(b)
    BY <2>10, MethodIsWget DEF DirectRefused, Direct
  <2>11. CASE \/ DirectDone(b) \/ CheckoutDone(b) \/ CheckoutRefused(b)
              \/ ArchiveOpen(b) \/ ArchiveDone(b) \/ ArchiveFails(b)
    BY <2>11 DEF DirectDone, CheckoutDone, CheckoutRefused, ArchiveOpen, ArchiveDone, ArchiveFails
  <2>12. CASE Interrupt(b)
    BY <2>12 DEF Interrupt, Go, files, Idle, TypeInv, TypeOK
  <2> QED BY <2>0, <2>1, <2>2, <2>3, <2>4, <2>5, <2>6, <2>7, <2>8, <2>9, <2>10,
             <2>11, <2>12
<1> QED BY <1>1, <1>2

-----------------------------------------------------------------------------
\* A build that is alone found no archive when it began with a site, and from
\* the moment there is one it is the file that the build writes.
StayInv ==
  \A b \in Builders :
    /\ pc[b] \in {"open", "wget", "checkout", "pack"} => final = NoInode
    /\ pc[b] \in {"direct", "archive"} => fd[b] = final

\* What one step of the build does to the archive.
Stays ==
  final # NoInode /\ Complete(final) =>
    final' = final /\ content'[final] = content[final]

LEMMA StayInductive ==
  ASSUME OneBuild, TypeInv, StayInv, [Next]_vars
  PROVE  StayInv' /\ Stays
<1> PICK b \in Builders : Builders = {b}
  BY DEF OneBuild
<1> USE DEF StayInv, Stays
<1>1. CASE UNCHANGED vars
  BY <1>1 DEF vars, files
<1>2. CASE Next
  <2>0. \/ Start(b) \/ TestExists(b) \/ NoMoreSites(b) \/ Write(b)
        \/ WgetOpen(b) \/ WgetMove(b) \/ WgetRefused(b) \/ WgetRemove(b)
        \/ DirectOpen(b) \/ DirectDone(b) \/ DirectRefused(b)
        \/ CheckoutOpen(b) \/ CheckoutDone(b) \/ CheckoutRefused(b)
        \/ ArchiveOpen(b) \/ ArchiveDone(b) \/ ArchiveFails(b)
        \/ Interrupt(b)
    BY <1>2 DEF Next
  <2>1. CASE Start(b) \/ TestExists(b) \/ NoMoreSites(b)
    BY <2>1 DEF Start, TestExists, NoMoreSites, Go, files, TypeInv, TypeOK
  <2>2. CASE Write(b)
    <3>1. UNCHANGED <<final, pc, fd>>
      BY <2>2 DEF Write
    <3>2. ASSUME final # NoInode, Complete(final)
          PROVE  content'[final] = content[final]
      <4>1. final \in Inodes /\ content[final] = 1..Chunks
        BY <3>2 DEF Complete, TypeInv, TypeOK
      <4>2. fd[b] = final /\ pos[b] \in 1..Chunks
        BY <2>2, <3>2 DEF Write, TypeInv, TypeOK
      <4>3. content'[final] \in {content[final], content[final] \union {pos[b]}}
        BY <2>2, <4>1, <4>2 DEF Write, TypeInv, TypeOK
      <4> QED BY <4>1, <4>2, <4>3
    <3> QED BY <3>1, <3>2
  <2>3. CASE WgetOpen(b)
    BY <2>3 DEF WgetOpen, Open, Go, TypeInv, TypeOK
  <2>4. CASE WgetMove(b)
    BY <2>4 DEF WgetMove, Close, Go, TypeInv, TypeOK
  <2>5. CASE WgetRefused(b)
    BY <2>5 DEF WgetRefused, Go, files, TypeInv, TypeOK
  <2>6. CASE WgetRemove(b)
    BY <2>6 DEF WgetRemove, NextSite, Go, TypeInv, TypeOK
  <2>7. CASE DirectOpen(b)
    BY <2>7 DEF DirectOpen, Open, Go, TypeInv, TypeOK
  <2>8. CASE DirectDone(b)
    BY <2>8 DEF DirectDone, Close, Go, files, TypeInv, TypeOK
  <2>9. CASE DirectRefused(b)
    BY <2>9 DEF DirectRefused, NextSite, Go, files, TypeInv, TypeOK
  <2>10. CASE CheckoutOpen(b)
    <3>1. UNCHANGED <<content, final>> /\ pc[b] = "open"
      BY <2>10 DEF CheckoutOpen
    <3>2. pc'[b] \in {"test", "checkout"}
      BY <2>10 DEF CheckoutOpen, NextSite, Go, TypeInv, TypeOK
    <3> QED BY <3>1, <3>2
  <2>16. CASE CheckoutDone(b)
    BY <2>16 DEF CheckoutDone, Go, TypeInv, TypeOK
  <2>11. CASE CheckoutRefused(b)
    BY <2>11 DEF CheckoutRefused, NextSite, Go, TypeInv, TypeOK
  <2>12. CASE ArchiveOpen(b)
    BY <2>12 DEF ArchiveOpen, Open, Go, TypeInv, TypeOK
  <2>13. CASE ArchiveDone(b)
    BY <2>13 DEF ArchiveDone, Go, TypeInv, TypeOK
  <2>14. CASE ArchiveFails(b)
    <3>1. UNCHANGED <<content, final>>
      BY <2>14 DEF ArchiveFails
    <3>2. pc'[b] \in {"ok", "test"}
      BY <2>14 DEF ArchiveFails, NextSite, Go, TypeInv, TypeOK
    <3> QED BY <3>1, <3>2
  <2>15. CASE Interrupt(b)
    BY <2>15 DEF Interrupt, Go, files, TypeInv, TypeOK
  <2> QED BY <2>0, <2>1, <2>2, <2>3, <2>4, <2>5, <2>6, <2>7, <2>8, <2>9, <2>10,
             <2>11, <2>12, <2>13, <2>14, <2>15, <2>16
<1> QED BY <1>1, <1>2

\* Once the archive is complete no download of a build that is alone touches
\* it, by whatever methods it is configured to use.
THEOREM ArchiveStays == Spec => CompleteStays
<1> DEFINE Inv == OneBuild => StayInv
<1>1. Init => Inv
  BY DEF Init, StayInv
<1>2. TypeInv /\ Inv /\ [Next]_vars => Inv'
  BY StayInductive DEF OneBuild
<1>3. TypeInv /\ Inv /\ [Next]_vars =>
        [OneBuild /\ final # NoInode /\ Complete(final) =>
           final' = final /\ content'[final] = content[final]]_vars
  BY StayInductive DEF Stays
<1> QED BY <1>1, <1>2, <1>3, TypesStrengthened, PTL DEF Spec, CompleteStays

-----------------------------------------------------------------------------
\* A build is only told that its download is done when the archive is there.
DoneInv == \A b \in Builders : pc[b] = "ok" => final # NoInode

\* The final name changes its meaning only in a download that succeeds.
LEMMA DoneInductive ==
  ASSUME OneBuild, WgetOnly, TypeInv, WgetInv, DoneInv, [Next]_vars
  PROVE  DoneInv' /\ (final' # final => Succeeded')
<1> PICK b \in Builders : Builders = {b}
  BY DEF OneBuild
<1> USE DEF DoneInv, Succeeded
<1>0. pc[b] \notin {"direct", "checkout", "pack", "archive"}
  BY DEF WgetInv
<1>1. CASE UNCHANGED vars
  BY <1>1 DEF vars, files
<1>2. CASE Next
  <2>0. \/ Start(b) \/ TestExists(b) \/ NoMoreSites(b) \/ Write(b)
        \/ WgetOpen(b) \/ WgetMove(b) \/ WgetRefused(b) \/ WgetRemove(b)
        \/ DirectOpen(b) \/ DirectDone(b) \/ DirectRefused(b)
        \/ CheckoutOpen(b) \/ CheckoutDone(b) \/ CheckoutRefused(b)
        \/ ArchiveOpen(b) \/ ArchiveDone(b) \/ ArchiveFails(b)
        \/ Interrupt(b)
    BY <1>2 DEF Next
  <2>1. CASE Start(b) \/ TestExists(b) \/ NoMoreSites(b)
    BY <2>1 DEF Start, TestExists, NoMoreSites, Go, files, TypeInv, TypeOK
  <2>2. CASE Write(b)
    BY <2>2 DEF Write
  <2>3. CASE WgetOpen(b) \/ WgetRefused(b) \/ WgetRemove(b)
    <3>1. final' = final /\ pc'[b] \in {"wget", "remove", "test"}
      BY <2>3 DEF WgetOpen, WgetRefused, WgetRemove, NextSite, Go, files, TypeInv, TypeOK
    <3> QED BY <3>1
  <2>4. CASE WgetMove(b)
    <3>1. CASE tmp # NoInode
      BY <2>4, <3>1 DEF WgetMove, Go, TypeInv, TypeOK
    <3>2. CASE tmp = NoInode
      BY <2>4, <3>2 DEF WgetMove, Go, TypeInv, TypeOK
    <3> QED BY <3>1, <3>2
  <2>5. CASE DirectOpen(b) \/ CheckoutOpen(b) \/ DirectRefused(b)
    BY <1>0, <2>5, MethodIsWget
    DEF DirectOpen, CheckoutOpen, DirectRefused, Direct, Checkout
  <2>6. CASE \/ DirectDone(b) \/ CheckoutDone(b) \/ CheckoutRefused(b)
             \/ ArchiveOpen(b) \/ ArchiveDone(b) \/ ArchiveFails(b)
    BY <1>0, <2>6 DEF DirectDone, CheckoutDone, CheckoutRefused, ArchiveOpen, ArchiveDone,
                     ArchiveFails
  <2>7. CASE Interrupt(b)
    BY <2>7 DEF Interrupt, Go, files, TypeInv, TypeOK
  <2> QED BY <2>0, <2>1, <2>2, <2>3, <2>4, <2>5, <2>6, <2>7
<1> QED BY <1>1, <1>2

\* The invariant of a build that is alone and only uses wget.
AloneInv == OneBuild /\ WgetOnly => WgetInv /\ StayInv /\ DoneInv

LEMMA AloneInit == Init => AloneInv
  BY DEF Init, AloneInv, WgetInv, FinalComplete, Writing, StayInv, DoneInv

LEMMA AloneStep ==
  ASSUME TypeInv, AloneInv, [Next]_vars
  PROVE  AloneInv'
<1> SUFFICES ASSUME OneBuild, WgetOnly'
             PROVE  WgetInv' /\ StayInv' /\ DoneInv'
  BY DEF AloneInv, OneBuild
<1>1. WgetOnly
  BY SitesStay DEF WgetOnly
<1> QED BY <1>1, WgetInductive, StayInductive, DoneInductive DEF AloneInv

LEMMA AloneAlways == Spec => [](TypeInv /\ AloneInv)
<1>1. TypeInv /\ AloneInv /\ [Next]_vars => AloneInv'
  BY AloneStep
<1> QED BY <1>1, AloneInit, TypesStrengthened, PTL DEF Spec

\* Where one build uses the directory and every site is a wget site, the file
\* under the final name is complete, however many downloads are refused or
\* interrupted.
THEOREM WhatIsThereIsComplete == Spec => []FinalComplete
<1>1. AloneInv => FinalComplete
  BY DEF AloneInv, WgetInv, FinalComplete
<1> QED BY <1>1, AloneAlways, PTL

\* Every step of such a build is a step of Archive.
LEMMA PromiseStep ==
  ASSUME OneBuild, WgetOnly, TypeInv, AloneInv, AloneInv', WgetOnly', [Next]_vars
  PROVE  [Promise!Next]_<<Held, Succeeded>>
<1>1. /\ WgetInv /\ StayInv /\ DoneInv
      /\ WgetInv' /\ DoneInv'
  BY DEF AloneInv, OneBuild
<1>2. CASE Succeeded'
  <2>1. final' # NoInode
    BY <1>1, <1>2 DEF DoneInv, Succeeded
  <2>2. Complete(final)'
    BY <1>1, <2>1 DEF WgetInv, FinalComplete, OneBuild
  <2>3. Held' = "complete"
    BY <2>1, <2>2 DEF Held
  <2> QED BY <1>2, <2>3 DEF Promise!Next, Promise!Succeed, Succeeded
<1>3. CASE ~Succeeded'
  <2>1. final' = final
    BY <1>1, <1>3, DoneInductive
  <2>2. Held' = Held
    <3>1. CASE final = NoInode
      BY <2>1, <3>1 DEF Held
    <3>2. CASE final # NoInode
      <4>1. Complete(final) /\ Complete(final)'
        BY <1>1, <2>1, <3>2 DEF WgetInv, FinalComplete, OneBuild
      <4> QED BY <2>1, <3>2, <4>1 DEF Held
    <3> QED BY <3>1, <3>2
  <2> QED BY <1>3, <2>2 DEF Promise!Next, Promise!Retry, Succeeded
<1> QED BY <1>2, <1>3

\* A wget download into a temporary file that is moved implements Archive: to a
\* build that is alone the archive is absent or complete, it never goes, and a
\* download that is reported as done has left it there.
THEOREM FetchIsAtomic == Spec => FetchesAtomically
<1>1. Init => (OneBuild /\ WgetOnly => Promise!Init)
  <2> SUFFICES ASSUME Init PROVE Promise!Init
    OBVIOUS
  <2>1. Held = "absent" /\ Succeeded = FALSE
    BY DEF Init, Held, Succeeded
  <2> QED BY <2>1 DEF Promise!Init
<1>2. /\ TypeInv /\ AloneInv /\ AloneInv' /\ [Next]_vars
      => [OneBuild /\ WgetOnly => Promise!Next]_<<Held, Succeeded>>
  <2> SUFFICES ASSUME TypeInv, AloneInv, AloneInv', [Next]_vars, OneBuild, WgetOnly
               PROVE  [Promise!Next]_<<Held, Succeeded>>
    OBVIOUS
  <2>1. WgetOnly'
    BY SitesStay DEF WgetOnly
  <2> QED BY <2>1, PromiseStep
<1> QED BY <1>1, <1>2, AloneAlways, PTL DEF Spec, FetchesAtomically

-----------------------------------------------------------------------------
\* Where there is a backup site it is the last one, and wget asks it.
LEMMA BackupIsLast ==
  ASSUME TypeOK, NEW b \in Builders, setup[b].backup
  PROVE  Len(Sites(b)) \in Nat \ {0} /\ Sites(b)[Len(Sites(b))] = "wget"
<1> DEFINE c == setup[b]
           First  == IF c.primary # "none" THEN <<c.primary>> ELSE <<>>
           Second == IF c.only \/ c.method = "none" THEN <<>> ELSE <<c.method>>
<1>1. c \in Setups /\ ~c.only
  BY DownloadAssumption DEF TypeOK
<1>2. c.primary \in Methods /\ c.method \in Methods
  BY <1>1, DownloadAssumption DEF Setup, Methods
<1>3. First \in Seq(Methods) /\ Second \in Seq(Methods) /\ <<"wget">> \in Seq(Methods)
  BY <1>2 DEF Methods
<1>4. Sites(b) = (First \o Second) \o <<"wget">>
  BY <1>1 DEF Sites, Attempts
<1> HIDE DEF First, Second
<1>5. First \o Second \in Seq(Methods)
  BY <1>3
<1>6. ((First \o Second) \o <<"wget">>)[Len(First \o Second) + 1] = "wget"
      /\ Len((First \o Second) \o <<"wget">>) = Len(First \o Second) + 1
      /\ Len(First \o Second) \in Nat
  BY <1>5
<1> QED BY <1>4, <1>6

\* Until something has failed a build that is alone has a site left, and the
\* temporary file is there while wget runs.
RetryInv ==
  \A b \in Builders : setup[b].backup /\ ~refused[b] =>
    /\ pc[b] \notin Idle => site[b] <= Len(Sites(b))
    /\ pc[b] = "wget" => tmp # NoInode
    /\ pc[b] # "remove"

LEMMA RetryInductive ==
  ASSUME OneBuild, TypeInv, RetryInv, [Next]_vars
  PROVE  RetryInv'
<1> PICK b \in Builders : Builders = {b}
  BY DEF OneBuild
<1> SUFFICES ASSUME setup[b].backup, ~refused'[b]
             PROVE  /\ pc'[b] \notin Idle => site'[b] <= Len(Sites(b))
                    /\ pc'[b] = "wget" => tmp' # NoInode
                    /\ pc'[b] # "remove"
  BY SitesStay DEF RetryInv
<1>0. /\ Len(Sites(b)) \in Nat \ {0} /\ Sites(b)[Len(Sites(b))] = "wget"
      /\ NoInode \notin Inodes
  BY BackupIsLast, InodesAssumption DEF TypeInv
<1>1. ~refused[b] => /\ pc[b] \notin Idle => site[b] <= Len(Sites(b))
                     /\ pc[b] = "wget" => tmp # NoInode
                     /\ pc[b] # "remove"
  BY DEF RetryInv
<1>2. CASE UNCHANGED vars
  BY <1>1, <1>2 DEF vars, files
<1>3. CASE Next
  <2>0. \/ Start(b) \/ TestExists(b) \/ NoMoreSites(b) \/ Write(b)
        \/ WgetOpen(b) \/ WgetMove(b) \/ WgetRefused(b) \/ WgetRemove(b)
        \/ DirectOpen(b) \/ DirectDone(b) \/ DirectRefused(b)
        \/ CheckoutOpen(b) \/ CheckoutDone(b) \/ CheckoutRefused(b)
        \/ ArchiveOpen(b) \/ ArchiveDone(b) \/ ArchiveFails(b)
        \/ Interrupt(b)
    BY <1>3 DEF Next
  <2>1. CASE Start(b)
    BY <1>0, <2>1 DEF Start, Go, TypeInv, TypeOK
  <2>2. CASE TestExists(b) \/ NoMoreSites(b)
    BY <1>1, <2>2 DEF TestExists, NoMoreSites, Go, Idle, TypeInv, TypeOK
  <2>3. CASE Write(b)
    BY <1>1, <2>3 DEF Write, Idle, TypeInv, TypeOK
  <2>4. CASE WgetOpen(b)
    <3>1. tmp' # NoInode
      BY <1>0, <2>4, FreshInode DEF WgetOpen, TypeInv
    <3> QED BY <1>1, <2>4, <3>1 DEF WgetOpen, Go, Idle, TypeInv, TypeOK
  <2>5. CASE WgetMove(b)
    BY <1>1, <2>5 DEF WgetMove, Go, Idle, TypeInv, TypeOK
  <2>6. CASE WgetRefused(b) \/ DirectRefused(b) \/ CheckoutRefused(b) \/ ArchiveFails(b)
    BY <2>6 DEF WgetRefused, DirectRefused, CheckoutRefused, ArchiveFails, TypeInv, TypeOK
  <2>7. CASE WgetRemove(b)
    BY <1>1, <2>7 DEF WgetRemove
  <2>8. CASE DirectOpen(b) \/ DirectDone(b) \/ ArchiveOpen(b) \/ ArchiveDone(b)
    BY <1>1, <2>8 DEF DirectOpen, DirectDone, ArchiveOpen, ArchiveDone, Go, Idle, TypeInv, TypeOK
  <2>11. CASE CheckoutDone(b)
    BY <1>1, <2>11 DEF CheckoutDone, Go, Idle, TypeInv, TypeOK
  <2>9. CASE CheckoutOpen(b)
    <3>1. site[b] <= Len(Sites(b)) /\ site[b] \in Nat \ {0}
      BY <1>1, <2>9 DEF CheckoutOpen, Idle, TypeInv, TypeOK
    <3>2. site[b] # Len(Sites(b))
      BY <1>0, <2>9 DEF CheckoutOpen, Method, Checkout
    <3>3. site[b] + 1 <= Len(Sites(b))
      BY <1>0, <3>1, <3>2
    <3>4. CASE NextSite(b)
      BY <3>3, <3>4 DEF NextSite, Go, TypeInv, TypeOK
    <3>5. CASE Go(b, "checkout") /\ UNCHANGED site
      BY <3>1, <3>5 DEF Go, TypeInv, TypeOK
    <3> QED BY <2>9, <3>4, <3>5 DEF CheckoutOpen
  <2>10. CASE Interrupt(b)
    BY <2>10 DEF Interrupt, Go, Idle, TypeInv, TypeOK
  <2> QED BY <2>0, <2>1, <2>2, <2>3, <2>4, <2>5, <2>6, <2>7, <2>8, <2>9, <2>10, <2>11
<1> QED BY <1>2, <1>3

\* A build that is alone and has a backup site fails only when a site or a
\* command failed it in this download, whatever earlier ones left behind.
THEOREM RetriesWork == Spec => RetryWorks
<1> DEFINE Inv == OneBuild => RetryInv
<1>1. Init => Inv
  BY DEF Init, RetryInv, Idle
<1>2. TypeInv /\ Inv /\ [Next]_vars => Inv'
  BY RetryInductive DEF OneBuild
<1>3. TypeInv /\ Inv /\ [Next]_vars =>
        [\A b \in Builders :
           OneBuild /\ setup[b].backup /\ pc[b] # "failed" /\ pc'[b] = "failed"
             => refused[b]]_vars
  <2> SUFFICES ASSUME TypeInv, OneBuild, RetryInv, Next, NEW b \in Builders,
                      setup[b].backup, pc[b] # "failed", pc'[b] = "failed"
               PROVE  refused[b]
    OBVIOUS
  <2>1. Builders = {b}
    BY DEF OneBuild
  <2>2. NoMoreSites(b)
    BY <2>1 DEF Next, Start, TestExists, NoMoreSites, Write, WgetOpen, WgetMove,
         WgetRefused, WgetRemove, DirectOpen, DirectDone, DirectRefused, CheckoutOpen,
         CheckoutDone, CheckoutRefused, ArchiveOpen, ArchiveDone, ArchiveFails, Interrupt,
         NextSite, Go, TypeInv, TypeOK
  <2>3. site[b] > Len(Sites(b)) /\ pc[b] \notin Idle /\ Len(Sites(b)) \in Nat /\ site[b] \in Nat
    BY <2>2, SitesType DEF NoMoreSites, Idle, TypeInv, TypeOK
  <2> QED BY <2>3 DEF RetryInv
<1> QED BY <1>1, <1>2, <1>3, TypesStrengthened, PTL DEF Spec, RetryWorks

-----------------------------------------------------------------------------
\* Nothing has failed so far in any build.
Clean == /\ \A b \in Builders : ~refused[b] /\ runs[b] <= 1
         /\ faults = MaxFaults

\* Build b writes to inode i, and what it has written is there.
Underway(b, i) == /\ pc[b] \in {"wget", "direct", "archive"} /\ fd[b] = i
                  /\ 1..(pos[b] - 1) \subseteq content[i]

\* The build that opened a file last completes it: the others only add to it.
Supplied(i) == Complete(i) \/ \E b \in Builders : Underway(b, i)

\* A build that checks out and packs what it has checked out.
Packing(b) == pc[b] \in {"checkout", "pack", "archive"}

\* Until something fails the directory of a checkout belongs to one build.
CheckoutInv ==
  /\ \A b \in Builders : Packing(b) => site[b] <= Len(Sites(b)) /\ Method(b) \in Checkout
  /\ Clean => /\ \A b \in Builders : Packing(b) => clone # "absent"
              /\ \A b \in Builders : pc[b] \in {"pack", "archive"} => clone = "whole"
              /\ \A b, c \in Builders : Packing(b) /\ Packing(c) => b = c

SettleInv ==
  /\ \A b \in Builders : runs[b] = 0 => ~refused[b] /\ pc[b] \in Idle
  /\ Clean => \A i \in {final, tmp} : i # NoInode => Supplied(i)

\* A step that does not open the inode leaves it supplied, if the build that
\* makes the step goes on writing or is done.
LEMMA SupplyStays ==
  ASSUME TypeInv, NEW b \in Builders, NEW i \in Inodes, Supplied(i),
         content' = content,
         \A c \in Builders : c # b => pc'[c] = pc[c] /\ fd'[c] = fd[c] /\ pos'[c] = pos[c],
         pc[b] \in {"wget", "direct", "archive"} => pos[b] > Chunks
  PROVE  Supplied(i)'
<1>1. CASE Complete(i)
  BY <1>1 DEF Supplied, Complete
<1>2. ASSUME NEW c \in Builders, Underway(c, i)
      PROVE  Supplied(i)'
  <2>1. CASE c # b
    BY <1>2, <2>1 DEF Underway, Supplied
  <2>2. CASE c = b
    <3>1. pos[b] = Chunks + 1 /\ Chunks \in Nat
      BY <1>2, <2>2, DownloadAssumption DEF Underway, TypeInv, TypeOK
    <3>2. 1..Chunks \subseteq content[i]
      BY <1>2, <2>2, <3>1 DEF Underway
    <3>3. content[i] \subseteq 1..Chunks
      BY DEF TypeInv, TypeOK
    <3> QED BY <3>2, <3>3 DEF Supplied, Complete
  <2> QED BY <2>1, <2>2
<1> QED BY <1>1, <1>2 DEF Supplied

\* Opening an inode takes over its supply and leaves the others alone.
LEMMA OpenSupplies ==
  ASSUME TypeInv, NEW b \in Builders, NEW i \in Inodes, Open(b, i),
         pc[b] \notin {"wget", "direct", "archive"},
         NEW w \in {"wget", "direct", "archive"}, Go(b, w),
         NEW j \in Inodes, j = i \/ Supplied(j)
  PROVE  Supplied(j)'
<1>1. /\ content' = [content EXCEPT ![i] = {}] /\ fd'[b] = i /\ pos'[b] = 1 /\ pc'[b] = w
      /\ \A c \in Builders : c # b => pc'[c] = pc[c] /\ fd'[c] = fd[c] /\ pos'[c] = pos[c]
  BY DEF Open, Go, TypeInv, TypeOK
<1>2. CASE j = i
  <2>1. 1..(pos'[b] - 1) = {}
    BY <1>1
  <2>2. Underway(b, j)'
    BY <1>1, <1>2, <2>1 DEF Underway
  <2> QED BY <2>2 DEF Supplied
<1>3. CASE j # i
  <2>1. content'[j] = content[j]
    BY <1>1, <1>3 DEF TypeInv, TypeOK
  <2>2. CASE Complete(j)
    BY <2>1, <2>2 DEF Supplied, Complete
  <2>3. ASSUME NEW c \in Builders, Underway(c, j)
        PROVE  Supplied(j)'
    <3>1. c # b
      BY <2>3 DEF Underway
    <3> QED BY <1>1, <2>1, <2>3, <3>1 DEF Underway, Supplied
  <2> QED BY <1>3, <2>2, <2>3 DEF Supplied
<1> QED BY <1>2, <1>3

\* Writing a chunk spoils nobody's work.
LEMMA WriteSupplies ==
  ASSUME TypeInv, NEW b \in Builders, Write(b), NEW j \in Inodes, Supplied(j),
         pc[b] = "archive" => clone = "whole"
  PROVE  Supplied(j)'
<1>1. /\ fd[b] \in Inodes /\ pos[b] \in 1..Chunks
      /\ content' = [content EXCEPT ![fd[b]] = content[fd[b]] \union {pos[b]}]
      /\ pos'[b] = pos[b] + 1
      /\ pc' = pc /\ fd' = fd
      /\ \A c \in Builders : c # b => pos'[c] = pos[c]
  BY DEF Write, TypeInv, TypeOK, Placed
<1>2. content[j] \subseteq content'[j] /\ content'[j] \subseteq 1..Chunks
  BY <1>1 DEF TypeInv, TypeOK
<1>3. CASE Complete(j)
  BY <1>2, <1>3 DEF Supplied, Complete
<1>4. ASSUME NEW c \in Builders, Underway(c, j)
      PROVE  Supplied(j)'
  <2>1. 1..(pos'[c] - 1) \subseteq content'[j]
    <3>1. CASE c # b
      BY <1>1, <1>2, <1>4, <3>1 DEF Underway
    <3>2. CASE c = b
      <4>1. pos[b] \in content'[j]
        BY <1>1, <1>4, <3>2 DEF Underway, TypeInv, TypeOK
      <4>2. 1..(pos'[c] - 1) = (1..(pos[b] - 1)) \union {pos[b]}
        BY <1>1, <3>2
      <4> QED BY <1>2, <1>4, <3>2, <4>1, <4>2 DEF Underway
    <3> QED BY <3>1, <3>2
  <2> QED BY <1>1, <1>4, <2>1 DEF Underway, Supplied
<1> QED BY <1>3, <1>4 DEF Supplied

LEMMA SettleInductive ==
  ASSUME TypeInv, OwnCheckout, CheckoutInv, SettleInv, [Next]_vars
  PROVE  SettleInv'
<1>1. CASE UNCHANGED vars
  BY <1>1 DEF vars, files, SettleInv, Clean, Supplied, Complete, Underway
<1>2. ASSUME NEW b \in Builders,
             \/ Start(b) \/ TestExists(b) \/ NoMoreSites(b) \/ Write(b)
             \/ WgetOpen(b) \/ WgetMove(b) \/ WgetRefused(b) \/ WgetRemove(b)
             \/ DirectOpen(b) \/ DirectDone(b) \/ DirectRefused(b)
             \/ CheckoutOpen(b) \/ CheckoutDone(b) \/ CheckoutRefused(b)
             \/ ArchiveOpen(b) \/ ArchiveDone(b) \/ ArchiveFails(b)
             \/ Interrupt(b)
      PROVE  SettleInv'
  <2>0. /\ NoInode \notin Inodes
        /\ Clean => \A i \in {final, tmp} : i # NoInode => i \in Inodes /\ Supplied(i)
    BY InodesAssumption DEF SettleInv, TypeInv, TypeOK
  <2>1. ASSUME NEW c \in Builders, runs'[c] = 0
        PROVE  ~refused'[c] /\ pc'[c] \in Idle
    <3>1. CASE Start(b)
      BY <2>1, <3>1 DEF Start, Go, SettleInv, TypeInv, TypeOK
    <3>2. CASE ~Start(b)
      <4>1. pc[b] \notin Idle /\ runs' = runs
        BY <1>2, <3>2 DEF TestExists, NoMoreSites, Write, WgetOpen, WgetMove, WgetRefused,
             WgetRemove, DirectOpen, DirectDone, DirectRefused, CheckoutOpen,
             CheckoutDone, CheckoutRefused,
             ArchiveOpen, ArchiveDone, ArchiveFails, Interrupt, Idle
      <4>2. c # b
        BY <2>1, <4>1 DEF SettleInv
      <4>3. pc'[c] = pc[c] /\ refused'[c] = refused[c]
        BY <1>2, <3>2, <4>2 DEF TestExists, NoMoreSites, Write, WgetOpen, WgetMove, WgetRefused,
             WgetRemove, DirectOpen, DirectDone, DirectRefused, CheckoutOpen,
             CheckoutDone, CheckoutRefused,
             ArchiveOpen, ArchiveDone, ArchiveFails, Interrupt, NextSite, Go, TypeInv, TypeOK
      <4> QED BY <2>1, <4>1, <4>3 DEF SettleInv
    <3> QED BY <3>1, <3>2
  <2>2. CASE Start(b) \/ TestExists(b) \/ NoMoreSites(b)
    <3>1. Clean' => Clean
      <4>1. CASE Start(b)
        BY <4>1 DEF Start, Clean, SettleInv, TypeInv, TypeOK
      <4>2. CASE TestExists(b) \/ NoMoreSites(b)
        BY <4>2 DEF TestExists, NoMoreSites, Clean
      <4> QED BY <2>2, <4>1, <4>2
    <3>2. /\ UNCHANGED <<content, final, tmp, fd, pos>>
          /\ \A c \in Builders : c # b => pc'[c] = pc[c]
          /\ pc[b] \notin {"wget", "direct", "archive"}
      BY <2>2 DEF Start, TestExists, NoMoreSites, Go, files, Idle, TypeInv, TypeOK
    <3>3. Clean => \A i \in {final, tmp} : i # NoInode => Supplied(i)'
      BY <2>0, <3>2, SupplyStays
    <3> QED BY <2>1, <3>1, <3>2, <3>3 DEF SettleInv
  <2>3. CASE Write(b)
    <3>1. UNCHANGED <<final, tmp, runs, refused, faults>>
      BY <2>3 DEF Write
    <3>2. Clean => \A i \in {final, tmp} : i # NoInode => Supplied(i)'
      BY <2>0, <2>3, WriteSupplies DEF CheckoutInv
    <3> QED BY <2>1, <3>1, <3>2 DEF SettleInv, Clean
  <2>4. CASE WgetOpen(b)
    <3>1. /\ UNCHANGED <<final, runs, refused, faults>> /\ Open(b, tmp') /\ Go(b, "wget")
          /\ pc[b] = "open" /\ tmp' \in Inodes
      BY <2>0, <2>4, FreshInode DEF WgetOpen, TypeInv, TypeOK
    <3>2. PICK i \in Inodes : i = tmp'
      BY <3>1
    <3>3. ASSUME Clean, NEW j \in {final, tmp'}, j # NoInode
          PROVE  Supplied(j)'
      <4>1. j \in Inodes /\ (j = i \/ Supplied(j)) /\ Open(b, i)
        BY <2>0, <3>1, <3>2, <3>3
      <4>2. pc[b] \notin {"wget", "direct", "archive"} /\ "wget" \in {"wget", "direct", "archive"}
        BY <3>1
      <4> QED BY <3>1, <4>1, <4>2, OpenSupplies
    <3> QED BY <2>1, <3>1, <3>3 DEF SettleInv, Clean
  <2>5. CASE DirectOpen(b) \/ ArchiveOpen(b)
    <3>1. PICK w \in {"direct", "archive"} : Go(b, w)
      BY <2>5 DEF DirectOpen, ArchiveOpen
    <3>2. /\ UNCHANGED <<tmp, runs, refused, faults>> /\ Open(b, final')
          /\ pc[b] \in {"open", "pack"} /\ final' \in Inodes
      BY <2>0, <2>5, FreshInode DEF DirectOpen, ArchiveOpen, TypeInv, TypeOK
    <3>3. PICK i \in Inodes : i = final'
      BY <3>2
    <3>4. ASSUME Clean, NEW j \in {final', tmp}, j # NoInode
          PROVE  Supplied(j)'
      <4>1. j \in Inodes /\ (j = i \/ Supplied(j)) /\ Open(b, i)
        BY <2>0, <3>2, <3>3, <3>4
      <4>2. pc[b] \notin {"wget", "direct", "archive"} /\ w \in {"wget", "direct", "archive"}
        BY <3>1, <3>2
      <4> QED BY <3>1, <4>1, <4>2, OpenSupplies
    <3> QED BY <2>1, <3>2, <3>4 DEF SettleInv, Clean
  <2>6. CASE WgetMove(b) \/ DirectDone(b) \/ ArchiveDone(b)
    <3>1. /\ UNCHANGED <<content, runs, refused, faults>> /\ Close(b) /\ pos[b] > Chunks
          /\ \A c \in Builders : c # b => pc'[c] = pc[c]
          /\ final' \in {final, tmp} /\ tmp' \in {tmp, NoInode}
      BY <2>6 DEF WgetMove, DirectDone, ArchiveDone, Go, files, TypeInv, TypeOK
    <3>2. \A c \in Builders : c # b => pc'[c] = pc[c] /\ fd'[c] = fd[c] /\ pos'[c] = pos[c]
      BY <3>1 DEF Close, TypeInv, TypeOK
    <3>3. Clean => \A i \in {final, tmp} : i # NoInode => Supplied(i)'
      BY <2>0, <3>1, <3>2, SupplyStays
    <3> QED BY <2>1, <3>1, <3>3 DEF SettleInv, Clean
  <2>7. CASE WgetRemove(b) \/ CheckoutOpen(b) \/ CheckoutDone(b)
    <3>1. /\ UNCHANGED <<content, final, runs, refused, faults>> /\ tmp' \in {tmp, NoInode}
          /\ pc[b] \in {"remove", "open", "checkout"}
      BY <2>7 DEF WgetRemove, CheckoutOpen, CheckoutDone
    <3>2. \A c \in Builders : c # b => pc'[c] = pc[c] /\ fd'[c] = fd[c] /\ pos'[c] = pos[c]
      BY <2>7 DEF WgetRemove, CheckoutOpen, CheckoutDone, NextSite, Close, Go, TypeInv, TypeOK
    <3>3. Clean => \A i \in {final, tmp} : i # NoInode => Supplied(i)'
      BY <2>0, <3>1, <3>2, SupplyStays
    <3> QED BY <2>1, <3>1, <3>3 DEF SettleInv, Clean
  <2>8. CASE \/ WgetRefused(b) \/ DirectRefused(b) \/ CheckoutRefused(b) \/ ArchiveFails(b)
             \/ Interrupt(b)
    <3>1. refused'[b] \/ faults' < MaxFaults
      BY <2>8, DownloadAssumption DEF WgetRefused, DirectRefused, CheckoutRefused, ArchiveFails,
                                      Interrupt, TypeInv, TypeOK
    <3>2. ~Clean'
      BY <3>1, DownloadAssumption DEF Clean
    <3> QED BY <2>1, <3>2 DEF SettleInv
  <2> QED BY <1>2, <2>2, <2>3, <2>4, <2>5, <2>6, <2>7, <2>8
<1> QED BY <1>1, <1>2 DEF Next

\* A step of build b leaves the others where they are.
LEMMA OthersStay ==
  ASSUME TypeInv, NEW b \in Builders,
         \/ Start(b) \/ TestExists(b) \/ NoMoreSites(b) \/ Write(b)
         \/ WgetOpen(b) \/ WgetMove(b) \/ WgetRefused(b) \/ WgetRemove(b)
         \/ DirectOpen(b) \/ DirectDone(b) \/ DirectRefused(b)
         \/ CheckoutOpen(b) \/ CheckoutDone(b) \/ CheckoutRefused(b)
         \/ ArchiveOpen(b) \/ ArchiveDone(b) \/ ArchiveFails(b)
         \/ Interrupt(b)
  PROVE  \A c \in Builders : c # b => pc'[c] = pc[c] /\ site'[c] = site[c]
<1>1. CASE Start(b) \/ TestExists(b) \/ NoMoreSites(b) \/ Write(b) \/ Interrupt(b)
  BY <1>1 DEF Start, TestExists, NoMoreSites, Write, Interrupt, Go, TypeInv, TypeOK
<1>2. CASE WgetOpen(b) \/ WgetMove(b) \/ WgetRefused(b) \/ WgetRemove(b)
  BY <1>2 DEF WgetOpen, WgetMove, WgetRefused, WgetRemove, NextSite, Go, TypeInv, TypeOK
<1>3. CASE DirectOpen(b) \/ DirectDone(b) \/ DirectRefused(b)
  BY <1>3 DEF DirectOpen, DirectDone, DirectRefused, NextSite, Go, TypeInv, TypeOK
<1>4. CASE CheckoutOpen(b) \/ CheckoutDone(b) \/ CheckoutRefused(b)
  BY <1>4 DEF CheckoutOpen, CheckoutDone, CheckoutRefused, NextSite, Go, TypeInv, TypeOK
<1>5. CASE ArchiveOpen(b) \/ ArchiveDone(b) \/ ArchiveFails(b)
  BY <1>5 DEF ArchiveOpen, ArchiveDone, ArchiveFails, NextSite, Go, TypeInv, TypeOK
<1> QED BY <1>1, <1>2, <1>3, <1>4, <1>5

\* As long as nothing fails the second build that comes to a checkout finds the
\* directory and, as it does not use cvs, lets it be.
LEMMA CheckoutInductive ==
  ASSUME TypeInv, OwnCheckout, SettleInv, CheckoutInv, [Next]_vars
  PROVE  CheckoutInv'
<1>0. setup' = setup /\ \A c : Sites(c)' = Sites(c)
  BY SitesStay
<1>1. CASE UNCHANGED vars
  BY <1>0, <1>1 DEF vars, files, CheckoutInv, Clean, Packing, Method
<1>2. ASSUME NEW b \in Builders,
             \/ Start(b) \/ TestExists(b) \/ NoMoreSites(b) \/ Write(b)
             \/ WgetOpen(b) \/ WgetMove(b) \/ WgetRefused(b) \/ WgetRemove(b)
             \/ DirectOpen(b) \/ DirectDone(b) \/ DirectRefused(b)
             \/ CheckoutOpen(b) \/ CheckoutDone(b) \/ CheckoutRefused(b)
             \/ ArchiveOpen(b) \/ ArchiveDone(b) \/ ArchiveFails(b)
             \/ Interrupt(b)
      PROVE  CheckoutInv'
  <2>0. \A c \in Builders : c # b => pc'[c] = pc[c] /\ site'[c] = site[c]
    BY <1>2, OthersStay
  <2>1. CASE \/ Start(b) \/ TestExists(b) \/ NoMoreSites(b)
             \/ WgetOpen(b) \/ WgetMove(b) \/ WgetRemove(b) \/ DirectOpen(b) \/ DirectDone(b)
    <3>1. ~Packing(b)' /\ UNCHANGED clone
      BY <2>1 DEF Start, TestExists, NoMoreSites, WgetOpen, WgetMove, WgetRemove, DirectOpen,
           DirectDone, NextSite, Go, files, Packing, TypeInv, TypeOK
    <3>2. Clean' => Clean
      <4>1. CASE Start(b)
        BY <4>1 DEF Start, Clean, SettleInv, TypeInv, TypeOK
      <4>2. CASE ~Start(b)
        BY <2>1, <4>2 DEF TestExists, NoMoreSites, WgetOpen, WgetMove, WgetRemove, DirectOpen,
             DirectDone, Clean
      <4> QED BY <4>1, <4>2
    <3>3. \A c \in Builders : Packing(c)' => c # b /\ Packing(c) /\ Method(c)' = Method(c)
      BY <1>0, <2>0, <3>1 DEF Packing, Method
    <3> QED BY <1>0, <2>0, <3>1, <3>2, <3>3 DEF CheckoutInv, Packing
  <2>2. CASE Write(b)
    BY <1>0, <2>2 DEF Write, CheckoutInv, Clean, Packing, Method
  <2>3. CASE CheckoutOpen(b)
    <3>1. pc[b] = "open" /\ Method(b) \in Checkout /\ site[b] \in 1..Len(Sites(b))
      BY <2>3, SitesType DEF CheckoutOpen, TypeInv, TypeOK, Placed
    <3>2. (Clean' <=> Clean)
      BY <2>3 DEF CheckoutOpen, Clean
    <3>3. CASE clone # "absent" /\ Method(b) # "cvs"
      <4>1. ~Packing(b)' /\ UNCHANGED clone
        BY <2>3, <3>3 DEF CheckoutOpen, NextSite, Go, Packing, TypeInv, TypeOK
      <4>2. \A c \in Builders : Packing(c)' => c # b /\ Packing(c) /\ Method(c)' = Method(c)
        BY <1>0, <2>0, <4>1 DEF Packing, Method
      <4> QED BY <1>0, <2>0, <3>2, <4>1, <4>2 DEF CheckoutInv, Packing
    <3>4. CASE ~(clone # "absent" /\ Method(b) # "cvs")
      <4>1. pc'[b] = "checkout" /\ site' = site /\ clone' # "absent"
        BY <2>3, <3>4 DEF CheckoutOpen, Go, TypeInv, TypeOK
      <4>2. ASSUME Clean, NEW c \in Builders, Packing(c) PROVE FALSE
        <5>1. clone # "absent" /\ Method(c) \in Checkout /\ site[c] \in 1..Len(Sites(c))
          BY <4>2, SitesType DEF CheckoutInv, TypeInv, TypeOK
        <5>2. Uses(b, {"cvs"}) /\ Uses(c, Checkout)
          BY <3>1, <3>4, <5>1 DEF Uses, Method
        <5>3. b = c
          BY <5>2 DEF OwnCheckout
        <5> QED BY <3>1, <4>2, <5>3 DEF Packing
      <4>3. \A c \in Builders : Packing(c)' => (c = b \/ Packing(c)) /\ Method(c)' = Method(c)
        BY <1>0, <2>0, <4>1 DEF Packing, Method
      <4>4. Clean' => \A c \in Builders : Packing(c)' => c = b
        BY <3>2, <4>2, <4>3
      <4>5. \A c \in Builders : Packing(c)' =>
              site'[c] <= Len(Sites(c))' /\ Method(c)' \in Checkout
        BY <1>0, <3>1, <4>1, <4>3 DEF CheckoutInv
      <4>6. Clean' => \A c \in Builders : pc'[c] \notin {"pack", "archive"}
        BY <4>1, <4>4 DEF Packing
      <4> QED BY <4>1, <4>4, <4>5, <4>6 DEF CheckoutInv
    <3> QED BY <3>3, <3>4
  <2>4. CASE CheckoutDone(b) \/ ArchiveOpen(b)
    <3>1. /\ Packing(b) /\ UNCHANGED <<site, runs, refused, faults>>
          /\ clone' = "whole" \/ (clone' = clone /\ pc[b] = "pack")
      BY <2>4 DEF CheckoutDone, ArchiveOpen, Packing
    <3>2. \A c \in Builders : Packing(c)' => Packing(c) /\ Method(c)' = Method(c)
      BY <1>0, <2>0, <3>1 DEF Packing, Method
    <3>3. Clean' => Clean
      BY <3>1 DEF Clean
    <3>4. Clean => clone' = "whole"
      BY <3>1 DEF CheckoutInv
    <3> QED BY <1>0, <3>1, <3>2, <3>3, <3>4 DEF CheckoutInv
  <2>5. CASE ArchiveDone(b)
    <3>1. Packing(b) /\ ~Packing(b)' /\ UNCHANGED <<site, runs, refused, faults>>
      BY <2>5 DEF ArchiveDone, Packing, Go, TypeInv, TypeOK
    <3>2. \A c \in Builders : Packing(c)' => c # b /\ Packing(c) /\ Method(c)' = Method(c)
      BY <1>0, <2>0, <3>1 DEF Packing, Method
    <3>3. Clean' => Clean
      BY <3>1 DEF Clean
    <3>4. Clean' => \A c \in Builders : ~Packing(c)'
      BY <3>1, <3>2, <3>3 DEF CheckoutInv
    <3>5. Clean' => \A c \in Builders : pc'[c] \notin {"pack", "archive"}
      BY <3>4 DEF Packing
    <3> QED BY <1>0, <3>1, <3>2, <3>4, <3>5 DEF CheckoutInv
  <2>6. CASE \/ WgetRefused(b) \/ DirectRefused(b) \/ CheckoutRefused(b) \/ ArchiveFails(b)
             \/ Interrupt(b)
    <3>1. refused'[b] \/ faults' < MaxFaults
      BY <2>6, DownloadAssumption DEF WgetRefused, DirectRefused, CheckoutRefused, ArchiveFails,
                                      Interrupt, TypeInv, TypeOK
    <3>2. ~Clean'
      BY <3>1, DownloadAssumption DEF Clean
    <3>3. ~Packing(b)'
      BY <2>6 DEF WgetRefused, DirectRefused, CheckoutRefused, ArchiveFails, Interrupt,
           NextSite, Go, Packing, TypeInv, TypeOK
    <3>4. \A c \in Builders : Packing(c)' => c # b /\ Packing(c) /\ Method(c)' = Method(c)
      BY <1>0, <2>0, <3>3 DEF Packing, Method
    <3> QED BY <1>0, <2>0, <3>2, <3>4 DEF CheckoutInv
  <2> QED BY <1>2, <2>1, <2>2, <2>3, <2>4, <2>5, <2>6
<1> QED BY <1>1, <1>2 DEF Next

\* Whatever the builds that share the directory do to each other's files, when
\* all are done and nothing failed in any of them the archive is complete, for
\* every number of builds and every mixture of methods in which a build that
\* uses cvs is the only one that checks anything out.
THEOREM BuildsSettle == Spec => []ParallelSettles
<1> DEFINE Inv == OwnCheckout => SettleInv /\ CheckoutInv
<1>1. Init => Inv
  BY DEF Init, SettleInv, CheckoutInv, Packing, Idle
<1>2. TypeInv /\ Inv /\ [Next]_vars => Inv'
  <2> SUFFICES ASSUME TypeInv, Inv, [Next]_vars, OwnCheckout'
               PROVE  SettleInv' /\ CheckoutInv'
    OBVIOUS
  <2>1. OwnCheckout
    BY SitesStay DEF OwnCheckout, Uses
  <2> QED BY <2>1, SettleInductive, CheckoutInductive
<1>3. Inv => ParallelSettles
  BY DEF SettleInv, ParallelSettles, Clean, Supplied, Underway, Idle
<1> QED BY <1>1, <1>2, <1>3, TypesStrengthened, PTL DEF Spec

=============================================================================
