------------------------------- MODULE Download -------------------------------
(***************************************************************************)
(* package/pkg-download.mk: how builds fetch one archive, $($(PKG)_SOURCE), *)
(* into the download directory, which all the builds of a user may share    *)
(* (DL_DIR, lines 27-35).                                                   *)
(*                                                                         *)
(* A file is an inode that names may point to and that a process may still  *)
(* be writing to; its content is the set of its chunks that are there.      *)
(***************************************************************************)
EXTENDS Integers, Sequences

CONSTANTS
  Builders,     \* builds that use the download directory
  Chunks,       \* number of chunks of the archive
  Setups,       \* configurations that the builds may have
  Inodes,
  MaxRuns,      \* bound on the downloads that each build starts
  MaxFaults     \* bound on the downloads that are interrupted

\* How a method gets at the archive: wget writes a temporary file, others
\* write the archive itself, others check a repository out and pack it.
Direct   == {"scp", "bzr", "file"}
Checkout == {"git", "svn", "cvs", "hg"}

\* The methods of BR2_PRIMARY_SITE and of FOO_SITE, or "none",
\* BR2_PRIMARY_SITE_ONLY, and whether there is a BR2_BACKUP_SITE.
Setup == [primary : {"none", "wget", "scp"}, only : BOOLEAN,
          method : {"none", "wget"} \union Direct \union Checkout, backup : BOOLEAN]

ASSUME DownloadAssumption ==
  /\ Chunks \in Nat \ {0}
  /\ Setups \subseteq Setup
  /\ \A c \in Setups : c.only => c.primary # "none" /\ ~c.backup
  /\ MaxRuns \in Nat /\ MaxFaults \in Nat

NoInode == 0

\* There is always an inode that nothing uses.
ASSUME InodesAssumption ==
  /\ NoInode \notin Inodes
  /\ \A used \in [Builders -> Inodes \union {NoInode}], i, j \in Inodes \union {NoInode} :
       \E new \in Inodes : new \notin {i, j} /\ \A b \in Builders : used[b] # new

VARIABLES
  setup,    \* setup[b]: the configuration of build b
  content,  \* content[i]: the chunks that inode i holds
  final,    \* the inode that $(DL_DIR)/$($(PKG)_SOURCE) names
  tmp,      \* the inode that the .tmp file names
  clone,    \* the checkout directory, one for all builds and methods
  pc,       \* what each build is doing
  site,     \* the site it is trying
  fd,       \* the inode it is writing to
  pos,      \* the next chunk it writes
  runs,     \* downloads it has started
  refused,  \* history: a site or a command failed in this download
  faults    \* interruptions that may still happen

files == <<content, final, tmp, clone>>
vars  == <<setup, files, pc, site, fd, pos, runs, refused, faults>>

\* A mutant: the backup site only stands in for a missing FOO_SITE.
AttemptsNoBackup(c) ==
  (IF c.primary # "none" THEN <<c.primary>> ELSE <<>>) \o
  (IF c.only \/ c.method = "none" THEN <<>> ELSE <<c.method>>) \o
  (IF c.only \/ ~c.backup \/ c.method # "none" THEN <<>> ELSE <<"wget">>)

\* The sites that DOWNLOAD_INNER goes through, by their methods.
Attempts(c) ==
  (IF c.primary # "none" THEN <<c.primary>> ELSE <<>>) \o
  (IF c.only \/ c.method = "none" THEN <<>> ELSE <<c.method>>) \o
  (IF c.only \/ ~c.backup THEN <<>> ELSE <<"wget">>)

Sites(b) == Attempts(setup[b])

Method(b) == Sites(b)[site[b]]

Complete(i) == content[i] = 1..Chunks

\* An inode that nothing refers to, empty.
Fresh == CHOOSE i \in Inodes : i \notin {final, tmp} /\ \A b \in Builders : fd[b] # i

Go(b, where) == pc' = [pc EXCEPT ![b] = where]

Close(b) == /\ fd' = [fd EXCEPT ![b] = NoInode]
            /\ pos' = [pos EXCEPT ![b] = 1]

\* Build b opens the file named i for writing: created, or else emptied, even
\* under a process that is writing to it.
Open(b, i) == /\ content' = [content EXCEPT ![i] = {}]
              /\ fd' = [fd EXCEPT ![b] = i]
              /\ pos' = [pos EXCEPT ![b] = 1]

-----------------------------------------------------------------------------
(* The chain of sites *)

Idle == {"idle", "ok", "failed"}

Start(b) ==
  /\ pc[b] \in Idle
  /\ runs[b] < MaxRuns
  /\ runs' = [runs EXCEPT ![b] = @ + 1]
  /\ site' = [site EXCEPT ![b] = 1]
  /\ refused' = [refused EXCEPT ![b] = FALSE]
  /\ Go(b, "test")
  /\ UNCHANGED <<setup, files, fd, pos, faults>>

\* A mutant: the archive is downloaded whether it is there or not.
TestExistsAlways(b) ==
  /\ pc[b] = "test"
  /\ site[b] <= Len(Sites(b))
  /\ Go(b, "open")
  /\ UNCHANGED <<setup, files, site, fd, pos, runs, refused, faults>>

\* Every method starts with test -e, and nothing looks at the content.
TestExists(b) ==
  /\ pc[b] = "test"
  /\ site[b] <= Len(Sites(b))
  /\ Go(b, IF final # NoInode THEN "ok" ELSE "open")
  /\ UNCHANGED <<setup, files, site, fd, pos, runs, refused, faults>>

NoMoreSites(b) ==
  /\ pc[b] = "test"
  /\ site[b] > Len(Sites(b))
  /\ Go(b, "failed")
  /\ UNCHANGED <<setup, files, site, fd, pos, runs, refused, faults>>

NextSite(b) == /\ site' = [site EXCEPT ![b] = @ + 1]
               /\ Go(b, "test")
               /\ Close(b)

\* An archive is packed from what the checkout directory holds at that moment;
\* what another build has removed is missing, and tar need not notice.
Write(b) ==
  /\ pc[b] \in {"wget", "direct", "archive"}
  /\ pos[b] <= Chunks
  /\ content' = IF pc[b] = "archive" /\ clone # "whole" THEN content
                ELSE [content EXCEPT ![fd[b]] = @ \union {pos[b]}]
  /\ pos' = [pos EXCEPT ![b] = @ + 1]
  /\ UNCHANGED <<setup, final, tmp, clone, pc, site, fd, runs, refused, faults>>

-----------------------------------------------------------------------------
(* DOWNLOAD_WGET *)

\* A mutant: wget -O with the final name.
WgetOpenFinal(b) ==
  /\ pc[b] = "open" /\ Method(b) = "wget"
  /\ final' = IF final # NoInode THEN final ELSE Fresh
  /\ Open(b, final')
  /\ Go(b, "wget")
  /\ UNCHANGED <<setup, tmp, clone, site, runs, refused, faults>>

WgetOpen(b) ==
  /\ pc[b] = "open" /\ Method(b) = "wget"
  /\ tmp' = IF tmp # NoInode THEN tmp ELSE Fresh
  /\ Open(b, tmp')
  /\ Go(b, "wget")
  /\ UNCHANGED <<setup, final, clone, site, runs, refused, faults>>

\* A mutant: wget ; mv, so that a download that failed is moved as well.
WgetMoveAnyway(b) ==
  /\ pc[b] = "wget"
  /\ IF tmp # NoInode
     THEN /\ final' = tmp /\ tmp' = NoInode
          /\ Go(b, "ok")
     ELSE /\ Go(b, "remove") /\ UNCHANGED <<final, tmp>>
  /\ Close(b)
  /\ UNCHANGED <<setup, content, clone, site, runs, refused, faults>>

\* wget is through; mv gives the temporary file, whoever wrote it, its name.
WgetMove(b) ==
  /\ pc[b] = "wget" /\ pos[b] > Chunks
  /\ IF tmp # NoInode
     THEN /\ final' = tmp /\ tmp' = NoInode
          /\ Go(b, "ok")
     ELSE /\ Go(b, "remove") /\ UNCHANGED <<final, tmp>>
  /\ Close(b)
  /\ UNCHANGED <<setup, content, clone, site, runs, refused, faults>>

WgetRefused(b) ==
  /\ pc[b] = "wget" /\ pos[b] <= Chunks
  /\ refused' = [refused EXCEPT ![b] = TRUE]
  /\ Go(b, "remove")
  /\ UNCHANGED <<setup, files, site, fd, pos, runs, faults>>

\* rm -f of the temporary file, whoever is writing to it.
WgetRemove(b) ==
  /\ pc[b] = "remove"
  /\ tmp' = NoInode
  /\ NextSite(b)
  /\ UNCHANGED <<setup, content, final, clone, runs, refused, faults>>

-----------------------------------------------------------------------------
(* The methods that write the archive under its final name *)

\* DOWNLOAD_SCP, _BZR, _LOCALFILES.
DirectOpen(b) ==
  /\ pc[b] = "open" /\ Method(b) \in Direct
  /\ final' = IF final # NoInode THEN final ELSE Fresh
  /\ Open(b, final')
  /\ Go(b, "direct")
  /\ UNCHANGED <<setup, tmp, clone, site, runs, refused, faults>>

DirectDone(b) ==
  /\ pc[b] = "direct" /\ pos[b] > Chunks
  /\ Go(b, "ok")
  /\ Close(b)
  /\ UNCHANGED <<setup, files, site, runs, refused, faults>>

\* The server cannot be reached, or the transfer fails half way.
DirectRefused(b) ==
  /\ \/ pc[b] = "open" /\ Method(b) \in Direct
     \/ pc[b] = "direct" /\ pos[b] <= Chunks
  /\ refused' = [refused EXCEPT ![b] = TRUE]
  /\ NextSite(b)
  /\ UNCHANGED <<setup, files, runs, faults>>

\* DOWNLOAD_GIT, _HG, _SVN refuse a directory that exists; _CVS updates it.
CheckoutOpen(b) ==
  /\ pc[b] = "open" /\ Method(b) \in Checkout
  /\ IF clone # "absent" /\ Method(b) # "cvs"
     THEN NextSite(b) /\ UNCHANGED clone
     ELSE /\ clone' = IF clone = "absent" THEN "begun" ELSE clone
          /\ Go(b, "checkout")
          /\ UNCHANGED <<site, fd, pos>>
  /\ UNCHANGED <<setup, content, final, tmp, runs, refused, faults>>

\* Everything is checked out, if the directory is still there.
CheckoutDone(b) ==
  /\ pc[b] = "checkout"
  /\ clone # "absent"
  /\ clone' = "whole"
  /\ Go(b, "pack")
  /\ UNCHANGED <<setup, content, final, tmp, site, fd, pos, runs, refused, faults>>

\* git and hg may remove what they had checked out, cvs and svn do not.
CheckoutRefused(b) ==
  /\ pc[b] = "checkout"
  /\ \/ UNCHANGED clone
     \/ Method(b) \in {"git", "hg"} /\ clone' = "absent"
  /\ refused' = [refused EXCEPT ![b] = TRUE]
  /\ NextSite(b)
  /\ UNCHANGED <<setup, content, final, tmp, runs, faults>>

ArchiveOpen(b) ==
  /\ pc[b] = "pack"
  /\ final' = IF final # NoInode THEN final ELSE Fresh
  /\ Open(b, final')
  /\ Go(b, "archive")
  /\ UNCHANGED <<setup, tmp, clone, site, runs, refused, faults>>

\* rm -rf of the directory, whoever else works in it.
ArchiveDone(b) ==
  /\ pc[b] = "archive" /\ pos[b] > Chunks
  /\ clone' = "absent"
  /\ Go(b, "ok")
  /\ Close(b)
  /\ UNCHANGED <<setup, content, final, tmp, site, runs, refused, faults>>

\* tar or hg fails, for instance because files are gone; when git archive
\* fails the pipe into gzip still has the status of gzip (line 91).
ArchiveFails(b) ==
  /\ pc[b] = "archive" /\ pos[b] <= Chunks
  /\ refused' = [refused EXCEPT ![b] = TRUE]
  /\ IF Method(b) = "git"
     THEN clone' = "absent" /\ Go(b, "ok") /\ Close(b) /\ UNCHANGED site
     ELSE NextSite(b) /\ UNCHANGED clone
  /\ UNCHANGED <<setup, content, final, tmp, runs, faults>>

-----------------------------------------------------------------------------
\* The build is interrupted: its processes are gone, the files stay.
Interrupt(b) ==
  /\ pc[b] \notin Idle
  /\ faults > 0
  /\ faults' = faults - 1
  /\ Go(b, "idle")
  /\ Close(b)
  /\ UNCHANGED <<setup, files, site, runs, refused>>

Init ==
  /\ setup \in [Builders -> Setups]
  /\ content = [i \in Inodes |-> {}]
  /\ final = NoInode /\ tmp = NoInode
  /\ clone = "absent"
  /\ pc = [b \in Builders |-> "idle"]
  /\ site = [b \in Builders |-> 1]
  /\ fd = [b \in Builders |-> NoInode]
  /\ pos = [b \in Builders |-> 1]
  /\ runs = [b \in Builders |-> 0]
  /\ refused = [b \in Builders |-> FALSE]
  /\ faults = MaxFaults

Next == \E b \in Builders :
  \/ Start(b) \/ TestExists(b) \/ NoMoreSites(b) \/ Write(b)
  \/ WgetOpen(b) \/ WgetMove(b) \/ WgetRefused(b) \/ WgetRemove(b)
  \/ DirectOpen(b) \/ DirectDone(b) \/ DirectRefused(b)
  \/ CheckoutOpen(b) \/ CheckoutDone(b) \/ CheckoutRefused(b)
  \/ ArchiveOpen(b) \/ ArchiveDone(b) \/ ArchiveFails(b)
  \/ Interrupt(b)

Spec == Init /\ [][Next]_vars

-----------------------------------------------------------------------------
(* Properties *)

\* The types of the variables.
TypeOK ==
  /\ content \in [Inodes -> SUBSET (1..Chunks)]
  /\ final \in Inodes \union {NoInode}
  /\ tmp \in Inodes \union {NoInode}
  /\ clone \in {"absent", "begun", "whole"}
  /\ pc \in [Builders -> Idle \union {"test", "open", "wget", "remove", "direct",
                                      "checkout", "pack", "archive"}]
  /\ setup \in [Builders -> Setups]
  /\ site \in [Builders -> Nat \ {0}]
  /\ \A b \in Builders : site[b] <= Len(Sites(b)) + 1
  /\ fd \in [Builders -> Inodes \union {NoInode}]
  /\ pos \in [Builders -> 1..(Chunks + 1)]
  /\ runs \in [Builders -> 0..MaxRuns]
  /\ refused \in [Builders -> BOOLEAN]
  /\ faults \in 0..MaxFaults

OneBuild == \E b \in Builders : Builders = {b}

WgetOnly == \A b \in Builders : \A i \in 1..Len(Sites(b)) : Sites(b)[i] = "wget"

\* Where wget is the only method and one build uses the directory, whatever
\* has the final name is complete, after any failures and interruptions
\* (lines 195-200).
FinalComplete == OneBuild /\ WgetOnly /\ final # NoInode => Complete(final)

\* What the name of the archive stands for.
Held == CASE final = NoInode                     -> "absent"
          [] final # NoInode /\ Complete(final)  -> "complete"
          [] final # NoInode /\ ~Complete(final) -> "partial"

Succeeded == \E b \in Builders : pc[b] = "ok"

Promise == INSTANCE Archive WITH archive <- Held, told <- Succeeded

\* What wget does with its temporary file amounts to a download that succeeds
\* or fails at once: to a build that is alone, whatever is refused, interrupted
\* and tried again, the archive is absent or complete, it never goes, and when
\* a download is reported as done it is there (lines 195-200, 242-277).
FetchesAtomically ==
  /\ OneBuild /\ WgetOnly => Promise!Init
  /\ [][OneBuild /\ WgetOnly => Promise!Next]_<<Held, Succeeded>>

\* A complete archive stays: no later download of a build that is alone, by
\* whatever method and however it ends, empties it or puts another file in
\* its place (the test -e of every method, for instance line 202).
CompleteStays ==
  [][OneBuild /\ final # NoInode /\ Complete(final) =>
       final' = final /\ content'[final] = content[final]]_vars

\* Where there is a backup site a download only fails when a site failed it:
\* what an interrupted download left behind, such as a checkout that git will
\* not clone over, never makes the next one fail (lines 242-277).
RetryWorks ==
  [][\A b \in Builders :
       OneBuild /\ setup[b].backup /\ pc[b] # "failed" /\ pc'[b] = "failed"
         => refused[b]]_vars

Uses(b, methods) == \E i \in 1..Len(Sites(b)) : Sites(b)[i] \in methods

\* A build that uses cvs is the only one that checks anything out.
OwnCheckout == \A b, c \in Builders : Uses(b, {"cvs"}) /\ Uses(c, Checkout) => b = c

\* Builds that share the directory at the same time may take each other's
\* temporary file, empty it under the writer and remove it, but when all are
\* done, and no site and no command failed or was interrupted in any of them,
\* what they leave is complete, whatever methods they use (lines 82-219).  The
\* exception is cvs: it alone checks out into a directory that is there, and
\* then the rm -rf of one build (line 128) empties what the tar of another
\* (line 127) packs, so that a build that uses cvs must be alone in that.
ParallelSettles ==
  /\ OwnCheckout
  /\ \A b \in Builders : pc[b] \in Idle /\ ~refused[b] /\ runs[b] <= 1
  /\ faults = MaxFaults
  /\ final # NoInode
  => Complete(final)

=============================================================================
