------------------------------ MODULE Bootstrap ------------------------------
(***************************************************************************)
(* bootstrap.py: it assembles a deployment package from the sources and a  *)
(* Python that it downloads and verifies (src/bootstrap.py).  `all` runs   *)
(* the steps in a row; each is a command of its own as well, and any of    *)
(* them may fail and leave what it had done.                               *)
(***************************************************************************)
EXTENDS Integers, FiniteSets

CONSTANT Releases      \* how many releases there will be, one newer than the other
ASSUME BootstrapAssumption == Releases \in Nat \ {0}

VARIABLES
  latest,     \* the release the site calls the latest
  downloads,  \* tarballs in build/downloads: which release, and is it intact
  kept,       \* history: those that the clean of this `all` could not remove
  verified,   \* the release of the latest download whose checksum was right
  assembled,  \* build/assemble: the tarball unpacked last, the sources, the
              \* dependencies, the static files
  built,      \* the package in dist: what it was made of, and by what
  all         \* the next step of `all`; 0 when it does not run

bootVars == <<latest, downloads, kept, verified, assembled, built, all>>

Nothing == [release |-> 0, intact |-> FALSE]
Empty == [python |-> Nothing, sources |-> FALSE, deps |-> FALSE, static |-> FALSE]

NoPackage == [of |-> Empty, by |-> "none", verified |-> 0, kept |-> {}]

BootstrapInit ==
  /\ latest = 1
  /\ downloads = {} /\ kept = {} /\ verified = 0
  /\ assembled = Empty
  /\ built = NoPackage
  /\ all = 0

Steps == 1..7
\* A step that ends well: the next one, if this is `all`, which is over after
\* the last; a step that fails ends `all`.
Over == all' = 0 /\ kept' = {}
Done(i) ==
  \/ all = 0 /\ Over
  \/ all = i /\ (IF i = 7 THEN Over ELSE all' = i + 1 /\ UNCHANGED kept)
Fail(i) == all \in {0, i} /\ Over

RunAll == all = 0 /\ all' = 1 /\ UNCHANGED <<latest, downloads, kept, verified, assembled, built>>

\* What may be left of a tree that shutil.rmtree was told to ignore errors on.
Remains(x) ==
  [python : {Nothing, x.python}, sources : {FALSE, x.sources}, deps : {FALSE, x.deps},
   static : {FALSE, x.static}]

\* build and dist go, but what cannot be removed stays, and nobody is told;
\* only a log file that cannot be removed ends the command.
Clean ==
  /\ downloads' \in SUBSET downloads
  /\ \/ all = 1 /\ all' = 2 /\ kept' = downloads'
     \/ Fail(1)
  /\ assembled' \in Remains(assembled)
  /\ built' \in {NoPackage, built}
  /\ UNCHANGED <<latest, verified>>

\* stage_for_package copies over what is there.
Stage ==
  \/ /\ Done(2)
     /\ assembled' = [assembled EXCEPT !.sources = TRUE]
     /\ UNCHANGED <<latest, downloads, verified, built>>
  \/ Fail(2) /\ UNCHANGED <<latest, downloads, verified, assembled, built>>

\* Slip: a wrong checksum is reported and no more.
Download_GoesOn ==
  /\ Done(3)
  /\ \E ok \in BOOLEAN :
       downloads' = {t \in downloads : t.release # latest} \cup {[release |-> latest, intact |-> ok]}
  /\ verified' = latest
  /\ UNCHANGED <<latest, assembled, built>>

\* download_python: a tarball of the same name is overwritten; one with the
\* wrong checksum stays where it is.
Download ==
  LET got(ok) == {t \in downloads : t.release # latest} \cup {[release |-> latest, intact |-> ok]}
  IN \/ Done(3) /\ downloads' = got(TRUE) /\ verified' = latest
        /\ UNCHANGED <<latest, assembled, built>>
     \/ Fail(3) /\ downloads' \in {downloads, got(FALSE)}
        /\ UNCHANGED <<latest, verified, assembled, built>>

\* extract_python: the first tarball the directory lists, whichever that is.
\* One that is not intact may still unpack.
Extract ==
  \/ /\ Done(4)
     /\ \E t \in downloads : assembled' = [assembled EXCEPT !.python = t]
     /\ UNCHANGED <<latest, downloads, verified, built>>
  \/ Fail(4) /\ UNCHANGED <<latest, downloads, verified, assembled, built>>

\* run_pip_install uses the Python that was unpacked.
PipInstall ==
  \/ /\ Done(5) /\ assembled.python # Nothing
     /\ assembled' = [assembled EXCEPT !.deps = TRUE]
     /\ UNCHANGED <<latest, downloads, verified, built>>
  \/ Fail(5) /\ UNCHANGED <<latest, downloads, verified, assembled, built>>

\* collectstatic runs the staged manage.py with it.
CollectStatic ==
  \/ /\ Done(6) /\ assembled.python # Nothing /\ assembled.deps /\ assembled.sources
     /\ assembled' = [assembled EXCEPT !.static = TRUE]
     /\ UNCHANGED <<latest, downloads, verified, built>>
  \/ Fail(6) /\ UNCHANGED <<latest, downloads, verified, assembled, built>>

\* package zips whatever has been assembled, over the package before; what one
\* made by hand holds is not followed.
MakePackage ==
  /\ \/ /\ Done(7)
        /\ built' = IF all = 7
                    THEN [of |-> assembled, by |-> "all", verified |-> verified, kept |-> kept]
                    ELSE [NoPackage EXCEPT !.by = "package"]
     \/ Fail(7) /\ built' \in {NoPackage, built}
  /\ UNCHANGED <<latest, downloads, verified, assembled>>

Release == latest < Releases /\ latest' = latest + 1
           /\ UNCHANGED <<downloads, kept, verified, assembled, built, all>>

BootstrapNext ==
  RunAll \/ Clean \/ Stage \/ Download \/ Extract \/ PipInstall \/ CollectStatic \/ MakePackage
  \/ Release

BootstrapSpec == BootstrapInit /\ [][BootstrapNext]_bootVars

-----------------------------------------------------------------------------

\* The tarball with the right checksum, or one that remained from before.
VerifiedOrKept(python, of, remained) ==
  \/ python = [release |-> of, intact |-> TRUE]
  \/ python \in remained /\ python.release # of

\* A package that `all` made is complete.  Its Python is the one whose checksum
\* this run had just verified, whatever earlier runs, failed downloads or single
\* commands had left behind; the one exception is a tarball of another release
\* that its own clean could not remove, which nothing checks again.
AllPackagesVerified ==
  built.by = "all" =>
    /\ built.of.sources /\ built.of.deps /\ built.of.static
    /\ VerifiedOrKept(built.of.python, built.verified, built.kept)
=============================================================================
