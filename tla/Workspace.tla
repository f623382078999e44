----------------------------- MODULE Workspace -----------------------------
(***************************************************************************)
(* Builder.build_project and Builder.buildKernelApp_project of             *)
(* TestFramework/src/api/utils.py: the framework builds the firmware of a  *)
(* test in the user's own SDK tree, after backing up the files it is about *)
(* to overwrite, and puts them back when the build is over.  Every command *)
(* can fail.  The framework judges by what it finds on stderr, never by    *)
(* the exit status: a failure it sees ends the build with an exception     *)
(* that no one cleans up after, as does an interruption; one it does not   *)
(* see is logged as success, and the build goes on.  The tree outlives the *)
(* build: the next test builds in what the last one left.                  *)
(*                                                                         *)
(* build_project is the case without a kernel configuration.  What make    *)
(* and tools/config.py of the SDK do is external.                          *)
(***************************************************************************)
EXTENDS Naturals

CONSTANTS
    MaxBuilds,     \* bound: builds in the tree
    MaxFailures    \* bound: commands that fail and steps that are interrupted

ASSUME WorkspaceAssumption == MaxBuilds \in Nat /\ MaxFailures \in Nat

Files == {"spk",         \* sdk/nuttx.spk
          "config",      \* sdk/.config
          "defconfig",   \* sdk/configs/<name of the test's defconfig>
          "nuttx"}       \* nuttx/.config

(* What a file holds: the user's data, the test's, a part of the test's, or
   what make wrote. *)
Contents == {"absent", "user", "test", "part", "made"}

Jobs == [nuttxconfig: BOOLEAN, defconfig: BOOLEAN]

Steps == {"idle", "backup_spk", "backup_config", "clean", "kernel_backup",
          "kernel_copy", "kernel_build", "def_backup", "def_copy",
          "configure", "make", "rename", "clean_again", "restore_spk",
          "restore_config", "restore_nuttx", "rebuild", "restore_def",
          "olddefconfig"}

VARIABLES
    pc,         \* the step of the build, "idle" between two builds
    job,        \* which configurations the test supplies
    files,      \* the tree
    backup,     \* ... and the copies beside it (prefix autotest.)
    restore,    \* the files whose flag restore_... is set
    cwd,        \* the working directory of the framework
    kernel,     \* the kernel in the tree: the user's, this test's, that of
                \* an older test, release
    image,      \* what the image handed to the test was made from
    outcome,    \* of the last build
    builds, failures,
    amiss,      \* history: what went wrong in this build: "raised", or the
                \* step whose failure was not seen
    before,     \* history: ... and in the builds before it
    had         \* history: the tree as the user left it

tree == <<files, backup, cwd, kernel>>
buildVars == <<job, builds, before, had>>
vars == <<pc, buildVars, tree, restore, image, outcome, failures, amiss>>

NoImage == [config |-> "none", kernel |-> "none"]

Kernels == {"user", "test", "older", "release"}

Mishaps == {"raised", "configure", "kernel_build", "rebuild"}

TypeOK ==
    /\ pc \in Steps /\ job \in Jobs
    /\ files \in [Files -> Contents]
    /\ backup \in [Files -> Contents]
    /\ restore \subseteq {"defconfig", "nuttx"}
    /\ cwd \in {"home", "sdk"}
    /\ kernel \in Kernels
    /\ image \in [config: Contents, kernel: Kernels] \cup {NoImage}
    /\ outcome \in {"none", "running", "ok", "failed"}
    /\ outcome = "running" <=> pc # "idle"
    /\ builds \in 0..MaxBuilds /\ failures \in 0..MaxFailures
    /\ amiss \subseteq Mishaps /\ before \subseteq Mishaps
    /\ had \in [Files -> {"absent", "user"}]

Init ==
    /\ pc = "idle" /\ job = [nuttxconfig |-> FALSE, defconfig |-> FALSE]
    /\ files \in [Files -> {"absent", "user"}]
    /\ backup = [f \in Files |-> "absent"]
    /\ restore = {} /\ cwd = "home" /\ kernel = "user"
    /\ image = NoImage /\ outcome = "none"
    /\ builds = 0 /\ failures = 0 /\ amiss = {} /\ before = {}
    /\ had = files

(***************************************************************************)
(* The parts of a step.                                                    *)
(***************************************************************************)
Fails == failures < MaxFailures /\ failures' = failures + 1

(* An exception leaves the build where it is. *)
Raises == /\ Fails /\ pc' = "idle" /\ outcome' = "failed"
          /\ amiss' = amiss \cup {"raised"}

(* The command fails, and the step is logged as a success. *)
Unseen(q) == /\ Fails /\ pc' = q /\ amiss' = amiss \cup {pc}
             /\ UNCHANGED outcome

Goes(q) == pc' = q /\ UNCHANGED <<outcome, failures, amiss>>

(* backup_file: an old copy is replaced, but only if the file exists.      *)
(* Mutant: a file whose name begins with a dot is not copied.              *)
MutantBackupFile(f) ==
    backup' = IF files[f] # "absent" /\ f \notin {"config", "nuttx"}
              THEN [backup EXCEPT ![f] = files[f]] ELSE backup
BackupFile(f) ==
    backup' = IF files[f] # "absent"
              THEN [backup EXCEPT ![f] = files[f]] ELSE backup

(* restore_file moves the copy.  Mutant: it copies it, so that the next    *)
(* build finds an old one.                                                 *)
MutantRestoreFile(f) ==
    /\ files' = IF backup[f] # "absent"
                THEN [files EXCEPT ![f] = backup[f]] ELSE files
    /\ UNCHANGED backup
RestoreFile(f) ==
    IF backup[f] # "absent"
    THEN /\ files' = [files EXCEPT ![f] = backup[f]]
         /\ backup' = [backup EXCEPT ![f] = "absent"]
    ELSE UNCHANGED <<files, backup>>

(* What make distclean removes, and what the configuration writes: it may
   write a part, or nothing, before it fails. *)
Without(gone) == [f \in Files |-> IF f \in gone THEN "absent" ELSE files[f]]
Configured == [files EXCEPT !["config"] = "test"]
Unfinished == {files, [files EXCEPT !["config"] = "part"]}

AfterKernel == IF job.defconfig THEN "def_backup" ELSE "configure"
(* A kernel is built when the test supplies a configuration for it.        *)
(* Mutant: the configuration is not handed on.                             *)
MutantAfterClean == AfterKernel
AfterClean == IF job.nuttxconfig THEN "kernel_backup" ELSE AfterKernel

(***************************************************************************)
(* The steps, in their order.                                              *)
(***************************************************************************)
Begin ==
    /\ pc = "idle" /\ builds < MaxBuilds
    /\ builds' = builds + 1
    /\ job' \in Jobs
    /\ restore' = {} /\ image' = NoImage /\ outcome' = "running"
    /\ kernel' = IF kernel = "test" THEN "older" ELSE kernel
    /\ amiss' = {} /\ before' = before \cup amiss
    /\ pc' = "backup_spk"
    /\ UNCHANGED <<files, backup, cwd, failures, had>>

BackUp(p, f, q) ==
    /\ pc = p /\ BackupFile(f) /\ Goes(q)
    /\ UNCHANGED <<buildVars, files, cwd, kernel, restore, image>>

BackupSpk == BackUp("backup_spk", "spk", "backup_config")
BackupConfig == BackUp("backup_config", "config", "clean")

(* execute_make_cmd takes anything make writes to stderr for a failure,    *)
(* whether or not make has done its work; a make that fails says so there. *)
Distclean(p, q) ==
    /\ pc = p
    /\ \/ files' = Without({"spk", "config"}) /\ Goes(q)
       \/ (\E gone \in SUBSET {"spk", "config"} : files' = Without(gone)) /\ Raises
    /\ UNCHANGED <<buildVars, backup, cwd, kernel, restore, image>>

Clean == Distclean("clean", AfterClean)

(* A kernel configuration is used only where there already is one. *)
KernelSkipped ==
    /\ pc = "kernel_backup" /\ files["nuttx"] = "absent" /\ Goes(AfterKernel)
    /\ UNCHANGED <<buildVars, tree, restore, image>>

KernelBackup ==
    /\ pc = "kernel_backup" /\ files["nuttx"] # "absent"
    /\ BackupFile("nuttx") /\ Goes("kernel_copy")
    /\ restore' = restore \cup {"nuttx"}
    /\ UNCHANGED <<buildVars, files, cwd, kernel, image>>

Copy(p, f, q) ==
    /\ pc = p /\ files' = [files EXCEPT ![f] = "test"] /\ Goes(q)
    /\ UNCHANGED <<buildVars, backup, cwd, kernel, restore, image>>

KernelCopy == Copy("kernel_copy", "nuttx", "kernel_build")

(* A failure is a line on stderr with the word `error' in small letters.   *)
(* One of a compiler ends the build whether or not there is a kernel; what *)
(* make itself says of a failure (`*** [..] Error 2') is not seen, and the *)
(* kernel is what it was.                                                  *)
KernelBuild ==
    /\ pc = "kernel_build"
    /\ \/ kernel' = "test" /\ Goes(AfterKernel)
       \/ kernel' \in {kernel, "test"} /\ Raises
       \/ UNCHANGED kernel /\ Unseen(AfterKernel)
    /\ UNCHANGED <<buildVars, files, backup, cwd, restore, image>>

(* The flag restore_defconfig. *)
Flagged(f) == IF files[f] # "absent" THEN restore \cup {f} ELSE restore

DefconfigBackup ==
    /\ pc = "def_backup"
    /\ restore' = Flagged("defconfig")
    /\ BackupFile("defconfig") /\ Goes("def_copy")
    /\ UNCHANGED <<buildVars, files, cwd, kernel, image>>

DefconfigCopy == Copy("def_copy", "defconfig", "configure")

(* configure_project changes into the tree, and changes back unless        *)
(* tools/config.py has written to stderr.  One that fails without a word   *)
(* there goes on with what configuration there is.                         *)
Configure ==
    /\ pc = "configure"
    /\ \/ files' = Configured /\ Goes("make") /\ UNCHANGED cwd
       \/ /\ files' \in Unfinished \cup {Configured} /\ Raises
          /\ cwd' = "sdk"
       \/ files' \in Unfinished /\ Unseen("make") /\ UNCHANGED cwd
    /\ UNCHANGED <<buildVars, backup, kernel, restore, image>>

(* make has named the image, has not (a failure without the word Error, as
   `No rule to make target', is one of these), or has failed. *)
Make ==
    /\ pc = "make"
    /\ \/ files' = [files EXCEPT !["spk"] = "made"] /\ Goes("rename")
       \/ /\ files' \in {files, [files EXCEPT !["spk"] = "made"]}
          /\ Goes("clean_again") \/ Raises
    /\ UNCHANGED <<buildVars, backup, cwd, kernel, restore, image>>

(* The image gets the device's name, which hides it from distclean. *)
Rename ==
    /\ pc = "rename" /\ files' = [files EXCEPT !["spk"] = "absent"]
    /\ image' = [config |-> files["config"], kernel |-> kernel]
    /\ Goes("clean_again")
    /\ UNCHANGED <<buildVars, backup, cwd, kernel, restore>>

CleanAgain == Distclean("clean_again", "restore_spk")

Restore(p, f, q) ==
    /\ pc = p /\ RestoreFile(f) /\ Goes(q)
    /\ UNCHANGED <<buildVars, cwd, kernel, restore, image>>

AfterRestoring == IF job.defconfig THEN "restore_def" ELSE "olddefconfig"

RestoreSpk == Restore("restore_spk", "spk", "restore_config")
RestoreConfig ==
    Restore("restore_config", "config",
            IF job.nuttxconfig /\ "nuttx" \in restore
            THEN "restore_nuttx" ELSE AfterRestoring)
RestoreNuttx == Restore("restore_nuttx", "nuttx", "rebuild")

(* Nobody looks at what came of building the release kernel. *)
Rebuild ==
    /\ pc = "rebuild"
    /\ \/ kernel' = "release" /\ Goes(AfterRestoring)
       \/ UNCHANGED kernel /\ Unseen(AfterRestoring)
    /\ UNCHANGED <<buildVars, files, backup, cwd, restore, image>>

RestoreDefconfig ==
    /\ "defconfig" \in restore
    /\ Restore("restore_def", "defconfig", "olddefconfig")

RemoveDefconfig ==
    /\ pc = "restore_def" /\ "defconfig" \notin restore
    /\ files' = [files EXCEPT !["defconfig"] = "absent"]
    /\ Goes("olddefconfig")
    /\ UNCHANGED <<buildVars, backup, cwd, kernel, restore, image>>

(* make olddefconfig completes the configuration, or makes one. *)
Olddefconfig ==
    /\ pc = "olddefconfig"
    /\ files' = IF files["config"] = "absent"
                THEN [files EXCEPT !["config"] = "made"] ELSE files
    /\ \/ pc' = "idle" /\ outcome' = "ok" /\ UNCHANGED <<failures, amiss>>
       \/ Raises
    /\ UNCHANGED <<buildVars, backup, cwd, kernel, restore, image>>

(* A step ends in an OSError, or in a KeyboardInterrupt, before it has had *)
(* an effect.                                                              *)
Interrupted ==
    /\ pc # "idle" /\ Raises
    /\ UNCHANGED <<buildVars, tree, restore, image>>

Done == pc = "idle" /\ builds = MaxBuilds /\ UNCHANGED vars

Next ==
    \/ Begin \/ BackupSpk \/ BackupConfig \/ Clean
    \/ KernelSkipped \/ KernelBackup \/ KernelCopy \/ KernelBuild
    \/ DefconfigBackup \/ DefconfigCopy \/ Configure \/ Make \/ Rename
    \/ CleanAgain \/ RestoreSpk \/ RestoreConfig \/ RestoreNuttx \/ Rebuild
    \/ RestoreDefconfig \/ RemoveDefconfig \/ Olddefconfig
    \/ Interrupted \/ Done

Spec == Init /\ [][Next]_vars

(***************************************************************************)
(* Properties.                                                             *)
(***************************************************************************)
(* Every file of the user's that a build overwrites still exists, in its   *)
(* place or as the copy beside it (backup_file before make distclean,      *)
(* configure_project and copyfile).                                        *)
NoneLost ==
    \A f \in Files : had[f] = "user" => "user" \in {files[f], backup[f]}

(* Whatever step a build is interrupted at, and whatever fails in it       *)
(* unseen, none of the user's files is lost, provided that no earlier      *)
(* build in the tree ended in an exception.                                *)
UserFilesSafe == "raised" \notin before => NoneLost

(* When a build succeeds, and none before it ended in an exception, the    *)
(* tree is the user's again, whatever failed in it unseen: every file it   *)
(* had, no file it had not, no copies, the working directory unchanged     *)
(* (restore_file and the removal of the defconfig).  A configuration is    *)
(* made where there was none.  The kernel is the exception: it is still    *)
(* the test's only if building the release kernel failed unseen (line 569) *)
(* and an older test's only if that failed in an earlier build.            *)
RestoredOnSuccess ==
    outcome = "ok" /\ "raised" \notin before =>
        /\ \A f \in Files : \/ files[f] = had[f]
                            \/ f = "config" /\ had[f] = "absent"
        /\ \A f \in Files : backup[f] = "absent"
        /\ cwd = "home"
        /\ kernel = "test" => "rebuild" \in amiss
        /\ kernel = "older" => "rebuild" \in before

(* The test supplies a configuration of the kernel, and it is used: there  *)
(* is one to replace.                                                      *)
OwnKernelUsed == job.nuttxconfig /\ had["nuttx"] = "user"

(* In every build, whatever has failed: an image is made from the test's   *)
(* whole configuration, unless tools/config.py failed unseen, and on the   *)
(* test's kernel exactly when this test supplies one that is used, unless  *)
(* make buildkernel failed unseen.  It runs on the kernel of an earlier    *)
(* test only after a build that did not put the release kernel back: the   *)
(* rebuilding failed unseen, or the build ended in an exception.           *)
ImageIsTheTests ==
    image # NoImage =>
        /\ image.config = "test" \/ "configure" \in amiss
        /\ OwnKernelUsed => image.kernel = "test" \/ "kernel_build" \in amiss
        /\ image.kernel = "test" => OwnKernelUsed
        /\ image.kernel = "older" => before \cap {"rebuild", "raised"} # {}
=============================================================================
