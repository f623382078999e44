-------------------------- MODULE WorkspaceProofs --------------------------
(***************************************************************************)
(* Proofs about Workspace, for any number of builds and failures.  A build *)
(* loses no file of the user's, wherever it is interrupted, unless an      *)
(* earlier one ended in an exception; one that succeeds restores the tree; *)
(* and the image is made from what its test supplies.                      *)
(***************************************************************************)
EXTENDS Workspace, TLAPS

(***************************************************************************)
(* The type invariant.                                                     *)
(***************************************************************************)
(* The tree the user hands over is well typed. *)
LEMMA InitType == Init => TypeOK
  BY WorkspaceAssumption
  DEF Init, TypeOK, Steps, Jobs, Files, Contents, Kernels, NoImage, Mishaps

(* However a step ends, the control state is well typed after it. *)
ControlOK ==
    /\ pc \in Steps /\ outcome \in {"none", "running", "ok", "failed"}
    /\ outcome = "running" <=> pc # "idle"
    /\ failures \in 0..MaxFailures /\ amiss \subseteq Mishaps

LEMMA GoesType ==
    ASSUME TypeOK, pc # "idle", NEW q \in Steps \ {"idle"}, Goes(q)
    PROVE  ControlOK'
  BY DEF TypeOK, ControlOK, Goes

LEMMA FailsType ==
    ASSUME TypeOK, Fails
    PROVE  failures' \in 0..MaxFailures
  BY WorkspaceAssumption DEF TypeOK, Fails

LEMMA RaisesType ==
    ASSUME TypeOK, Raises
    PROVE  ControlOK'
<1>1. failures' \in 0..MaxFailures
  BY FailsType DEF Raises
<1>2. pc' = "idle" /\ outcome' = "failed" /\ amiss' \subseteq Mishaps
  BY DEF Raises, TypeOK, Mishaps
<1> QED
  BY <1>1, <1>2 DEF ControlOK, Steps

LEMMA UnseenType ==
    ASSUME TypeOK, pc \in {"configure", "kernel_build", "rebuild"},
           NEW q \in Steps \ {"idle"}, Unseen(q)
    PROVE  ControlOK'
<1>1. failures' \in 0..MaxFailures
  BY FailsType DEF Unseen
<1>2. pc' = q /\ outcome' = outcome /\ amiss' \subseteq Mishaps
  BY DEF Unseen, TypeOK, Mishaps
<1>3. outcome' = "running"
  BY <1>2 DEF TypeOK
<1> QED
  BY <1>1, <1>2, <1>3 DEF ControlOK

(* The rest of the state. *)
TreeOK ==
    /\ files \in [Files -> Contents]
    /\ backup \in [Files -> Contents]
    /\ restore \subseteq {"defconfig", "nuttx"}
    /\ cwd \in {"home", "sdk"} /\ kernel \in Kernels
    /\ image \in [config: Contents, kernel: Kernels] \cup {NoImage}

BuildOK ==
    /\ job \in Jobs /\ builds \in 0..MaxBuilds
    /\ before \subseteq Mishaps /\ had \in [Files -> {"absent", "user"}]

LEMMA Parts == TypeOK <=> ControlOK /\ TreeOK /\ BuildOK
  BY DEF TypeOK, ControlOK, TreeOK, BuildOK

(* Every step of a build keeps the types. *)
LEMMA NextType == TypeOK /\ [Next]_vars => TypeOK'
<1> SUFFICES ASSUME TypeOK, [Next]_vars PROVE TypeOK'
  OBVIOUS
<1>a. ControlOK /\ TreeOK /\ BuildOK
  BY Parts
<1>b. ASSUME ControlOK', TreeOK', UNCHANGED buildVars PROVE TypeOK'
  <2>1. BuildOK'
    BY <1>a, <1>b DEF BuildOK, buildVars
  <2> QED
    BY <1>b, <2>1 DEF TypeOK, ControlOK, TreeOK, BuildOK
<1>c. ASSUME NEW q \in Steps \ {"idle"}, pc # "idle", Goes(q) PROVE ControlOK'
  BY <1>c, GoesType
<1>d. ASSUME Raises PROVE ControlOK'
  BY <1>d, RaisesType
<1>e. ASSUME pc \in {"configure", "kernel_build", "rebuild"},
             NEW q \in Steps \ {"idle"}, Unseen(q)
      PROVE  ControlOK'
  BY <1>e, UnseenType
<1>f. AfterKernel \in Steps \ {"idle"} /\ AfterClean \in Steps \ {"idle"}
      /\ AfterRestoring \in Steps \ {"idle"}
  BY DEF AfterKernel, AfterClean, AfterRestoring, Steps
<1>g. ASSUME NEW f \in Files, RestoreFile(f)
      PROVE  files' \in [Files -> Contents] /\ backup' \in [Files -> Contents]
  BY <1>a, <1>g DEF RestoreFile, TreeOK, Files, Contents
<1>h. ASSUME NEW f \in Files, BackupFile(f)
      PROVE  backup' \in [Files -> Contents]
  BY <1>a, <1>h DEF BackupFile, TreeOK, Files, Contents
<1>1. CASE Begin
  <2>1. builds' \in 0..MaxBuilds
    BY <1>1, <1>a, WorkspaceAssumption DEF Begin, BuildOK
  <2>2. BuildOK'
    BY <1>1, <1>a, <2>1 DEF Begin, BuildOK, ControlOK
  <2>3. ControlOK'
    BY <1>1, <1>a DEF Begin, ControlOK, Steps
  <2>4. TreeOK'
    BY <1>1, <1>a DEF Begin, TreeOK, Kernels
  <2> QED
    BY <2>2, <2>3, <2>4 DEF TypeOK, ControlOK, TreeOK, BuildOK
<1>2. CASE BackupSpk
  <2>1. pc # "idle" /\ (Goes("backup_config"))
    BY <1>2 DEF BackupSpk, BackUp
  <2>2. ControlOK'
    BY <2>1, <1>c DEF Steps
  <2>3. TreeOK'
    BY <1>2, <1>a, <1>h DEF BackupSpk, BackUp, TreeOK, Files, Contents, Kernels
  <2> QED
    BY <1>2, <1>b, <2>2, <2>3 DEF BackupSpk, BackUp
<1>3. CASE BackupConfig
  <2>1. pc # "idle" /\ (Goes("clean"))
    BY <1>3 DEF BackupConfig, BackUp
  <2>2. ControlOK'
    BY <2>1, <1>c DEF Steps
  <2>3. TreeOK'
    BY <1>3, <1>a, <1>h DEF BackupConfig, BackUp, TreeOK, Files, Contents, Kernels
  <2> QED
    BY <1>3, <1>b, <2>2, <2>3 DEF BackupConfig, BackUp
<1>4. CASE Clean
  <2>1. pc # "idle" /\ (Goes(AfterClean) \/ Raises)
    BY <1>4 DEF Clean, Distclean
  <2>2. ControlOK'
    BY <2>1, <1>c, <1>d, <1>f DEF Steps
  <2>3. TreeOK'
    BY <1>4, <1>a DEF Clean, Distclean, Without, TreeOK, Files, Contents, Kernels
  <2> QED
    BY <1>4, <1>b, <2>2, <2>3 DEF Clean, Distclean
<1>5. CASE CleanAgain
  <2>1. pc # "idle" /\ (Goes("restore_spk") \/ Raises)
    BY <1>5 DEF CleanAgain, Distclean
  <2>2. ControlOK'
    BY <2>1, <1>c, <1>d DEF Steps
  <2>3. TreeOK'
    BY <1>5, <1>a DEF CleanAgain, Distclean, Without, TreeOK, Files, Contents, Kernels
  <2> QED
    BY <1>5, <1>b, <2>2, <2>3 DEF CleanAgain, Distclean
<1>6. CASE KernelSkipped
  <2>1. pc # "idle" /\ (Goes(AfterKernel))
    BY <1>6 DEF KernelSkipped
  <2>2. ControlOK'
    BY <2>1, <1>c, <1>f DEF Steps
  <2>3. TreeOK'
    BY <1>6, <1>a DEF KernelSkipped, tree, TreeOK, Files, Contents, Kernels
  <2> QED
    BY <1>6, <1>b, <2>2, <2>3 DEF KernelSkipped
<1>7. CASE KernelBackup
  <2>1. pc # "idle" /\ (Goes("kernel_copy"))
    BY <1>7 DEF KernelBackup
  <2>2. ControlOK'
    BY <2>1, <1>c DEF Steps
  <2>3. TreeOK'
    BY <1>7, <1>a, <1>h DEF KernelBackup, TreeOK, Files, Contents, Kernels
  <2> QED
    BY <1>7, <1>b, <2>2, <2>3 DEF KernelBackup
<1>8. CASE KernelCopy
  <2>1. pc # "idle" /\ (Goes("kernel_build"))
    BY <1>8 DEF KernelCopy, Copy
  <2>2. ControlOK'
    BY <2>1, <1>c DEF Steps
  <2>3. TreeOK'
    BY <1>8, <1>a DEF KernelCopy, Copy, TreeOK, Files, Contents, Kernels
  <2> QED
    BY <1>8, <1>b, <2>2, <2>3 DEF KernelCopy, Copy
<1>9. CASE DefconfigCopy
  <2>1. pc # "idle" /\ (Goes("configure"))
    BY <1>9 DEF DefconfigCopy, Copy
  <2>2. ControlOK'
    BY <2>1, <1>c DEF Steps
  <2>3. TreeOK'
    BY <1>9, <1>a DEF DefconfigCopy, Copy, TreeOK, Files, Contents, Kernels
  <2> QED
    BY <1>9, <1>b, <2>2, <2>3 DEF DefconfigCopy, Copy
<1>10. CASE KernelBuild
  <2>1. pc \in {"configure", "kernel_build", "rebuild"} /\ (Goes(AfterKernel) \/ Raises \/ Unseen(AfterKernel))
    BY <1>10 DEF KernelBuild
  <2>2. ControlOK'
    BY <2>1, <1>c, <1>d, <1>e, <1>f DEF Steps
  <2>3. TreeOK'
    BY <1>10, <1>a DEF KernelBuild, TreeOK, Files, Contents, Kernels
  <2> QED
    BY <1>10, <1>b, <2>2, <2>3 DEF KernelBuild
<1>11. CASE DefconfigBackup
  <2>1. pc # "idle" /\ (Goes("def_copy"))
    BY <1>11 DEF DefconfigBackup
  <2>2. ControlOK'
    BY <2>1, <1>c DEF Steps
  <2>3. TreeOK'
    BY <1>11, <1>a, <1>h DEF DefconfigBackup, Flagged, TreeOK, Files, Contents, Kernels
  <2> QED
    BY <1>11, <1>b, <2>2, <2>3 DEF DefconfigBackup
<1>12. CASE Configure
  <2>1. pc \in {"configure", "kernel_build", "rebuild"} /\ (Goes("make") \/ Raises \/ Unseen("make"))
    BY <1>12 DEF Configure
  <2>2. ControlOK'
    BY <2>1, <1>c, <1>d, <1>e DEF Steps
  <2>3. TreeOK'
    BY <1>12, <1>a DEF Configure, Configured, Unfinished, TreeOK, Files, Contents, Kernels
  <2> QED
    BY <1>12, <1>b, <2>2, <2>3 DEF Configure
<1>13. CASE Make
  <2>1. pc # "idle" /\ (Goes("rename") \/ Goes("clean_again") \/ Raises)
    BY <1>13 DEF Make
  <2>2. ControlOK'
    BY <2>1, <1>c, <1>d DEF Steps
  <2>3. TreeOK'
    BY <1>13, <1>a DEF Make, TreeOK, Files, Contents, Kernels
  <2> QED
    BY <1>13, <1>b, <2>2, <2>3 DEF Make
<1>14. CASE Rename
  <2>1. pc # "idle" /\ (Goes("clean_again"))
    BY <1>14 DEF Rename
  <2>2. ControlOK'
    BY <2>1, <1>c DEF Steps
  <2>3. TreeOK'
    BY <1>14, <1>a DEF Rename, TreeOK, Files, Contents, Kernels
  <2> QED
    BY <1>14, <1>b, <2>2, <2>3 DEF Rename
<1>15. CASE RestoreSpk
  <2>1. pc # "idle" /\ (Goes("restore_config"))
    BY <1>15 DEF RestoreSpk, Restore
  <2>2. ControlOK'
    BY <2>1, <1>c DEF Steps
  <2>3. TreeOK'
    BY <1>15, <1>a, <1>g DEF RestoreSpk, Restore, TreeOK, Files, Contents, Kernels
  <2> QED
    BY <1>15, <1>b, <2>2, <2>3 DEF RestoreSpk, Restore
<1>16. CASE RestoreConfig
  <2>1. pc # "idle" /\ (Goes("restore_nuttx") \/ Goes(AfterRestoring))
    BY <1>16 DEF RestoreConfig, Restore
  <2>2. ControlOK'
    BY <2>1, <1>c, <1>f DEF Steps
  <2>3. TreeOK'
    BY <1>16, <1>a, <1>g DEF RestoreConfig, Restore, TreeOK, Files, Contents, Kernels
  <2> QED
    BY <1>16, <1>b, <2>2, <2>3 DEF RestoreConfig, Restore
<1>17. CASE RestoreNuttx
  <2>1. pc # "idle" /\ (Goes("rebuild"))
    BY <1>17 DEF RestoreNuttx, Restore
  <2>2. ControlOK'
    BY <2>1, <1>c DEF Steps
  <2>3. TreeOK'
    BY <1>17, <1>a, <1>g DEF RestoreNuttx, Restore, TreeOK, Files, Contents, Kernels
  <2> QED
    BY <1>17, <1>b, <2>2, <2>3 DEF RestoreNuttx, Restore
<1>18. CASE RestoreDefconfig
  <2>1. pc # "idle" /\ (Goes("olddefconfig"))
    BY <1>18 DEF RestoreDefconfig, Restore
  <2>2. ControlOK'
    BY <2>1, <1>c DEF Steps
  <2>3. TreeOK'
    BY <1>18, <1>a, <1>g DEF RestoreDefconfig, Restore, TreeOK, Files, Contents, Kernels
  <2> QED
    BY <1>18, <1>b, <2>2, <2>3 DEF RestoreDefconfig, Restore
<1>19. CASE Rebuild
  <2>1. pc \in {"configure", "kernel_build", "rebuild"} /\ (Goes(AfterRestoring) \/ Unseen(AfterRestoring))
    BY <1>19 DEF Rebuild
  <2>2. ControlOK'
    BY <2>1, <1>c, <1>e, <1>f DEF Steps
  <2>3. TreeOK'
    BY <1>19, <1>a DEF Rebuild, TreeOK, Files, Contents, Kernels
  <2> QED
    BY <1>19, <1>b, <2>2, <2>3 DEF Rebuild
<1>20. CASE RemoveDefconfig
  <2>1. pc # "idle" /\ (Goes("olddefconfig"))
    BY <1>20 DEF RemoveDefconfig
  <2>2. ControlOK'
    BY <2>1, <1>c DEF Steps
  <2>3. TreeOK'
    BY <1>20, <1>a DEF RemoveDefconfig, TreeOK, Files, Contents, Kernels
  <2> QED
    BY <1>20, <1>b, <2>2, <2>3 DEF RemoveDefconfig
<1>21. CASE Olddefconfig
  <2>1. ControlOK'
    BY <1>21, <1>a, <1>d DEF Olddefconfig, ControlOK, Steps
  <2>2. TreeOK'
    BY <1>21, <1>a DEF Olddefconfig, TreeOK, Files, Contents
  <2> QED
    BY <1>21, <1>b, <2>1, <2>2 DEF Olddefconfig
<1>22. CASE Interrupted
  <2>1. ControlOK'
    BY <1>22, <1>d DEF Interrupted
  <2>2. TreeOK'
    BY <1>22, <1>a DEF Interrupted, TreeOK, tree
  <2> QED
    BY <1>22, <1>b, <2>1, <2>2 DEF Interrupted
<1>23. CASE Done \/ UNCHANGED vars
  BY <1>23 DEF Done, vars, buildVars, tree, TypeOK
<1> QED
  BY <1>1, <1>2, <1>3, <1>4, <1>5, <1>6, <1>7, <1>8, <1>9, <1>10, <1>11,
     <1>12, <1>13, <1>14, <1>15, <1>16, <1>17, <1>18, <1>19, <1>20, <1>21, <1>22, <1>23 DEF Next

(* TypeOK is an invariant of the builds in a tree. *)
THEOREM TreeTypeCorrect == Spec => []TypeOK
  BY InitType, NextType, PTL DEF Spec

(***************************************************************************)
(* Where a file of the user's is.  A file is away, and the user's data in  *)
(* the copy, from the step after its backup to its restoration.            *)
(***************************************************************************)
FromConfigure == {"configure", "make", "rename", "clean_again", "restore_spk"}
FromKernel == {"def_backup", "def_copy"} \cup FromConfigure
FromClean == {"clean", "kernel_backup", "kernel_copy", "kernel_build"}
             \cup FromKernel

SpkAway == pc \in FromClean \cup {"backup_config"}
ConfigAway == pc \in FromClean \cup {"restore_config"}
NuttxAway ==
    /\ "nuttx" \in restore
    /\ pc \in FromKernel \cup {"kernel_copy", "kernel_build",
                               "restore_config", "restore_nuttx"}
DefconfigAway ==
    /\ job.defconfig
    /\ pc \in FromConfigure \cup {"def_copy", "restore_config",
                                  "restore_nuttx", "rebuild", "restore_def"}

Home(f) == had[f] = "user" => files[f] = "user"
Kept(f) == had[f] = "user" => backup[f] = "user"

(* Steps a build comes to only for the sake of a configuration it has. *)
OnItsPath ==
    /\ pc \in {"def_backup", "def_copy", "restore_def"} => job.defconfig
    /\ pc = "kernel_backup" => job.nuttxconfig
    /\ pc \in {"kernel_copy", "restore_nuttx"} => "nuttx" \in restore
    /\ "nuttx" \in restore => job.nuttxconfig

(* The build goes on, or has come to its end. *)
InPlace ==
    /\ OnItsPath
    /\ IF SpkAway THEN Kept("spk") ELSE Home("spk")
    /\ IF ConfigAway THEN Kept("config") ELSE Home("config")
    /\ IF NuttxAway THEN Kept("nuttx") ELSE Home("nuttx")
    /\ IF DefconfigAway THEN Kept("defconfig") ELSE Home("defconfig")
    /\ DefconfigAway /\ had["defconfig"] = "user" => "defconfig" \in restore

(* The inductive invariant behind UserFilesSafe: between two builds and in *)
(* one that goes on every file is where InPlace says; a build that has     *)
(* failed has lost none.  The next build after a failure may.              *)
SafeInv ==
    /\ TypeOK
    /\ outcome = "failed" <=> "raised" \in amiss
    /\ "raised" \notin before =>
          IF outcome = "failed" THEN NoneLost ELSE InPlace

(* A file that is in its place or in its copy is not lost. *)
LEMMA InPlaceIsSafe == InPlace => NoneLost
  BY DEF InPlace, NoneLost, Files, Home, Kept

(* The invariant holds before the first build. *)
LEMMA InitSafe == Init => SafeInv
  BY InitType
  DEF Init, SafeInv, InPlace, OnItsPath, SpkAway, ConfigAway, NuttxAway,
      DefconfigAway,
      FromConfigure, FromKernel, FromClean, Home, Kept, Files, TypeOK

(* Every step of a build keeps the invariant.  A step starts with every    *)
(* file in place; it ends so, or in an exception that loses none.          *)
LEMMA NextSafe == SafeInv /\ [Next]_vars => SafeInv'
<1> SUFFICES ASSUME SafeInv, [Next]_vars PROVE SafeInv'
  OBVIOUS
<1>t. TypeOK /\ TypeOK'
  BY NextType DEF SafeInv
<1> SUFFICES /\ (outcome = "failed" <=> "raised" \in amiss)'
             /\ ("raised" \notin before)' =>
                   IF outcome' = "failed" THEN NoneLost' ELSE InPlace'
  BY <1>t DEF SafeInv
<1>n. /\ files \in [Files -> Contents] /\ backup \in [Files -> Contents]
  BY <1>t DEF TypeOK
<1>o. outcome = "running" <=> pc # "idle"
  BY <1>t DEF TypeOK
<1>1. CASE Begin
  BY <1>1, <1>n, <1>o
  DEF Begin, SafeInv, InPlace, OnItsPath, SpkAway, ConfigAway, NuttxAway,
      DefconfigAway, FromConfigure, FromKernel, FromClean, Home, Kept
<1>2. CASE ~Begin /\ Next /\ ~Done
  <2>1. pc # "idle" /\ before' = before /\ had' = had
    BY <1>2
    DEF Next, BackupSpk, BackupConfig, BackUp, Clean, CleanAgain, Distclean,
        KernelSkipped, KernelBackup, KernelCopy, DefconfigCopy, Copy,
        KernelBuild, DefconfigBackup, Configure, Make, Rename, RestoreSpk,
        RestoreConfig, RestoreNuttx, RestoreDefconfig, Restore, Rebuild,
        RemoveDefconfig, Olddefconfig, Interrupted, buildVars
  <2>2. \/ outcome' = outcome /\ amiss' \in {amiss, amiss \cup {pc}}
        \/ outcome' = "ok" /\ amiss' = amiss
        \/ outcome' = "failed" /\ amiss' = amiss \cup {"raised"}
    BY <1>2
    DEF Next, BackupSpk, BackupConfig, BackUp, Clean, CleanAgain, Distclean,
        KernelSkipped, KernelBackup, KernelCopy, DefconfigCopy, Copy,
        KernelBuild, DefconfigBackup, Configure, Make, Rename, RestoreSpk,
        RestoreConfig, RestoreNuttx, RestoreDefconfig, Restore, Rebuild,
        RemoveDefconfig, Olddefconfig, Interrupted, Goes,
        Raises, Unseen
  <2>3. pc # "raised"
    BY <1>t DEF TypeOK, Steps
  <2>4. outcome' = "failed" <=> "raised" \in amiss'
    BY <1>o, <2>1, <2>2, <2>3 DEF SafeInv
  <2>5. ASSUME "raised" \notin before'
        PROVE  IF outcome' = "failed" THEN NoneLost' ELSE InPlace'
    <3>1. InPlace /\ outcome = "running"
      BY <1>o, <1>t, <2>1, <2>5 DEF SafeInv, TypeOK
    <3>2. NoneLost
      BY <3>1, InPlaceIsSafe
    <3>3. Files = {"spk", "config", "defconfig", "nuttx"}
      BY DEF Files
    <3> USE <1>n, <2>1, <3>1, <3>2, <3>3
        DEF InPlace, OnItsPath, SpkAway, ConfigAway, NuttxAway,
            DefconfigAway, FromConfigure, FromKernel, FromClean, Home, Kept,
            NoneLost, buildVars
    <3>4. CASE BackupSpk
      BY <3>4 DEF BackupSpk, BackUp, BackupFile, Goes
    <3>5. CASE BackupConfig
      BY <3>5 DEF BackupConfig, BackUp, BackupFile, Goes
    <3>6. CASE Clean
      BY <3>6
      DEF Clean, Distclean, Without, AfterClean, AfterKernel, Goes, Raises
    <3>7. CASE KernelSkipped
      BY <3>7 DEF KernelSkipped, AfterKernel, Goes, tree
    <3>8. CASE KernelBackup
      BY <3>8 DEF KernelBackup, BackupFile, Goes
    <3>9. CASE KernelCopy
      BY <3>9 DEF KernelCopy, Copy, Goes
    <3>10. CASE KernelBuild
      BY <3>10 DEF KernelBuild, AfterKernel, Goes, Raises, Unseen
    <3>11. CASE DefconfigBackup
      BY <3>11 DEF DefconfigBackup, BackupFile, Flagged, Goes
    <3>12. CASE DefconfigCopy
      BY <3>12 DEF DefconfigCopy, Copy, Goes
    <3>13. CASE Configure
      BY <3>13 DEF Configure, Configured, Unfinished, Goes, Raises, Unseen
    <3>14. CASE Make
      BY <3>14 DEF Make, Goes, Raises
    <3>15. CASE Rename
      BY <3>15 DEF Rename, Goes
    <3>16. CASE CleanAgain
      BY <3>16 DEF CleanAgain, Distclean, Without, Goes, Raises
    <3>17. CASE RestoreSpk
      BY <3>17 DEF RestoreSpk, Restore, RestoreFile, Goes
    <3>18. CASE RestoreConfig
      BY <3>18 DEF RestoreConfig, Restore, RestoreFile, AfterRestoring, Goes
    <3>19. CASE RestoreNuttx
      BY <3>19 DEF RestoreNuttx, Restore, RestoreFile, Goes
    <3>20. CASE Rebuild
      BY <3>20 DEF Rebuild, AfterRestoring, Goes, Unseen
    <3>21. CASE RestoreDefconfig
      BY <3>21 DEF RestoreDefconfig, Restore, RestoreFile, Goes
    <3>22. CASE RemoveDefconfig
      BY <3>22 DEF RemoveDefconfig, Goes
    <3>23. CASE Olddefconfig
      BY <3>23 DEF Olddefconfig, Raises
    <3>24. CASE Interrupted
      BY <3>24 DEF Interrupted, Raises, tree
    <3> QED
      BY <1>2, <3>4, <3>5, <3>6, <3>7, <3>8, <3>9, <3>10, <3>11, <3>12,
         <3>13, <3>14, <3>15, <3>16, <3>17, <3>18, <3>19, <3>20, <3>21,
         <3>22, <3>23, <3>24 DEF Next
  <2> QED
    BY <2>4, <2>5
<1>3. CASE Done \/ UNCHANGED vars
  BY <1>3
  DEF Done, vars, tree, buildVars, SafeInv, InPlace, OnItsPath, SpkAway, ConfigAway,
      NuttxAway,
      DefconfigAway, Home, Kept, NoneLost
<1> QED
  BY <1>1, <1>2, <1>3

(* Wherever a build is interrupted, and whatever fails in it unseen, every *)
(* file of the user's exists, in its place or as the copy beside it, as    *)
(* long as no earlier build has ended in an exception, for any number of   *)
(* builds and failures (backup_file and restore_file of utils.py).         *)
THEOREM UserFilesKept == Spec => []UserFilesSafe
<1>1. Init => SafeInv
  BY InitSafe
<1>2. SafeInv /\ [Next]_vars => SafeInv'
  BY NextSafe
<1>3. SafeInv => UserFilesSafe
  BY InPlaceIsSafe DEF SafeInv, UserFilesSafe
<1> QED
  BY <1>1, <1>2, <1>3, PTL DEF Spec

(***************************************************************************)
(* What a build that nothing disturbs leaves behind.                       *)
(***************************************************************************)
(* The user's own content of a file, absence included.  make olddefconfig  *)
(* makes a configuration where there was none, and later builds keep it.   *)
Original(f, v) ==
    v = had[f] \/ (f = "config" /\ had[f] = "absent" /\ v = "made")

(* A file is in its place without a copy, or the copy is the original. *)
Where(f, away) ==
    IF away THEN Original(f, backup[f])
    ELSE Original(f, files[f]) /\ backup[f] = "absent"

BeforeKernel == {"backup_spk", "backup_config", "clean", "kernel_backup"}
WithKernel == FromKernel \cup {"restore_config", "restore_nuttx", "rebuild"}

(* The kernel in the tree, step by step and whatever has failed: the       *)
(* test's is built only for a test that supplies one, and it stays in the  *)
(* tree, and becomes an older test's, only if the release kernel was not   *)
(* built.                                                                  *)
KernelInv ==
    /\ files["nuttx"] = "absent" <=> had["nuttx"] = "absent"
    /\ had["nuttx"] = "absent" => backup["nuttx"] = "absent"
    /\ pc = "kernel_backup" => job.nuttxconfig
    /\ pc \in BeforeKernel => restore = {}
    /\ pc \in {"kernel_copy", "kernel_build", "restore_nuttx", "rebuild"} =>
          OwnKernelUsed
    /\ pc \in WithKernel \cup {"kernel_copy", "kernel_build"} =>
          ("nuttx" \in restore <=> OwnKernelUsed)
    /\ pc \in BeforeKernel \cup {"kernel_copy", "kernel_build"} =>
          kernel # "test"
    /\ pc \in WithKernel /\ OwnKernelUsed =>
          kernel = "test" \/ "kernel_build" \in amiss
    /\ kernel = "test" => OwnKernelUsed
    /\ kernel = "test" /\ pc \notin WithKernel =>
          "rebuild" \in amiss \/ "raised" \in amiss
    /\ kernel = "older" => "rebuild" \in before \/ "raised" \in before

(* What make sees, and what the image is made from. *)
ImageInv ==
    /\ pc \in {"make", "rename"} =>
          files["config"] = "test" \/ "configure" \in amiss
    /\ ImageIsTheTests

(* Every file, its copy and the flags, step by step, as long as nothing    *)
(* has ended in an exception.  make distclean removes what restore_file is *)
(* about to put back.                                                      *)
Orderly ==
    /\ Where("spk", SpkAway)
    /\ Where("config", ConfigAway)
    /\ Where("nuttx", NuttxAway)
    /\ Where("defconfig", DefconfigAway)
    /\ pc = "restore_spk" => files["spk"] = "absent"
    /\ pc \in {"restore_spk", "restore_config"} => files["config"] = "absent"
    /\ pc \in {"kernel_copy", "kernel_build", "def_backup"} =>
          "defconfig" \notin restore
    /\ DefconfigAway => ("defconfig" \in restore <=> had["defconfig"] = "user")
    /\ cwd = "home"

(* The inductive invariant behind RestoredOnSuccess and ImageIsTheTests.   *)
OrderInv ==
    /\ SafeInv /\ KernelInv /\ ImageInv
    /\ "raised" \notin before /\ outcome # "failed" => Orderly

(* The invariant holds before the first build. *)
LEMMA InitOrder == Init => OrderInv
<1> SUFFICES ASSUME Init PROVE OrderInv
  OBVIOUS
<1>1. SafeInv
  BY InitSafe
<1>2. KernelInv
  BY DEF Init, KernelInv, OwnKernelUsed, BeforeKernel, WithKernel, FromKernel,
         FromConfigure, Files
<1>3. ImageInv
  BY DEF Init, ImageInv, ImageIsTheTests
<1>4. Orderly
  BY DEF Init, Orderly, Where, Original, SpkAway, ConfigAway, NuttxAway,
         DefconfigAway, FromConfigure, FromKernel, FromClean, Files
<1> QED
  BY <1>1, <1>2, <1>3, <1>4 DEF OrderInv

(* Every step keeps what is known of the kernel. *)
LEMMA NextKernel == TypeOK /\ KernelInv /\ [Next]_vars => KernelInv'
<1> SUFFICES ASSUME TypeOK, KernelInv, [Next]_vars PROVE KernelInv'
  OBVIOUS
<1>1. /\ files \in [Files -> Contents] /\ backup \in [Files -> Contents]
      /\ had \in [Files -> {"absent", "user"}]
      /\ Files = {"spk", "config", "defconfig", "nuttx"}
  BY DEF TypeOK, Files
<1> USE <1>1
    DEF KernelInv, OwnKernelUsed, BeforeKernel, WithKernel, FromKernel,
        FromConfigure, buildVars, Goes
<1>2. CASE Begin
  BY <1>2 DEF Begin
<1>3. CASE BackupSpk \/ BackupConfig
  BY <1>3 DEF BackupSpk, BackupConfig, BackUp, BackupFile
<1>4. CASE Clean \/ CleanAgain
  <2>1. files'["nuttx"] = files["nuttx"]
    BY <1>4 DEF Clean, CleanAgain, Distclean, Without
  <2> QED
    BY <1>4, <2>1
    DEF Clean, CleanAgain, Distclean, AfterClean, AfterKernel, Raises
<1>5. CASE KernelSkipped
  BY <1>5 DEF KernelSkipped, AfterKernel, tree
<1>6. CASE KernelBackup
  BY <1>6 DEF KernelBackup, BackupFile
<1>7. CASE KernelCopy
  BY <1>7 DEF KernelCopy, Copy
<1>8. CASE KernelBuild
  BY <1>8 DEF KernelBuild, AfterKernel, Raises, Unseen
<1>9. CASE DefconfigBackup
  BY <1>9 DEF DefconfigBackup, BackupFile, Flagged
<1>10. CASE DefconfigCopy
  BY <1>10 DEF DefconfigCopy, Copy
<1>11. CASE Configure
  BY <1>11 DEF Configure, Configured, Unfinished, Raises, Unseen
<1>12. CASE Make \/ Rename
  BY <1>12 DEF Make, Rename, Raises
<1>13. CASE RestoreSpk \/ RestoreConfig
  BY <1>13
  DEF RestoreSpk, RestoreConfig, Restore, RestoreFile, AfterRestoring
<1>14. CASE RestoreNuttx
  BY <1>14 DEF RestoreNuttx, Restore, RestoreFile
<1>15. CASE Rebuild
  BY <1>15 DEF Rebuild, AfterRestoring, Unseen
<1>16. CASE RestoreDefconfig \/ RemoveDefconfig
  BY <1>16 DEF RestoreDefconfig, Restore, RestoreFile, RemoveDefconfig
<1>17. CASE Olddefconfig
  BY <1>17 DEF Olddefconfig, Raises
<1>18. CASE Interrupted
  BY <1>18 DEF Interrupted, Raises, tree
<1>19. CASE Done \/ UNCHANGED vars
  BY <1>19 DEF Done, vars, tree
<1> QED
  BY <1>2, <1>3, <1>4, <1>5, <1>6, <1>7, <1>8, <1>9, <1>10, <1>11, <1>12,
     <1>13, <1>14, <1>15, <1>16, <1>17, <1>18, <1>19 DEF Next

(* Every step keeps what make sees, and what the image is. *)
LEMMA NextImage == TypeOK /\ KernelInv /\ ImageInv /\ [Next]_vars => ImageInv'
<1> SUFFICES ASSUME TypeOK, KernelInv, ImageInv, [Next]_vars PROVE ImageInv'
  OBVIOUS
<1>1. files \in [Files -> Contents] /\ "config" \in Files /\ "spk" \in Files
  BY DEF TypeOK, Files
<1>2. CASE Configure \/ Make
  <2>1. /\ UNCHANGED <<image, buildVars>>
        /\ amiss \subseteq amiss'
        /\ pc' = "make" => files'["config"] = "test" \/ "configure" \in amiss'
        /\ pc' = "rename" => pc = "make" /\ files'["config"] = files["config"]
    BY <1>1, <1>2
    DEF Configure, Configured, Unfinished, Make, Goes, Raises, Unseen
  <2> QED
    BY <2>1 DEF ImageInv, ImageIsTheTests, OwnKernelUsed, buildVars
<1>3. CASE Rename
  <2>1. /\ image' = [config |-> files["config"], kernel |-> kernel]
        /\ pc = "rename" /\ pc' = "clean_again"
        /\ UNCHANGED <<buildVars, amiss>>
    BY <1>3 DEF Rename, Goes
  <2> QED
    BY <2>1
    DEF ImageInv, ImageIsTheTests, OwnKernelUsed, buildVars, KernelInv,
        WithKernel, FromKernel, FromConfigure
<1>4. CASE Begin
  BY <1>4 DEF Begin, ImageInv, ImageIsTheTests
<1>5. CASE Next /\ ~(Configure \/ Make \/ Rename \/ Begin)
  <2>1. pc' \notin {"make", "rename"} \/ UNCHANGED <<pc, files, amiss>>
    BY <1>5
    DEF Next, BackupSpk, BackupConfig, BackUp, Clean, CleanAgain,
        Distclean, KernelSkipped, KernelBackup, KernelCopy, DefconfigCopy,
        Copy, KernelBuild, DefconfigBackup, RestoreSpk, RestoreConfig,
        RestoreNuttx, RestoreDefconfig, Restore, Rebuild, RemoveDefconfig,
        Olddefconfig, Interrupted, Done, Goes, Raises, Unseen, AfterClean,
        AfterKernel, AfterRestoring, vars, tree
  <2>2. UNCHANGED <<image, buildVars>> /\ amiss \subseteq amiss'
    BY <1>5
    DEF Next, BackupSpk, BackupConfig, BackUp, Clean, CleanAgain,
        Distclean, KernelSkipped, KernelBackup, KernelCopy, DefconfigCopy,
        Copy, KernelBuild, DefconfigBackup, RestoreSpk, RestoreConfig,
        RestoreNuttx, RestoreDefconfig, Restore, Rebuild, RemoveDefconfig,
        Olddefconfig, Interrupted, Done, Goes, Raises, Unseen, vars
  <2> QED
    BY <2>1, <2>2 DEF ImageInv, ImageIsTheTests, OwnKernelUsed, buildVars
<1>6. CASE UNCHANGED vars
  BY <1>6
  DEF ImageInv, ImageIsTheTests, OwnKernelUsed, vars, tree, buildVars
<1> QED
  BY <1>2, <1>3, <1>4, <1>5, <1>6

(* Every step that does not raise keeps the tree in order. *)
LEMMA NextOrder == OrderInv /\ [Next]_vars => OrderInv'
<1> SUFFICES ASSUME OrderInv, [Next]_vars, "raised" \notin before',
                    outcome' # "failed"
             PROVE  Orderly'
  BY NextSafe, NextKernel, NextImage DEF OrderInv, SafeInv
<1>t. TypeOK /\ TypeOK' /\ SafeInv
  BY NextType DEF OrderInv, SafeInv
<1>1. /\ files \in [Files -> Contents] /\ backup \in [Files -> Contents]
      /\ restore \subseteq {"defconfig", "nuttx"}
      /\ had \in [Files -> {"absent", "user"}]
      /\ Files = {"spk", "config", "defconfig", "nuttx"}
  BY <1>t DEF TypeOK, Files
<1>2. ~Raises
  BY DEF Raises
<1>3. "raised" \notin before /\ outcome # "failed"
  <2>1. CASE Begin
    BY <1>t, <2>1 DEF Begin, SafeInv
  <2>2. CASE ~Begin
    <3>1. before' = before
      BY <2>2
      DEF Next, BackupSpk, BackupConfig, BackUp, Clean, CleanAgain,
          Distclean, KernelSkipped, KernelBackup, KernelCopy, DefconfigCopy,
          Copy, KernelBuild, DefconfigBackup, Configure, Make, Rename,
          RestoreSpk, RestoreConfig, RestoreNuttx, RestoreDefconfig, Restore,
          Rebuild, RemoveDefconfig, Olddefconfig, Interrupted, Done, vars,
          buildVars
    <3>2. outcome = "running" \/ outcome' = outcome
      BY <1>t, <2>2
      DEF Next, BackupSpk, BackupConfig, BackUp, Clean, CleanAgain,
          Distclean, KernelSkipped, KernelBackup, KernelCopy, DefconfigCopy,
          Copy, KernelBuild, DefconfigBackup, Configure, Make, Rename,
          RestoreSpk, RestoreConfig, RestoreNuttx, RestoreDefconfig, Restore,
          Rebuild, RemoveDefconfig, Olddefconfig, Interrupted, Done, vars,
          TypeOK
    <3> QED
      BY <3>1, <3>2
  <2> QED
    BY <2>1, <2>2
<1>4. Orderly /\ OnItsPath /\ KernelInv
  BY <1>3 DEF OrderInv, SafeInv, InPlace
<1> USE <1>1, <1>4
    DEF Orderly, Where, Original, OwnKernelUsed, BeforeKernel,
        WithKernel, KernelInv, OnItsPath, SpkAway, ConfigAway, NuttxAway,
        DefconfigAway, FromConfigure, FromKernel, FromClean, Goes, buildVars
<1>6. CASE Begin
  BY <1>t, <1>6 DEF Begin, TypeOK
<1>7. CASE BackupSpk
  BY <1>7 DEF BackupSpk, BackUp, BackupFile
<1>8. CASE BackupConfig
  BY <1>8 DEF BackupConfig, BackUp, BackupFile
<1>9. CASE Clean
  BY <1>2, <1>9 DEF Clean, Distclean, Without, AfterClean, AfterKernel
<1>10. CASE KernelSkipped
  BY <1>10 DEF KernelSkipped, AfterKernel, tree
<1>11. CASE KernelBackup
  BY <1>11 DEF KernelBackup, BackupFile
<1>12. CASE KernelCopy
  BY <1>12 DEF KernelCopy, Copy
<1>13. CASE KernelBuild
  BY <1>2, <1>13 DEF KernelBuild, AfterKernel, Unseen
<1>14. CASE DefconfigBackup
  BY <1>14 DEF DefconfigBackup, BackupFile, Flagged
<1>15. CASE DefconfigCopy
  BY <1>15 DEF DefconfigCopy, Copy
<1>16. CASE Configure
  BY <1>2, <1>16 DEF Configure, Configured, Unfinished, Unseen
<1>17. CASE Make
  BY <1>2, <1>17 DEF Make
<1>18. CASE Rename
  BY <1>18 DEF Rename
<1>19. CASE CleanAgain
  BY <1>2, <1>19 DEF CleanAgain, Distclean, Without
<1>20. CASE RestoreSpk
  BY <1>20 DEF RestoreSpk, Restore, RestoreFile
<1>21. CASE RestoreConfig
  BY <1>21 DEF RestoreConfig, Restore, RestoreFile, AfterRestoring
<1>22. CASE RestoreNuttx
  BY <1>22 DEF RestoreNuttx, Restore, RestoreFile
<1>23. CASE Rebuild
  BY <1>23 DEF Rebuild, AfterRestoring, Unseen
<1>24. CASE RestoreDefconfig
  BY <1>24 DEF RestoreDefconfig, Restore, RestoreFile
<1>25. CASE RemoveDefconfig
  BY <1>25 DEF RemoveDefconfig
<1>26. CASE Olddefconfig
  BY <1>2, <1>26 DEF Olddefconfig
<1>27. CASE Interrupted
  BY <1>2, <1>27 DEF Interrupted
<1>28. CASE Done \/ UNCHANGED vars
  BY <1>28 DEF Done, vars, tree
<1> QED
  BY <1>6, <1>7, <1>8, <1>9, <1>10, <1>11, <1>12, <1>13, <1>14, <1>15,
     <1>16, <1>17, <1>18, <1>19, <1>20, <1>21, <1>22, <1>23, <1>24, <1>25,
     <1>26, <1>27, <1>28 DEF Next

(* The invariant holds in every state. *)
LEMMA OrderInvariant == Spec => []OrderInv
  BY InitOrder, NextOrder, PTL DEF Spec

(* A build that succeeds, after none has ended in an exception, leaves the *)
(* tree as the user had it whatever failed in it unseen, for any number of *)
(* builds in it; only the kernel may be a test's, and then building the    *)
(* release kernel has failed (restore_file, the removal of the defconfig   *)
(* and make buildkernel of buildKernelApp_project).                        *)
THEOREM TreeRestored == Spec => []RestoredOnSuccess
<1>1. OrderInv => RestoredOnSuccess
  <2> SUFFICES ASSUME OrderInv, outcome = "ok", "raised" \notin before
               PROVE  /\ \A f \in Files : \/ files[f] = had[f]
                                          \/ f = "config" /\ had[f] = "absent"
                      /\ \A f \in Files : backup[f] = "absent"
                      /\ cwd = "home"
                      /\ kernel = "test" => "rebuild" \in amiss
                      /\ kernel = "older" => "rebuild" \in before
    BY DEF RestoredOnSuccess
  <2>1. Orderly /\ KernelInv /\ pc = "idle" /\ "raised" \notin amiss
    BY DEF OrderInv, SafeInv, TypeOK
  <2>2. /\ kernel = "test" => "rebuild" \in amiss
        /\ kernel = "older" => "rebuild" \in before
    BY <2>1 DEF KernelInv, WithKernel, FromKernel, FromConfigure
  <2> QED
    BY <2>1, <2>2
    DEF Orderly, Where, Original, SpkAway, ConfigAway, NuttxAway,
        DefconfigAway, FromConfigure, FromKernel, FromClean, Files
<1> QED
  BY <1>1, OrderInvariant, PTL

(* In any number of builds and whatever fails: an image is made from the   *)
(* test's configuration and kernel unless their making failed unseen, and  *)
(* it runs on an earlier test's kernel only after a release kernel was not *)
(* built (configure_project and make buildkernel).                         *)
THEOREM ImageFromTheTest == Spec => []ImageIsTheTests
<1>1. OrderInv => ImageIsTheTests
  BY DEF OrderInv, ImageInv
<1> QED
  BY <1>1, OrderInvariant, PTL
=============================================================================
