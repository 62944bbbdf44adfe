--------------------------------- MODULE Boot --------------------------------
(***************************************************************************)
(* The boot loader (src/boot/boot.cpp): it picks the manifest of the       *)
(* application or of an update that waits in the file .update, resolves    *)
(* the manifest's dependencies, has the installer supply what is missing,  *)
(* and starts the application.  The installer does what Installation       *)
(* promises, and may have run itself through a terminal.  A running        *)
(* application may write .update and restart itself (installAppUpdate,     *)
(* modules/network/support/tinetworkmodule.js).                            *)
(*                                                                         *)
(* A manifest is the version of the application it belongs to; what        *)
(* resolves a dependency is a component of that name (see Dependencies).   *)
(* Every manifest asks for a runtime.  A component is on disk for the boot *)
(* loader when its directory is, whatever that holds.                      *)
(***************************************************************************)
EXTENDS Naturals, FiniteSets, BootConstants

VARIABLES
    components,  \* the components whose directory is on disk
    files,       \* the version of the application on disk
    update,      \* "none", or the version in the file .update
    marker,      \* the application is marked as installed
    needs,       \* needs[v]: the components the manifest of version v asks for
    pc,          \* where the boot loader is, or what became of it
    app,         \* KrollBoot::app: the version whose manifest it goes by
    updating,    \* KrollBoot::updateFile is set
    missing,     \* the dependencies handed to the installer
    total, unpacked, result,   \* the installer (see Installation)
    \* history, of the last installer since the update was asked for
    failed,      \* the components, and the "application", whose archive could not
                 \* be unpacked
    interrupted  \* it was cancelled or failed, or said it had succeeded and had not
                 \* got to all archives, or has not done all it does at its end

history == <<failed, interrupted>>
installer == <<total, unpacked, result>>
local == <<app, updating, missing>>
disk == <<components, files, update, marker>>
vars == <<disk, needs, pc, local, installer, history>>

Version == {"old", "new"}

Install == INSTANCE Installation WITH update <- update # "none", terminal <- TRUE

Init ==
    /\ components \in SUBSET Component
    /\ needs \in [Version -> {n \in SUBSET Component : Runtime \in n}]
    /\ files \in Version /\ update = "none"
    /\ marker \in BOOLEAN
    /\ pc = "start" /\ app = files /\ updating = FALSE /\ missing = {}
    /\ Install!Begin(0) /\ failed = {} /\ interrupted = FALSE

ResolveDependencies == needs[app] \ components

\* Mutant: an update that waits is not looked at.
NoUpdate ==
    /\ pc = "start" /\ pc' = "resolve"
    /\ app' = files /\ updating' = FALSE
    /\ UNCHANGED <<disk, missing, installer, history>>

\* FindUpdate: what waits is taken, whatever its version.
FindUpdate ==
    /\ pc = "start" /\ pc' = "resolve"
    /\ updating' = (update # "none")
    /\ app' = IF update # "none" THEN update ELSE files
    /\ UNCHANGED <<disk, missing, installer, history>>

\* When an SDK is missing, SDKs are all that is installed.
FilterForSDKInstall(dependencies) ==
    LET justSDKs == dependencies \cap {Sdk, MobileSdk}
    IN  IF justSDKs # {} THEN justSDKs ELSE dependencies

\* Bootstrap up to RunInstaller; with --force-install it runs in any case.
Resolve ==
    /\ pc = "resolve"
    /\ \E forceInstall \in BOOLEAN :
          IF forceInstall \/ ResolveDependencies # {} \/ ~marker \/ updating
          THEN /\ missing' = FilterForSDKInstall(ResolveDependencies)
               /\ pc' = "install"
               /\ total' = Cardinality(missing') + (IF updating THEN 1 ELSE 0)
               /\ unpacked' = 0 /\ result' = "running"
          ELSE pc' = "launch" /\ UNCHANGED <<missing, installer>>
    /\ failed' = {} /\ interrupted' = FALSE
    /\ UNCHANGED <<disk, app, updating>>

Supplies(c) == IF c = Sdk THEN Component \ {MobileSdk} ELSE {c}

\* Unzip on the archive of a component, the result of which is dropped: when it
\* fails, part of what the component supplies may be there.  The directory of a
\* runtime or a module was made before.
UnzipComponent ==
    \E c \in missing \ (components \cup failed) :
        \/ components' = components \cup Supplies(c) /\ UNCHANGED failed
        \/ /\ failed' = failed \cup {c}
           /\ \E some \in SUBSET Supplies(c) :
                 /\ c \notin {Sdk, MobileSdk} => c \in some
                 /\ components' = components \cup some

\* Unzip over the application's files: when it fails, some may be the new ones.
UnzipApplication ==
    \/ files' = app /\ UNCHANGED failed
    \/ files' \in {files, app} /\ failed' = failed \cup {"application"}

\* Mutant: the application's own archive comes first.
UnpackAppFirst ==
    /\ pc = "install"
    /\ UNCHANGED <<update, marker>> /\ Install!Unpack
    /\ IF unpacked = 0 /\ updating
       THEN UnzipApplication /\ UNCHANGED components
       ELSE UnzipComponent /\ UNCHANGED files
    /\ UNCHANGED <<pc, local, interrupted>>

\* The installer unpacks the components, then the application.
Unpack ==
    /\ pc = "install"
    /\ UNCHANGED <<update, marker>> /\ Install!Unpack
    /\ IF unpacked < Cardinality(missing)
       THEN UnzipComponent /\ UNCHANGED files
       ELSE UnzipApplication /\ UNCHANGED components
    /\ UNCHANGED <<pc, local, interrupted>>

\* The boot loader does not look at how it ended.
InstallerEnds ==
    /\ pc = "install"
    /\ UNCHANGED <<disk, pc, local, failed>>
    /\ \/ Install!Succeed /\ interrupted' = (unpacked < total)
       \/ Install!Stop /\ interrupted' = TRUE

\* The end of a successful run: both, unless the process fails in between.
Settle ==
    /\ pc = "install"
    /\ marker' \in {marker, TRUE}
    /\ update' \in {update, IF updating THEN "none" ELSE update}
    /\ Install!Settle
    /\ interrupted' = (interrupted \/ ~marker' \/ (updating /\ update' # "none"))
    /\ pc' = "again"
    /\ UNCHANGED <<components, files, local, failed>>

\* The installer ended without success: nothing was marked.
Stopped ==
    /\ pc = "install" /\ result = "stopped"
    /\ pc' = "again"
    /\ UNCHANGED <<disk, local, installer, history>>

\* Bootstrap after RunInstaller.
Again ==
    /\ pc = "again"
    /\ pc' = IF ResolveDependencies # {} \/ ~marker THEN "failed" ELSE "launch"
    /\ UNCHANGED <<disk, local, installer, history>>

\* Blastoff. The update file, if still there, is deleted before.
Launch ==
    /\ pc = "launch" /\ pc' = "running"
    /\ update' = IF updating THEN "none" ELSE update
    /\ UNCHANGED <<components, files, marker, local, installer, history>>

\* installAppUpdate in the application, which then restarts.
InstallAppUpdate ==
    /\ pc = "running" /\ files = "old"
    /\ update' = "new" /\ pc' = "start"
    /\ failed' = {} /\ interrupted' = FALSE
    /\ UNCHANGED <<components, files, marker, local, installer>>

\* The user ends the application, or the boot loader failed, and starts it again.
StartAgain ==
    /\ pc \in {"running", "failed"} /\ pc' = "start"
    /\ UNCHANGED <<disk, local, installer, history>>

BootStep ==
    /\ \/ FindUpdate \/ Resolve \/ Unpack \/ InstallerEnds \/ Settle \/ Stopped
       \/ Again \/ Launch
    /\ UNCHANGED needs
UserStep == (InstallAppUpdate \/ StartAgain) /\ UNCHANGED needs

Next == BootStep \/ UserStep

Spec == Init /\ [][Next]_vars

\* The boot loader and the installer go on; nobody has to update anything.
Fairness == WF_vars(BootStep)

FairSpec == Spec /\ Fairness

-----------------------------------------------------------------------------
(* Properties.                                                              *)

\* Types of the variables; the boot loader waits for the installer.
TypeOK ==
    /\ components \subseteq Component
    /\ needs \in [Version -> SUBSET Component]
    /\ files \in Version /\ update \in Version \cup {"none"}
    /\ marker \in BOOLEAN
    /\ failed \subseteq Component \cup {"application"} /\ interrupted \in BOOLEAN
    /\ pc \in {"start", "resolve", "install", "again", "launch", "running", "failed"}
    /\ app \in Version /\ updating \in BOOLEAN
    /\ missing \subseteq Component
    /\ total \in 0..Cardinality(Component) + 1 /\ unpacked \in 0..total
    /\ result \in {"running", "success", "stopped"}
    /\ pc = "again" => result # "running"

\* However an installer ends, the files of a version are put in place only after
\* everything it depends on: it never has to be started with its archive unpacked
\* and the directory of a component missing.  Two cases are left, which no order
\* of the archives helps: an SDK could not be unpacked, or the mobile SDK was
\* installed alone, which does not supply the rest.
ComponentsFirst ==
    [][pc = "install" /\ files' # files =>
          \/ needs[files'] \subseteq components'
          \/ failed' \cap {Sdk, MobileSdk} # {}
          \/ missing = {MobileSdk}]_vars

\* An application that runs has a directory for all that its manifest asks for,
\* however the installer ended.
StartsComplete == pc = "running" => needs[app] \subseteq components

\* An update that was asked for is gone only when it was applied, unless its
\* installer was interrupted, or the archive of the application, which nobody
\* notices, could not be unpacked ...
UpdateIsApplied ==
    [][update = "new" /\ update' = "none" =>
          files' = "new" \/ interrupted' \/ "application" \in failed']_vars

\* Neither the order of what an installer does nor the end of one loses the update
\* or leaves an application without what it needs; only an archive that could not
\* be unpacked does.
UpdateIsSafe == ComponentsFirst /\ UpdateIsApplied

\* ... and it is applied in the end, but for these: no start fails, or installs
\* for ever.
UpdateArrives ==
    update = "new" ~> (files = "new" \/ interrupted \/ "application" \in failed)

\* A cancelled update leaves an application that was complete and installed as
\* it is: it is started as usual.
StartsAsUsual ==
    pc = "failed" /\ result = "stopped" /\ marker => ~(needs[files] \subseteq components)
=============================================================================
