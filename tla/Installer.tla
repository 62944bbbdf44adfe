------------------------------ MODULE Installer ------------------------------
(***************************************************************************)
(* The installer that the boot loader starts (src/installer/linux): the    *)
(* GTK main loop with its buttons and its 100 ms watcher, the thread that  *)
(* downloads the packages and the thread that unpacks them.  They talk     *)
(* through one unprotected variable, `stage`, which all of them write.     *)
(*                                                                         *)
(* For a system-wide installation, or an update of files the user may not  *)
(* write, the process runs itself again with sudo and takes the status of  *)
(* the program that asks for the password for the stage that one ended in. *)
(***************************************************************************)
EXTENDS Naturals, FiniteSets

CONSTANT MaxComponents  \* packages given on the command line, at most

ASSUME InstallerAssumption == MaxComponents \in Nat

VARIABLES
    given,      \* the number of packages; with --updatefile or not (then the
                \* application is a package too); may the user write its files;
                \* is a terminal all there is to ask for the password in
    stage,      \* Installer::stage
    main,       \* where main() and the main loop are
    view,       \* "none", "intro" or "progress": the buttons the user has
    type,       \* Installer::installType
    root,       \* this is the process started again with sudo
    dl, inst,   \* download_thread_f and install_thread_f
    at,         \* the job a thread is at
    fetched,    \* jobs whose archive is complete on disk
    unpacked,   \* jobs for whose archive /usr/bin/unzip was run
    marker,     \* the file .installed exists
    update      \* the file .update exists

threads == <<dl, inst, at, fetched, unpacked>>
disk == <<marker, update>>
vars == <<given, stage, main, view, type, root, threads, disk>>

\* The jobs, the application's own archive being the last one.
Job == 1..(given.components + (IF given.update THEN 1 ELSE 0))
Total == Cardinality(Job)
NoApp == given.update /\ ~given.writable  \* Installer::app is NULL in the first process

Stages == {"SUCCESS", "PREDOWNLOAD", "DOWNLOADING", "PREINSTALL", "INSTALLING",
           "CANCEL_REQUEST", "SUDO_REQUEST", "CANCELLED", "ERROR"}

Init ==
    /\ given \in [components : 0..MaxComponents, update : BOOLEAN, writable : BOOLEAN,
                  terminal : BOOLEAN]
    /\ stage = "PREDOWNLOAD" /\ main = "begin" /\ view = "none"
    /\ type = "unknown" /\ root = FALSE
    /\ dl = "none" /\ inst = "none" /\ at = 0
    /\ fetched = {} /\ unpacked = {}
    /\ marker = FALSE /\ update = given.update

-----------------------------------------------------------------------------
(* The main thread.                                                         *)

StartDownloading ==
    IF Job = {}
    THEN /\ stage' = "SUCCESS"
         /\ main' = "loop"      \* gtk_main_quit, or the watcher's next look
         /\ view' = "none"
         /\ UNCHANGED <<dl, at>>
    ELSE /\ stage' = "DOWNLOADING"
         /\ main' = "loop"
         /\ view' = "progress"
         /\ dl' = "fetch" /\ at' = 1

\* The constructor.
Construct ==
    /\ main = "begin"
    /\ IF NoApp /\ ~root
       THEN /\ stage' = "SUDO_REQUEST" /\ main' = "end"
            /\ UNCHANGED <<view, dl, at>>
       ELSE IF type = "unknown"
       THEN /\ main' = "loop" /\ view' = "intro"
            /\ UNCHANGED <<stage, dl, at>>
       ELSE StartDownloading
    /\ UNCHANGED <<type, root, inst, fetched, unpacked, disk>>

\* Mutant: whatever became of the run as root, it is taken for a success.
TakeForSuccess(status) == "SUCCESS"

\* The status of gksudo or kdesudo is that of the run they made, or an error; that
\* of xterm says nothing of it.
TakeOver(status) == IF given.terminal THEN "SUCCESS" ELSE status

\* What the user chose.  Without packages there is no box to choose in, and
\* installCombo, never initialized, is read: 0 is chosen, or it crashes.
InstallType == IF given.components > 0 THEN {"homedir", "system"} ELSE {"homedir", "crash"}

\* install_cb, StartInstallProcess
ClickInstall ==
    /\ main = "loop" /\ view = "intro"
    /\ \E chosen \in InstallType :
          IF chosen = "crash"
          THEN /\ IF root THEN main' = "end" /\ stage' = TakeOver("ERROR")
                  ELSE main' = "crashed" /\ UNCHANGED stage
               /\ root' = FALSE /\ view' = "none"
               /\ UNCHANGED <<type, dl, at>>
          ELSE /\ type' = chosen /\ UNCHANGED root
               /\ IF chosen = "homedir" \/ root THEN StartDownloading
                  ELSE /\ stage' = "SUDO_REQUEST" /\ main' = "end" /\ view' = "none"
                       /\ UNCHANGED <<dl, at>>
    /\ UNCHANGED <<inst, fetched, unpacked, disk>>

\* cancel_cb; destroy_cb does the same and closes the window.
ClickCancel ==
    /\ main = "loop" /\ view # "none"
    /\ view' \in {view, "none"}
    /\ IF stage = "PREDOWNLOAD"
       THEN stage' = "CANCELLED" /\ main' = "end"
       ELSE stage' = "CANCEL_REQUEST" /\ UNCHANGED main
    /\ UNCHANGED <<type, root, threads, disk>>

\* The watcher: StartInstalling joins the download thread and creates the other.
StartInstalling ==
    /\ main = "loop" /\ stage = "PREINSTALL"
    /\ dl = "ended"
    /\ inst' = "unzip" /\ at' = 1
    /\ main' = "starting"
    /\ UNCHANGED <<stage, view, type, root, dl, fetched, unpacked, disk>>

\* SetStage(INSTALLING), when that thread may have come to its end already.
SetInstalling ==
    /\ main = "starting"
    /\ stage' = "INSTALLING"
    /\ main' = "loop"
    /\ UNCHANGED <<view, type, root, threads, disk>>

\* Mutant: the watcher looks for no error.
QuitUnlessError ==
    /\ main = "loop" /\ stage \in {"CANCELLED", "SUCCESS"}
    /\ main' = "end"
    /\ UNCHANGED <<stage, view, type, root, threads, disk>>

\* The watcher: gtk_main_quit, after the error was shown.
Quit ==
    /\ main = "loop"
    /\ stage \in {"ERROR", "CANCELLED", "SUCCESS"}
    /\ main' = "end"
    /\ UNCHANGED <<stage, view, type, root, threads, disk>>

\* do_install_sudo: refused, or the same program again, as root.
Sudo ==
    /\ main = "end" /\ stage = "SUDO_REQUEST"
    /\ \/ stage' = TakeOver("ERROR") /\ UNCHANGED <<main, root>>
       \/ stage' = "PREDOWNLOAD" /\ main' = "begin" /\ root' = TRUE
    /\ UNCHANGED <<view, type, threads, disk>>

\* Finish and the end of main(); app->GetDataPath() fails when app is NULL.
Finish ==
    /\ main = "end" /\ stage # "SUDO_REQUEST"
    /\ root' = FALSE /\ stage' = (IF root THEN TakeOver(stage) ELSE stage)
    /\ IF stage # "SUCCESS"
       THEN main' = (IF root THEN "end" ELSE "exited") /\ UNCHANGED disk
       ELSE IF root
       THEN main' = "end" /\ update' = FALSE /\ UNCHANGED marker
       ELSE IF NoApp
       THEN main' = "crashed" /\ UNCHANGED disk
       ELSE main' = "exited" /\ marker' = TRUE /\ update' = FALSE
    /\ UNCHANGED <<view, type, threads>>

-----------------------------------------------------------------------------
(* The two threads.  Job::Fetch is aborted when the stage is CANCEL_REQUEST *)
(* and then fails silently; any other failure is an error.                  *)

Fetch ==
    /\ dl = "fetch"
    /\ \/ fetched' = fetched \cup {at} /\ dl' = "check"
       \/ stage = "CANCEL_REQUEST" /\ dl' = "check" /\ UNCHANGED fetched
       \/ stage # "CANCEL_REQUEST" /\ dl' = "error" /\ UNCHANGED fetched
    /\ UNCHANGED <<stage, main, view, type, root, inst, at, unpacked, disk>>

\* Mutant: the request is not looked for after the last download.
CheckUnlessLast ==
    /\ dl = "check"
    /\ IF at = Total THEN dl' = "done" /\ UNCHANGED <<at, stage>>
       ELSE IF stage = "CANCEL_REQUEST"
       THEN stage' = "CANCELLED" /\ dl' = "ended" /\ UNCHANGED at
       ELSE dl' = "fetch" /\ at' = at + 1 /\ UNCHANGED stage
    /\ UNCHANGED <<main, view, type, root, inst, fetched, unpacked, disk>>

FetchChecked ==
    /\ dl = "check"
    /\ IF stage = "CANCEL_REQUEST"
       THEN stage' = "CANCELLED" /\ dl' = "ended" /\ UNCHANGED at
       ELSE IF at < Total
       THEN dl' = "fetch" /\ at' = at + 1 /\ UNCHANGED stage
       ELSE dl' = "done" /\ UNCHANGED <<at, stage>>
    /\ UNCHANGED <<main, view, type, root, inst, fetched, unpacked, disk>>

\* SetStage(PREINSTALL) or SetError, whatever the stage has become meanwhile.
FetchEnds ==
    /\ dl \in {"done", "error"}
    /\ stage' = IF dl = "done" THEN "PREINSTALL" ELSE "ERROR"
    /\ dl' = "ended"
    /\ UNCHANGED <<main, view, type, root, inst, at, fetched, unpacked, disk>>

\* Job::Unzip; nobody looks at what /usr/bin/unzip returned, so that `unpacked`
\* includes archives it failed on.
Unzip ==
    /\ inst = "unzip"
    /\ unpacked' = unpacked \cup {at}
    /\ inst' = "check"
    /\ UNCHANGED <<stage, main, view, type, root, dl, at, fetched, disk>>

UnzipChecked ==
    /\ inst = "check"
    /\ IF stage = "CANCEL_REQUEST"
       THEN stage' = "CANCELLED" /\ inst' = "ended" /\ UNCHANGED at
       ELSE IF at < Total
       THEN inst' = "unzip" /\ at' = at + 1 /\ UNCHANGED stage
       ELSE inst' = "done" /\ UNCHANGED <<at, stage>>
    /\ UNCHANGED <<main, view, type, root, dl, fetched, unpacked, disk>>

\* SetStage(SUCCESS), whatever the stage has become meanwhile.
UnzipEnds ==
    /\ inst = "done"
    /\ stage' = "SUCCESS"
    /\ inst' = "ended"
    /\ UNCHANGED <<main, view, type, root, dl, at, fetched, unpacked, disk>>

ThreadStep ==
    /\ Fetch \/ FetchChecked \/ FetchEnds \/ Unzip \/ UnzipChecked \/ UnzipEnds
    /\ UNCHANGED given
LoopStep ==
    /\ Construct \/ StartInstalling \/ SetInstalling \/ Quit \/ Sudo \/ Finish
    /\ UNCHANGED given
Install == ClickInstall /\ UNCHANGED given
Cancel == ClickCancel /\ UNCHANGED given

Next == ThreadStep \/ LoopStep \/ Install \/ Cancel

Spec == Init /\ [][Next]_vars

\* The main loop and the threads go on, and the user answers the dialog;
\* nobody is obliged to cancel.
Fairness == WF_vars(ThreadStep) /\ WF_vars(LoopStep) /\ WF_vars(Install)

FairSpec == Spec /\ Fairness

-----------------------------------------------------------------------------
(* Properties.                                                              *)

\* Types of the variables; one of the two threads works at a time.
TypeOK ==
    /\ stage \in Stages
    /\ main \in {"begin", "loop", "starting", "end", "exited", "crashed"}
    /\ view \in {"none", "intro", "progress"}
    /\ type \in {"unknown", "homedir", "system"} /\ root \in BOOLEAN
    /\ dl \in {"none", "fetch", "check", "done", "error", "ended"}
    /\ inst \in {"none", "unzip", "check", "done", "ended"}
    /\ at \in 0..Total
    /\ fetched \subseteq Job /\ unpacked \subseteq Job
    /\ marker \in BOOLEAN /\ update \in BOOLEAN
    /\ inst # "none" => dl = "ended"

\* An archive whose download was aborted by the user is not unpacked.
OnlyCompleteArchives == unpacked \subseteq fetched

\* The run keeps its promise to the boot loader (see Installation): what counts
\* is that unzip was run, whatever it could unpack.
Promise == INSTANCE Installation WITH
    total <- Total,
    terminal <- given.terminal,
    unpacked <- Cardinality(unpacked),
    result <- IF main = "exited" /\ stage # "SUCCESS" THEN "stopped"
              ELSE IF main \in {"end", "exited"} /\ stage = "SUCCESS" THEN "success"
              ELSE IF main = "crashed"
              THEN (IF stage = "SUCCESS" THEN "success" ELSE "stopped")
              ELSE "running"

\* Every step is a step of Installation: packages are unzipped in order, the run
\* succeeds only when all were, unless it became root in a terminal, and only when
\* it succeeds the disk is marked so.
KeepsPromise == Promise!Spec

\* Somebody will still look at the stage and act on it, or has ended the run.
Unheard ==
    \/ stage = "CANCEL_REQUEST" /\ dl \in {"none", "ended"} /\ inst \in {"none", "ended"}
    \/ stage = "INSTALLING" /\ inst = "ended"

\* The installer ends, also when it has to run itself again as root, unless a
\* stage was overwritten that nobody looks for any more: then it shows its
\* progress bar for ever.
EndsUnlessUnheard == (main # "begin") ~> (main \in {"exited", "crashed"} \/ Unheard)
=============================================================================
