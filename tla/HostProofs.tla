------------------------------ MODULE HostProofs ------------------------------
(***************************************************************************)
(* Theorems about what an application goes through until it runs.  Of      *)
(* Installer, for any number of packages: an archive that was not          *)
(* downloaded completely is not unpacked, and the installer keeps the      *)
(* promise of Installation.  Of Boot, which relies on it, for every finite *)
(* set of components, whatever the manifests ask for and whatever is on    *)
(* disk at the start.  Of Dependencies, for any versions and directories:  *)
(* which component is taken.  Of Modules, for any libraries and scripts.   *)
(***************************************************************************)
EXTENDS Host, FiniteSetTheorems, SequenceTheorems, TLAPS

(***************************************************************************)
(* The installer.                                                          *)
(***************************************************************************)
Given ==
    [components : 0..MaxComponents, update : BOOLEAN, writable : BOOLEAN, terminal : BOOLEAN]

Typed == given \in Given /\ TypeOK

(***************************************************************************)
(* The inductive invariant: which stages are possible, and what has been   *)
(* done, before the download, while it runs, after it, while packages are  *)
(* unpacked, and when that has ended; that a success without a run of      *)
(* unzip on every package takes a terminal.                                *)
(***************************************************************************)
Before ==
    dl = "none" =>
        /\ inst = "none" /\ fetched = {} /\ unpacked = {} /\ main # "starting"
        /\ stage \notin {"DOWNLOADING", "PREINSTALL", "INSTALLING"}
        /\ stage = "SUCCESS" =>
              /\ Total = 0 \/ given.terminal
              /\ main = "loop" => view # "intro"
        /\ main = "begin" => stage = "PREDOWNLOAD"

\* The constructor and the button are over when the download begins.
Once == main = "begin" \/ view = "intro" => dl = "none"

\* Unless the user has cancelled, every archive up to the current one is
\* complete; a thread that has come to its end without that has all of them.
Downloading ==
    dl \in {"fetch", "check", "done", "error"} =>
        /\ inst = "none" /\ unpacked = {} /\ main = "loop" /\ at \in 1..Total
        /\ stage \in {"DOWNLOADING", "CANCEL_REQUEST"}
        /\ dl = "fetch" /\ stage = "DOWNLOADING" => 1..(at - 1) \subseteq fetched
        /\ dl = "check" /\ stage = "DOWNLOADING" => 1..at \subseteq fetched
        /\ dl = "done" => Job \subseteq fetched

Downloaded ==
    dl = "ended" /\ inst = "none" =>
        /\ unpacked = {} /\ at \in 1..Total
        /\ main \notin {"begin", "starting"}
        /\ \/ stage \in {"PREINSTALL", "CANCEL_REQUEST", "ERROR", "CANCELLED"}
           \/ stage = "SUCCESS" /\ given.terminal
        /\ stage = "PREINSTALL" => Job \subseteq fetched

\* The stage is PREINSTALL until the main loop, which starts the thread, is back.
Unpacking ==
    inst \in {"unzip", "check", "done"} =>
        /\ main \in {"loop", "starting"} /\ at \in 1..Total /\ Job \subseteq fetched
        /\ stage \in {"PREINSTALL", "INSTALLING", "CANCEL_REQUEST"}
        /\ stage = "PREINSTALL" => main = "starting"
        /\ inst = "unzip" => unpacked = 1..(at - 1)
        /\ inst # "unzip" => unpacked = 1..at
        /\ inst = "done" => at = Total

Unpacked ==
    inst = "ended" =>
        /\ Job \subseteq fetched
        /\ stage \in {"SUCCESS", "CANCELLED", "CANCEL_REQUEST", "INSTALLING"}
        /\ stage = "SUCCESS" => unpacked = Job \/ given.terminal

Inv == Typed /\ Before /\ Once /\ Downloading /\ Downloaded /\ Unpacking /\ Unpacked

\* The jobs are numbered through.
LEMMA Jobs ==
    ASSUME given \in Given
    PROVE  Total \in Nat /\ Job = 1..Total
<1> DEFINE n == given.components + (IF given.update THEN 1 ELSE 0)
<1>1. n \in Nat
      BY InstallerAssumption DEF Given
<1>2. Job = 1..n
      BY DEF Job
<1>3. Cardinality(1..n) = n
      BY <1>1, FS_Interval
<1> QED BY <1>1, <1>2, <1>3 DEF Total

\* The first n jobs are n.
LEMMA FirstJobs ==
    ASSUME NEW n \in Nat
    PROVE  Cardinality(1..n) = n
  BY FS_Interval

-----------------------------------------------------------------------------
(* Types.                                                                    *)

\* Initially ...
LEMMA TypeInit == Init => Typed
<1> SUFFICES ASSUME Init PROVE Typed
    OBVIOUS
<1>1. given \in Given /\ given.update \in BOOLEAN
      BY DEF Init, Given
<1>2. Total \in Nat
      BY <1>1, Jobs
<1>3. root \in BOOLEAN /\ marker \in BOOLEAN /\ update \in BOOLEAN
      BY <1>1 DEF Init
<1> QED BY <1>1, <1>2, <1>3 DEF Init, Typed, TypeOK, Stages

\* ... and in every step; that one thread works at a time takes the invariant.
LEMMA TypeNext == Inv /\ [Next]_vars => Typed'
<1> SUFFICES ASSUME Inv, [Next]_vars PROVE Typed'
    OBVIOUS
<1> USE DEF threads, disk
<1>0. given' = given /\ Total' = Total /\ Job' = Job
  <2>1. given' = given
        BY DEF Next, ThreadStep, LoopStep, Install, Cancel, vars
  <2> QED BY <2>1 DEF Total, Job
<1>1. Total \in Nat /\ Job = 1..Total /\ given \in Given /\ TypeOK
      BY Jobs DEF Inv, Typed
<1>2. ASSUME StartDownloading PROVE
         /\ stage' \in Stages /\ main' = "loop" /\ view' \in {"none", "progress"}
         /\ dl' \in {dl, "fetch"} /\ at' \in 0..Total
      BY <1>1, <1>2 DEF StartDownloading, TypeOK, Stages
<1>3. CASE Construct
  <2>1. (dl' = dl /\ at' = at /\ stage' \in Stages /\ main' \in {"end", "loop"}
            /\ view' \in {view, "intro"})
        \/ StartDownloading
        BY <1>1, <1>3 DEF Construct, TypeOK, Stages
  <2>2. inst = "none"
        BY <1>3 DEF Construct, Inv, Once, Before
  <2> QED BY <1>0, <1>1, <1>2, <1>3, <2>1, <2>2 DEF Construct, TypeOK, Typed
<1>4. CASE ClickInstall
  <2>1. (dl' = dl /\ at' = at /\ stage' \in Stages /\ main' \in {"end", "crashed"}
            /\ view' \in {view, "none"})
        \/ StartDownloading
        BY <1>1, <1>4 DEF ClickInstall, TakeOver, TypeOK, Stages
  <2>2. inst = "none"
        BY <1>4 DEF ClickInstall, Inv, Once, Before
  <2>3. type' \in {"unknown", "homedir", "system"} /\ root' \in BOOLEAN
        BY <1>1, <1>4 DEF ClickInstall, InstallType, TypeOK
  <2> QED BY <1>0, <1>1, <1>2, <1>4, <2>1, <2>2, <2>3 DEF ClickInstall, TypeOK, Typed
<1>5. CASE ClickCancel
      BY <1>0, <1>1, <1>5 DEF ClickCancel, TypeOK, Typed, Stages
<1>6. CASE StartInstalling
  <2>1. 1 \in 0..Total /\ dl = "ended"
        BY <1>1, <1>6 DEF StartInstalling, Inv, Downloaded, Unpacking, Unpacked, TypeOK
  <2> QED BY <1>0, <1>1, <1>6, <2>1 DEF StartInstalling, TypeOK, Typed
<1>7. CASE SetInstalling \/ Quit
      BY <1>0, <1>1, <1>7 DEF SetInstalling, Quit, TypeOK, Typed, Stages
<1>8. CASE Sudo
      BY <1>0, <1>1, <1>8 DEF Sudo, TakeOver, TypeOK, Typed, Stages
<1>9. CASE Finish
  <2>1. marker' \in BOOLEAN /\ update' \in BOOLEAN /\ root' \in BOOLEAN
        BY <1>1, <1>9 DEF Finish, TypeOK
  <2>2. stage' \in Stages
        BY <1>1, <1>9 DEF Finish, TakeOver, TypeOK, Stages
  <2> QED BY <1>0, <1>1, <1>9, <2>1, <2>2 DEF Finish, TypeOK, Typed
<1>10. CASE Fetch \/ FetchChecked \/ FetchEnds
  <2>1. at \in Job /\ inst = "none"
        BY <1>1, <1>10 DEF Fetch, FetchChecked, FetchEnds, Inv, Downloading
  <2>2. stage' \in Stages /\ dl' \in {"fetch", "check", "done", "error", "ended"}
        BY <1>1, <1>10 DEF Fetch, FetchChecked, FetchEnds, TypeOK, Stages
  <2>3. at' \in 0..Total
        BY <1>1, <1>10, <2>1 DEF Fetch, FetchChecked, FetchEnds
  <2>4. fetched' \subseteq Job
        BY <1>1, <1>10, <2>1 DEF Fetch, FetchChecked, FetchEnds, TypeOK
  <2>5. UNCHANGED <<main, view, type, root, inst, unpacked, marker, update>>
        BY <1>10 DEF Fetch, FetchChecked, FetchEnds
  <2> QED BY <1>0, <1>1, <2>1, <2>2, <2>3, <2>4, <2>5 DEF TypeOK, Typed
<1>11. CASE Unzip \/ UnzipChecked \/ UnzipEnds
  <2>1. at \in Job /\ dl = "ended"
        BY <1>1, <1>11 DEF Unzip, UnzipChecked, UnzipEnds, Inv, Unpacking, TypeOK
  <2>2. stage' \in Stages /\ inst' \in {"unzip", "check", "done", "ended"}
        BY <1>1, <1>11 DEF Unzip, UnzipChecked, UnzipEnds, TypeOK, Stages
  <2>3. at' \in 0..Total
        BY <1>1, <1>11, <2>1 DEF Unzip, UnzipChecked, UnzipEnds
  <2>4. unpacked' \subseteq Job
        BY <1>1, <1>11, <2>1 DEF Unzip, UnzipChecked, UnzipEnds, TypeOK
  <2>5. UNCHANGED <<main, view, type, root, dl, fetched, marker, update>>
        BY <1>11 DEF Unzip, UnzipChecked, UnzipEnds
  <2> QED BY <1>0, <1>1, <2>1, <2>2, <2>3, <2>4, <2>5 DEF TypeOK, Typed
<1>12. CASE UNCHANGED vars
      BY <1>0, <1>1, <1>12 DEF vars, TypeOK, Typed
<1> QED BY <1>3, <1>4, <1>5, <1>6, <1>7, <1>8, <1>9, <1>10, <1>11, <1>12
        DEF Next, ThreadStep, LoopStep, Install, Cancel

-----------------------------------------------------------------------------
(* The invariant.                                                            *)

\* Nothing has been done yet at the start.
LEMMA InvInit == Init => Inv
<1> SUFFICES ASSUME Init PROVE Inv
    OBVIOUS
<1> QED BY TypeInit DEF Init, Inv, Before, Once, Downloading, Downloaded, Unpacking, Unpacked

\* The download begins, from the constructor or the button.
LEMMA StartOK ==
    ASSUME Inv, Typed', given' = given, StartDownloading, dl = "none",
           UNCHANGED <<inst, fetched, unpacked>>
    PROVE  Inv'
<1>1. Total' = Total /\ Job' = Job /\ Total \in Nat /\ Job = 1..Total
      BY Jobs DEF Inv, Typed, Total, Job
<1>2. inst = "none" /\ fetched = {} /\ unpacked = {}
      BY DEF Inv, Before
<1>3. CASE Job = {}
  <2>1. Total = 0
        BY <1>1, <1>3
  <2>2. stage' = "SUCCESS" /\ main' = "loop" /\ view' = "none" /\ dl' = "none"
        BY <1>3 DEF StartDownloading
  <2> QED BY <1>1, <1>2, <2>1, <2>2
          DEF Inv, Before, Once, Downloading, Downloaded, Unpacking, Unpacked
<1>4. CASE Job # {}
  <2>1. 1 \in 1..Total /\ 1..(1 - 1) = {}
        BY <1>1, <1>4
  <2>2. stage' = "DOWNLOADING" /\ main' = "loop" /\ view' = "progress" /\ dl' = "fetch" /\ at' = 1
        BY <1>4 DEF StartDownloading
  <2> QED BY <1>1, <1>2, <2>1, <2>2
          DEF Inv, Before, Once, Downloading, Downloaded, Unpacking, Unpacked
<1> QED BY <1>3, <1>4

\* The main thread.
LEMMA MainOK ==
    ASSUME Inv, Typed', LoopStep \/ Install \/ Cancel
    PROVE  Inv'
<1> USE DEF threads, disk
<1>0. given' = given
      BY DEF LoopStep, Install, Cancel
<1>1. Total' = Total /\ Job' = Job /\ Total \in Nat /\ Job = 1..Total
      BY <1>0, Jobs DEF Inv, Typed, Total, Job
<1>2. CASE Construct
  <2>1. dl = "none"
        BY <1>2 DEF Construct, Inv, Once
  <2>2. CASE StartDownloading
        BY <1>0, <1>2, <2>1, <2>2, StartOK DEF Construct
  <2>3. CASE ~StartDownloading
    <3>1. /\ UNCHANGED <<dl, at, inst, fetched, unpacked>>
          /\ stage' \in {stage, "SUDO_REQUEST"} /\ main' \in {"loop", "end"}
          /\ stage = "PREDOWNLOAD"
          BY <1>2, <2>1, <2>3 DEF Construct, Inv, Before
    <3> QED BY <1>1, <2>1, <3>1
            DEF Inv, Before, Once, Downloading, Downloaded, Unpacking, Unpacked
  <2> QED BY <2>2, <2>3
<1>3. CASE ClickInstall
  <2>1. dl = "none"
        BY <1>3 DEF ClickInstall, Inv, Once
  <2>2. CASE StartDownloading
        BY <1>0, <1>3, <2>1, <2>2, StartOK DEF ClickInstall
  <2>3. CASE ~StartDownloading
    <3>1. /\ UNCHANGED <<dl, at, inst, fetched, unpacked>>
          /\ \/ stage' \in {stage, "SUDO_REQUEST", "ERROR"}
             \/ stage' = "SUCCESS" /\ given.terminal
          /\ main' \in {"crashed", "end"} /\ stage # "SUCCESS"
          BY <1>3, <2>1, <2>3 DEF ClickInstall, TakeOver, Inv, Before
    <3> QED BY <1>0, <1>1, <2>1, <3>1
            DEF Inv, Before, Once, Downloading, Downloaded, Unpacking, Unpacked
  <2> QED BY <2>2, <2>3
<1>4. CASE ClickCancel
  <2>1. UNCHANGED <<dl, at, inst, fetched, unpacked>> /\ main = "loop" /\ view' \in {view, "none"}
        BY <1>4 DEF ClickCancel
  <2>2. \/ stage = "PREDOWNLOAD" /\ stage' = "CANCELLED" /\ main' = "end"
        \/ stage' = "CANCEL_REQUEST" /\ main' = "loop"
        BY <1>4 DEF ClickCancel
  <2> QED BY <1>1, <2>1, <2>2
          DEF Inv, Before, Once, Downloading, Downloaded, Unpacking, Unpacked
<1>5. CASE StartInstalling
  <2>1. /\ stage = "PREINSTALL" /\ dl = "ended" /\ inst' = "unzip" /\ at' = 1 /\ main' = "starting"
        /\ UNCHANGED <<stage, view, dl, fetched, unpacked>>
        BY <1>5 DEF StartInstalling
  <2>2. inst = "none" /\ main = "loop"
        BY <1>5, <2>1 DEF StartInstalling, Inv, Typed, TypeOK, Unpacking, Unpacked
  <2>3. unpacked = 1..(1 - 1) /\ 1 \in 1..Total /\ Job \subseteq fetched /\ view # "intro"
        BY <1>1, <2>1, <2>2 DEF Inv, Downloaded, Once
  <2> QED BY <1>1, <2>1, <2>3
          DEF Inv, Before, Once, Downloading, Downloaded, Unpacking, Unpacked
<1>6. CASE SetInstalling
  <2>1. /\ main = "starting" /\ stage' = "INSTALLING" /\ main' = "loop"
        /\ UNCHANGED <<view, dl, inst, at, fetched, unpacked>>
        BY <1>6 DEF SetInstalling
  <2>2. inst # "none"
        BY <2>1 DEF Inv, Before, Downloading, Downloaded, Typed, TypeOK
  <2> QED BY <1>1, <2>1, <2>2
          DEF Inv, Before, Once, Downloading, Downloaded, Unpacking, Unpacked, Typed, TypeOK
<1>7. CASE Quit \/ Finish
  <2>1. /\ main' \in {"end", "exited", "crashed"}
        /\ UNCHANGED <<view, dl, inst, at, fetched, unpacked>>
        /\ \/ main = "end" /\ stage' = "SUCCESS" /\ given.terminal
           \/ main = "end" /\ stage' = stage
           \/ stage \in {"ERROR", "CANCELLED", "SUCCESS"} /\ stage' = stage
        BY <1>7 DEF Quit, Finish, TakeOver
  <2> QED BY <1>0, <1>1, <2>1
          DEF Inv, Before, Once, Downloading, Downloaded, Unpacking, Unpacked
<1>8. CASE Sudo
  <2>1. /\ stage = "SUDO_REQUEST"
        /\ \/ main' = "begin" /\ stage' = "PREDOWNLOAD"
           \/ main' = "end" /\ stage' = "ERROR"
           \/ main' = "end" /\ stage' = "SUCCESS" /\ given.terminal
        /\ UNCHANGED <<view, dl, inst, at, fetched, unpacked>>
        BY <1>8 DEF Sudo, TakeOver
  <2>2. dl = "none"
        BY <2>1 DEF Inv, Downloading, Downloaded, Unpacking, Unpacked, Typed, TypeOK
  <2> QED BY <1>0, <1>1, <2>1, <2>2
          DEF Inv, Before, Once, Downloading, Downloaded, Unpacking, Unpacked
<1> QED BY <1>2, <1>3, <1>4, <1>5, <1>6, <1>7, <1>8 DEF LoopStep, Install, Cancel

\* The thread that downloads ...
LEMMA FetchOK ==
    ASSUME Inv, Typed', Fetch \/ FetchChecked \/ FetchEnds, given' = given
    PROVE  Inv'
<1> USE DEF disk
<1>1. Total' = Total /\ Job' = Job /\ Total \in Nat /\ Job = 1..Total
      BY Jobs DEF Inv, Typed, Total, Job
<1>2. /\ dl \in {"fetch", "check", "done", "error"} /\ dl' # "none"
      /\ UNCHANGED <<main, view, inst, unpacked>>
      BY DEF Fetch, FetchChecked, FetchEnds
<1>3. /\ inst = "none" /\ unpacked = {} /\ main = "loop" /\ at \in 1..Total
      /\ stage \in {"DOWNLOADING", "CANCEL_REQUEST"} /\ view # "intro"
      BY <1>2 DEF Inv, Downloading, Once
<1>4. Before' /\ Once' /\ Unpacking' /\ Unpacked'
      BY <1>2, <1>3 DEF Before, Once, Unpacking, Unpacked
<1>5. CASE Fetch
  <2>1. dl' \in {"check", "error"} /\ UNCHANGED <<stage, at>>
        /\ (dl' = "check" /\ stage = "DOWNLOADING" => dl = "fetch" /\ fetched' = fetched \cup {at})
        BY <1>5, <1>3 DEF Fetch
  <2>2. dl' = "check" /\ stage = "DOWNLOADING" => 1..at \subseteq fetched'
        BY <1>3, <2>1 DEF Inv, Downloading
  <2>3. Downloading' /\ Downloaded'
        BY <1>1, <1>2, <1>3, <2>1, <2>2 DEF Downloading, Downloaded
  <2> QED BY <1>4, <2>3 DEF Inv
<1>6. CASE FetchChecked
  <2>1. dl = "check" /\ fetched' = fetched
        BY <1>6 DEF FetchChecked
  <2>2. CASE stage = "CANCEL_REQUEST"
    <3>1. stage' = "CANCELLED" /\ dl' = "ended" /\ at' = at
          BY <1>6, <2>2 DEF FetchChecked
    <3>2. Downloading' /\ Downloaded'
          BY <1>1, <1>2, <1>3, <3>1 DEF Downloading, Downloaded
    <3> QED BY <1>4, <3>2 DEF Inv
  <2>3. CASE stage # "CANCEL_REQUEST" /\ at < Total
    <3>1. stage' = stage /\ dl' = "fetch" /\ at' = at + 1
          BY <1>6, <2>3 DEF FetchChecked
    <3>2. 1..at \subseteq fetched
          BY <1>3, <2>1, <2>3 DEF Inv, Downloading
    <3>3. at' \in 1..Total /\ 1..(at' - 1) = 1..at
          BY <1>1, <1>3, <2>3, <3>1
    <3>4. Downloading' /\ Downloaded'
          BY <1>1, <1>2, <1>3, <2>1, <3>1, <3>2, <3>3 DEF Downloading, Downloaded
    <3> QED BY <1>4, <3>4 DEF Inv
  <2>4. CASE stage # "CANCEL_REQUEST" /\ ~(at < Total)
    <3>1. stage' = stage /\ dl' = "done" /\ at' = at
          BY <1>6, <2>4 DEF FetchChecked
    <3>2. at = Total /\ 1..at \subseteq fetched
          BY <1>1, <1>3, <2>1, <2>4 DEF Inv, Downloading
    <3>3. Downloading' /\ Downloaded'
          BY <1>1, <1>2, <1>3, <2>1, <3>1, <3>2 DEF Downloading, Downloaded
    <3> QED BY <1>4, <3>3 DEF Inv
  <2> QED BY <2>2, <2>3, <2>4
<1>7. CASE FetchEnds
  <2>1. /\ dl' = "ended" /\ stage' \in {"PREINSTALL", "ERROR"} /\ UNCHANGED <<at, fetched>>
        /\ stage' = "PREINSTALL" => dl = "done"
        BY <1>7 DEF FetchEnds
  <2>2. Downloading' /\ Downloaded'
        BY <1>1, <1>2, <1>3, <2>1 DEF Inv, Downloading, Downloaded
  <2> QED BY <1>4, <2>2 DEF Inv
<1> QED BY <1>5, <1>6, <1>7

\* ... and the one that unpacks.
LEMMA UnzipOK ==
    ASSUME Inv, Typed', Unzip \/ UnzipChecked \/ UnzipEnds, given' = given
    PROVE  Inv'
<1> USE DEF disk
<1>1. Total' = Total /\ Job' = Job /\ Total \in Nat /\ Job = 1..Total
      BY Jobs DEF Inv, Typed, Total, Job
<1>2. /\ inst \in {"unzip", "check", "done"} /\ inst' # "none"
      /\ UNCHANGED <<main, view, dl, fetched>>
      BY DEF Unzip, UnzipChecked, UnzipEnds
<1>3. /\ dl = "ended" /\ main \in {"loop", "starting"} /\ at \in 1..Total /\ Job \subseteq fetched
      /\ stage \in {"PREINSTALL", "INSTALLING", "CANCEL_REQUEST"}
      /\ stage = "PREINSTALL" => main = "starting"
      BY <1>2 DEF Inv, Unpacking, Typed, TypeOK
<1>4. Before' /\ Once' /\ Downloading' /\ Downloaded'
      BY <1>2, <1>3 DEF Inv, Before, Once, Downloading, Downloaded
<1>5. CASE Unzip
  <2>1. inst = "unzip" /\ inst' = "check" /\ unpacked' = unpacked \cup {at} /\ UNCHANGED <<stage, at>>
        BY <1>5 DEF Unzip
  <2>2. unpacked' = 1..at
        BY <1>3, <2>1 DEF Inv, Unpacking
  <2>3. Unpacking' /\ Unpacked'
        BY <1>1, <1>2, <1>3, <2>1, <2>2 DEF Unpacking, Unpacked
  <2> QED BY <1>4, <2>3 DEF Inv
<1>6. CASE UnzipChecked
  <2>1. inst = "check" /\ unpacked' = unpacked /\ unpacked = 1..at
        BY <1>6 DEF UnzipChecked, Inv, Unpacking
  <2>2. CASE stage = "CANCEL_REQUEST"
    <3>1. stage' = "CANCELLED" /\ inst' = "ended"
          BY <1>6, <2>2 DEF UnzipChecked
    <3>2. Unpacking' /\ Unpacked'
          BY <1>1, <1>2, <1>3, <3>1 DEF Unpacking, Unpacked
    <3> QED BY <1>4, <3>2 DEF Inv
  <2>3. CASE stage # "CANCEL_REQUEST" /\ at < Total
    <3>1. stage' = stage /\ inst' = "unzip" /\ at' = at + 1
          BY <1>6, <2>3 DEF UnzipChecked
    <3>2. at' \in 1..Total /\ 1..(at' - 1) = 1..at
          BY <1>1, <1>3, <2>3, <3>1
    <3>3. Unpacking' /\ Unpacked'
          BY <1>1, <1>2, <1>3, <2>1, <3>1, <3>2 DEF Unpacking, Unpacked
    <3> QED BY <1>4, <3>3 DEF Inv
  <2>4. CASE stage # "CANCEL_REQUEST" /\ ~(at < Total)
    <3>1. stage' = stage /\ inst' = "done" /\ at' = at
          BY <1>6, <2>4 DEF UnzipChecked
    <3>2. at = Total
          BY <1>1, <1>3, <2>4
    <3>3. Unpacking' /\ Unpacked'
          BY <1>1, <1>2, <1>3, <2>1, <3>1, <3>2 DEF Unpacking, Unpacked
    <3> QED BY <1>4, <3>3 DEF Inv
  <2> QED BY <2>2, <2>3, <2>4
<1>7. CASE UnzipEnds
  <2>1. inst = "done" /\ inst' = "ended" /\ stage' = "SUCCESS" /\ unpacked' = unpacked
        BY <1>7 DEF UnzipEnds
  <2>2. unpacked = Job
        BY <1>1, <2>1 DEF Inv, Unpacking
  <2>3. Unpacking' /\ Unpacked'
        BY <1>1, <1>2, <1>3, <2>1, <2>2 DEF Unpacking, Unpacked
  <2> QED BY <1>4, <2>3 DEF Inv
<1> QED BY <1>5, <1>6, <1>7

\* The invariant holds in every reachable state.
LEMMA Invariance == Spec => []Inv
<1>1. Inv /\ [Next]_vars => Inv'
  <2> SUFFICES ASSUME Inv, [Next]_vars PROVE Inv'
      OBVIOUS
  <2>1. Typed'
        BY TypeNext
  <2>2. CASE LoopStep \/ Install \/ Cancel
        BY <2>1, <2>2, MainOK
  <2>3. CASE ThreadStep
        BY <2>1, <2>3, FetchOK, UnzipOK DEF ThreadStep
  <2>4. CASE UNCHANGED vars
    <3>1. UNCHANGED <<given, stage, main, view, dl, inst, at, fetched, unpacked>>
          BY <2>4 DEF vars, threads
    <3> QED BY <2>1, <3>1 DEF Inv, Before, Once, Downloading, Downloaded, Unpacking, Unpacked,
                              Total, Job
  <2> QED BY <2>2, <2>3, <2>4 DEF Next
<1> QED BY <1>1, InvInit, PTL DEF Spec

-----------------------------------------------------------------------------
(* What follows from the invariant.                                          *)

\* The types hold for any number of packages.
THEOREM TypeCorrect == Spec => []TypeOK
<1>1. Inv => TypeOK
      BY DEF Inv, Typed
<1> QED BY <1>1, Invariance, PTL

\* An archive whose download was aborted, at whichever moment the user
\* cancelled, is never unpacked.
THEOREM AbortedIsNotUnpacked == Spec => []OnlyCompleteArchives
<1>1. Inv => OnlyCompleteArchives
  <2> SUFFICES ASSUME Inv PROVE unpacked \subseteq fetched
      BY DEF OnlyCompleteArchives
  <2>1. unpacked \subseteq Job
        BY DEF Inv, Typed, TypeOK
  <2>2. CASE inst = "none"
        BY <2>2 DEF Inv, Typed, TypeOK, Before, Downloading, Downloaded
  <2>3. CASE inst # "none"
        BY <2>1, <2>3 DEF Inv, Typed, TypeOK, Unpacking, Unpacked
  <2> QED BY <2>2, <2>3
<1> QED BY <1>1, Invariance, PTL

\* How far the run is, for Installation.
Result ==
    IF main = "exited" /\ stage # "SUCCESS" THEN "stopped"
    ELSE IF main \in {"end", "exited"} /\ stage = "SUCCESS" THEN "success"
    ELSE IF main = "crashed" THEN (IF stage = "SUCCESS" THEN "success" ELSE "stopped")
    ELSE "running"

Count == Cardinality(unpacked)

\* When the stage is SUCCESS, unzip was run on all packages, unless there is only
\* a terminal to become root in.
LEMMA AllUnpacked ==
    ASSUME Inv, stage = "SUCCESS", ~given.terminal
    PROVE  Cardinality(unpacked) = Total
<1>1. Total \in Nat /\ Job = 1..Total
      BY Jobs DEF Inv, Typed
<1>2. CASE dl = "none"
      BY <1>2, FS_EmptySet DEF Inv, Before
<1>3. CASE dl # "none"
  <2>1. inst = "ended"
        BY <1>3 DEF Inv, Typed, TypeOK, Downloading, Downloaded, Unpacking
  <2>2. unpacked = 1..Total
        BY <1>1, <2>1 DEF Inv, Unpacked
  <2> QED BY <1>1, <2>2, FirstJobs
<1> QED BY <1>2, <1>3

\* A step of the main thread.
LEMMA MainKeeps ==
    ASSUME Inv, LoopStep \/ Install \/ Cancel
    PROVE  Promise!Next \/ UNCHANGED Promise!vars
<1> USE DEF threads, disk
<1>1. Total' = Total /\ Count' = Count /\ given' = given
  <2>1. given' = given /\ unpacked' = unpacked
        BY DEF LoopStep, Install, Cancel, Construct, StartInstalling, SetInstalling, Quit, Sudo,
           Finish, ClickInstall, ClickCancel, StartDownloading
  <2> QED BY <2>1 DEF Total, Job, Count
<1>2. CASE Result' = Result /\ UNCHANGED <<marker, update>>
      BY <1>1, <1>2 DEF Promise!vars, Result, Count
<1>3. CASE Result = "running" /\ Result' = "stopped" /\ UNCHANGED <<marker, update>>
      BY <1>1, <1>3 DEF Promise!Next, Promise!Stop, Result, Count
<1>8. CASE /\ Result = "running" /\ Result' = "success" /\ given.terminal
           /\ UNCHANGED <<marker, update>>
      BY <1>1, <1>8 DEF Promise!Next, Promise!Succeed, Result, Count
<1>4. CASE Construct \/ StartInstalling \/ SetInstalling \/ ClickCancel
  <2>1. Result' = Result /\ UNCHANGED <<marker, update>>
        BY <1>4 DEF Construct, StartInstalling, SetInstalling, ClickCancel,
           StartDownloading, Result
  <2> QED BY <1>2, <2>1
<1>9. CASE Sudo
  <2>1. /\ Result = "running" /\ UNCHANGED <<marker, update>>
        /\ Result' = "running" \/ (Result' = "success" /\ given.terminal)
        BY <1>9 DEF Sudo, TakeOver, Result
  <2> QED BY <1>2, <1>8, <2>1
<1>5. CASE ClickInstall
  <2>1. Result = "running" /\ UNCHANGED <<marker, update>>
        BY <1>5 DEF ClickInstall, Result
  <2>2. CASE main' # "crashed"
    <3>1. Result' = "running" \/ (Result' = "success" /\ given.terminal)
          BY <1>5, <2>2 DEF ClickInstall, TakeOver, StartDownloading, Result
    <3> QED BY <1>2, <1>8, <2>1, <3>1
  <2>3. CASE main' = "crashed"
    <3>1. stage' = stage
          BY <1>5, <2>3 DEF ClickInstall, StartDownloading
    <3>2. stage # "SUCCESS"
          BY <1>5 DEF ClickInstall, Inv, Once, Before
    <3>3. Result' = "stopped"
          BY <2>3, <3>1, <3>2 DEF Result
    <3> QED BY <1>3, <2>1, <3>3
  <2> QED BY <2>2, <2>3
<1>6. CASE Quit
  <2>1. Result = "running" /\ main' = "end" /\ UNCHANGED <<stage, marker, update>>
        BY <1>6 DEF Quit, Result
  <2>2. CASE stage # "SUCCESS"
    <3>1. Result' = "running"
          BY <2>1, <2>2 DEF Result
    <3> QED BY <1>2, <2>1, <3>1
  <2>3. CASE stage = "SUCCESS"
    <3>1. Result' = "success"
          BY <2>1, <2>3 DEF Result
    <3>2. Count = Total \/ given.terminal
          BY <2>3, AllUnpacked DEF Count
    <3> QED BY <1>1, <2>1, <3>1, <3>2 DEF Promise!Next, Promise!Succeed, Result, Count
  <2> QED BY <2>2, <2>3
<1>7. CASE Finish
  <2>1. CASE stage # "SUCCESS"
    <3>1. /\ main = "end" /\ UNCHANGED <<marker, update>>
          /\ \/ main' \in {"end", "exited"} /\ stage' = stage
             \/ main' = "end" /\ stage' = "SUCCESS" /\ given.terminal
          BY <1>7, <2>1 DEF Finish, TakeOver
    <3>2. /\ Result = "running"
          /\ Result' \in {"running", "stopped"} \/ (Result' = "success" /\ given.terminal)
          BY <2>1, <3>1 DEF Result
    <3> QED BY <1>2, <1>3, <1>8, <3>1, <3>2
  <2>2. CASE stage = "SUCCESS"
    <3>1. /\ main = "end" /\ main' \in {"end", "exited", "crashed"} /\ stage' = stage
          /\ marker' \in {marker, TRUE} /\ update' \in {update, FALSE}
          BY <1>7, <2>2 DEF Finish, TakeOver
    <3>2. Result = "success" /\ Result' = "success"
          BY <2>2, <3>1 DEF Result
    <3> QED BY <1>1, <3>1, <3>2 DEF Promise!Next, Promise!Settle, Result, Count
  <2> QED BY <2>1, <2>2
<1> QED BY <1>4, <1>5, <1>6, <1>7, <1>9 DEF LoopStep, Install, Cancel

\* A step of one of the threads.
LEMMA ThreadKeeps ==
    ASSUME Inv, ThreadStep
    PROVE  Promise!Next \/ UNCHANGED Promise!vars
<1> USE DEF disk
<1>1. given' = given /\ Total' = Total /\ main' = main /\ UNCHANGED <<marker, update>>
      BY DEF ThreadStep, Fetch, FetchChecked, FetchEnds, Unzip, UnzipChecked, UnzipEnds, Total, Job
<1>2. main \in {"loop", "starting"}
      BY DEF ThreadStep, Fetch, FetchChecked, FetchEnds, Unzip, UnzipChecked, UnzipEnds,
         Inv, Downloading, Unpacking
<1>3. Result = "running" /\ Result' = "running"
      BY <1>1, <1>2 DEF Result
<1>4. CASE unpacked' = unpacked
  <2>1. Count' = Count
        BY <1>4 DEF Count
  <2> QED BY <1>1, <1>3, <2>1 DEF Promise!vars, Result, Count
<1>5. CASE Unzip
  <2>1. unpacked = 1..(at - 1) /\ unpacked' = unpacked \cup {at} /\ at \in 1..Total /\ Total \in Nat
        BY <1>5, Jobs DEF Unzip, Inv, Typed, Unpacking
  <2>2. unpacked' = 1..at /\ at \in Nat /\ at - 1 \in Nat
        BY <2>1
  <2>3. Count = at - 1 /\ Count' = at
        BY <2>1, <2>2, FirstJobs DEF Count
  <2>4. Count < Total /\ Count' = Count + 1
        BY <2>1, <2>2, <2>3
  <2> QED BY <1>1, <1>3, <2>4 DEF Promise!Next, Promise!Unpack, Result, Count
<1>6. CASE ~Unzip
  <2>1. unpacked' = unpacked
        BY <1>6 DEF ThreadStep, Fetch, FetchChecked, FetchEnds, UnzipChecked, UnzipEnds
  <2> QED BY <1>4, <2>1
<1> QED BY <1>5, <1>6

\* The installer implements Installation: whoever cancels, whatever fails and
\* whatever the run it makes as root, and the status it gets of it, come to.
THEOREM Promised == Spec => KeepsPromise
<1>1. Init => Total \in Nat /\ Promise!Begin(Total)
  <2> SUFFICES ASSUME Init PROVE Total \in Nat /\ Promise!Begin(Total)
      OBVIOUS
  <2>1. Total \in Nat
        BY Jobs DEF Init, Given
  <2>2. Cardinality(unpacked) = 0 /\ main = "begin"
        BY FS_EmptySet DEF Init
  <2> QED BY <2>1, <2>2 DEF Promise!Begin
<1>2. Inv /\ [Next]_vars => [Promise!Next]_(Promise!vars)
  <2> SUFFICES ASSUME Inv, [Next]_vars PROVE Promise!Next \/ UNCHANGED Promise!vars
      OBVIOUS
  <2>1. CASE UNCHANGED vars
        BY <2>1 DEF vars, threads, disk, Promise!vars, Total, Job
  <2> QED BY <2>1, MainKeeps, ThreadKeeps DEF Next
<1> QED BY <1>1, <1>2, Invariance, PTL DEF Spec, KeepsPromise, Promise!Spec

-----------------------------------------------------------------------------
(* The boot loader.                                                          *)

(***************************************************************************)
(* The inductive invariant: what the installer has been given and how far  *)
(* it has come agree with what is on disk or could not be unpacked (Work,  *)
(* which counts the rest of the list down), nothing is launched before its *)
(* dependencies are met (Met), and an update that is through without       *)
(* interruption has been taken off the disk (Through).                     *)
(***************************************************************************)
Waits ==
    /\ waiting \in {"new", "none"}
    /\ updating => app = "new"

Sdks == {Sdk, MobileSdk}

\* The list the installer was given: SDKs only or none; an SDK that is needed and
\* not there is in it, and so is all that is needed if no SDK is.
Listed ==
    /\ missing \cap Sdks # {} => missing \subseteq Sdks
    /\ needs[app] \cap Sdks \subseteq components \cup missing
    /\ missing \cap Sdks = {} => needs[app] \subseteq components \cup missing

\* What unzip leaves: a directory that was made before, whether it succeeds or
\* not; and all that the SDK supplies when it succeeds.
Got ==
    /\ missing \cap Sdks = {} => missing \cap failed \subseteq components
    /\ Sdk \in missing \cap components =>
          Sdk \in failed \/ Component \ {MobileSdk} \subseteq components

Rest == missing \ (components \cup failed)

Work ==
    pc = "install" =>
        /\ total = Cardinality(missing) + (IF updating THEN 1 ELSE 0)
        /\ Listed /\ Got
        /\ done <= Cardinality(missing) => Cardinality(Rest) = Cardinality(missing) - done
        /\ done > Cardinality(missing) =>
              Rest = {} /\ (files = app \/ "application" \in failed)
        /\ result = "success" => done = total \/ interrupted
        /\ result = "stopped" => interrupted

Met == pc \in {"launch", "running"} => needs[app] \subseteq components

Through == pc \in {"again", "launch"} /\ updating /\ ~interrupted => waiting = "none"

BootInv == Loader!TypeOK /\ Waits /\ Work /\ Met /\ Through

\* Cardinality as Boot sees it.
LEMMA SameCardinality == \A S : Loader!Cardinality(S) = Cardinality(S)
BY DEF Loader!Cardinality, Cardinality

\* Subsets of the components are finite.
LEMMA FiniteComponents ==
    ASSUME NEW S \in SUBSET Component
    PROVE  IsFiniteSet(S) /\ Cardinality(S) \in Nat /\ Cardinality(S) <= Cardinality(Component)
<1>1. IsFiniteSet(Component)
      BY BootAssumption
<1> QED BY <1>1, FS_Subset, FS_CardinalityType

\* When every component the installer was given has been counted, the directories
\* of all that the manifest in use asks for are there, but for the two cases that
\* an SDK makes.
Supplied(lost) ==
    needs[app] \subseteq components \/ lost \cap Sdks # {} \/ missing = {MobileSdk}

LEMMA AllSupplied ==
    ASSUME BootInv, pc = "install", done >= Cardinality(missing)
    PROVE  Rest = {} /\ Supplied(failed)
<1>1. missing \in SUBSET Component /\ needs[app] \in SUBSET Component /\ components \subseteq Component
      BY DEF BootInv, Loader!TypeOK
<1>2. Cardinality(missing) \in Nat /\ IsFiniteSet(Rest) /\ done \in Int
      BY <1>1, FiniteComponents DEF BootInv, Loader!TypeOK, Rest
<1>3. Rest = {}
  <2>1. CASE done = Cardinality(missing)
    <3>1. Cardinality(Rest) = 0
          BY <1>2, <2>1 DEF BootInv, Work
    <3> QED BY <1>2, <3>1, FS_EmptySet
  <2>2. CASE done > Cardinality(missing)
        BY <2>2 DEF BootInv, Work
  <2> QED BY <1>2, <2>1, <2>2
<1>4. Listed /\ Got
      BY DEF BootInv, Work
<1>5. CASE missing \cap Sdks = {}
      BY <1>3, <1>4, <1>5 DEF Rest, Listed, Got, Supplied
<1>6. CASE Sdk \in missing
      BY <1>1, <1>3, <1>4, <1>6 DEF Rest, Listed, Got, Supplied, Sdks
<1>7. CASE Sdk \notin missing /\ MobileSdk \in missing
  <2>1. MobileSdk \in missing \cap Sdks
        BY <1>7 DEF Sdks
  <2>2. missing \subseteq Sdks
        BY <1>4, <2>1 DEF Listed
  <2>3. missing = {MobileSdk}
        BY <1>7, <2>2 DEF Sdks
  <2> QED BY <1>3, <2>3 DEF Supplied
<1>8. missing \cap Sdks = {} \/ Sdk \in missing \/ MobileSdk \in missing
      BY DEF Sdks
<1> QED BY <1>3, <1>5, <1>6, <1>7, <1>8

\* Types.
LEMMA BootTypeInit == Loader!Init => Loader!TypeOK
<1> SUFFICES ASSUME Loader!Init PROVE Loader!TypeOK
    OBVIOUS
<1>1. Cardinality(Component) \in Nat
      BY FiniteComponents
<1>2. total = 0 /\ done = 0 /\ result = "running"
      BY DEF Loader!Init, Loader!Install!Begin
<1>3. updating \in BOOLEAN /\ interrupted \in BOOLEAN /\ marked \in BOOLEAN /\ failed = {}
      BY Zenon DEF Loader!Init
<1> QED BY SameCardinality, <1>1, <1>2, <1>3 DEF Loader!Init, Loader!TypeOK

\* ... and every step keeps them.
LEMMA BootTypeNext == Loader!TypeOK /\ [Loader!Next]_(Loader!vars) => Loader!TypeOK'
<1> SUFFICES ASSUME Loader!TypeOK, [Loader!Next]_(Loader!vars) PROVE Loader!TypeOK'
    OBVIOUS
<1> USE DEF Loader!disk, Loader!local, Loader!installer, Loader!history
<1>1. CASE Loader!FindUpdate /\ UNCHANGED needs
      BY <1>1 DEF Loader!FindUpdate, Loader!TypeOK
<1>2. CASE Loader!Resolve /\ UNCHANGED needs
  <2>1. Loader!ResolveDependencies \in SUBSET Component
        BY DEF Loader!TypeOK, Loader!ResolveDependencies
  <2>2. Loader!FilterForSDKInstall(Loader!ResolveDependencies) \in SUBSET Component
        BY <2>1 DEF Loader!FilterForSDKInstall
  <2>0. failed' = {} /\ interrupted' = FALSE
        BY <1>2 DEF Loader!Resolve
  <2>3. CASE pc' = "install"
    <3>1. missing' \in SUBSET Component /\ done' = 0 /\ result' = "running"
          /\ total' = Cardinality(missing') + (IF updating THEN 1 ELSE 0)
          BY SameCardinality, <1>2, <2>2, <2>3 DEF Loader!Resolve
    <3>2. Cardinality(missing') \in Nat /\ Cardinality(missing') <= Cardinality(Component)
          /\ Cardinality(Component) \in Nat
          BY <3>1, FiniteComponents
    <3>3. total' \in 0..Cardinality(Component) + 1 /\ done' \in 0..total'
          BY <3>1, <3>2
    <3> QED BY SameCardinality, <1>2, <2>0, <2>3, <3>1, <3>3 DEF Loader!Resolve, Loader!TypeOK
  <2>4. CASE pc' = "launch" /\ UNCHANGED <<missing, total, done, result>>
        BY <1>2, <2>0, <2>4 DEF Loader!Resolve, Loader!TypeOK
  <2>5. \/ pc' = "install"
        \/ pc' = "launch" /\ UNCHANGED <<missing, total, done, result>>
        BY <1>2 DEF Loader!Resolve
  <2> QED BY <2>3, <2>4, <2>5
<1>3. CASE Loader!Unpack /\ UNCHANGED needs
  <2>1. done' \in 0..total' /\ total' = total /\ result' = result
        BY <1>3, FiniteComponents DEF Loader!Unpack, Loader!Install!Unpack, Loader!TypeOK
  <2>2. /\ components' \subseteq Component /\ files' \in Loader!Version
        /\ failed' \subseteq Component \cup {"application"}
    <3>1. CASE Loader!UnzipComponent /\ UNCHANGED files
      <4>1. \A c \in missing : Loader!Supplies(c) \subseteq Component
            BY DEF Loader!Supplies, Loader!TypeOK
      <4> QED BY <3>1, <4>1 DEF Loader!UnzipComponent, Loader!TypeOK
    <3>2. CASE Loader!UnzipApplication /\ UNCHANGED components
          BY <3>2 DEF Loader!UnzipApplication, Loader!TypeOK
    <3> QED BY <1>3, <3>1, <3>2 DEF Loader!Unpack
  <2> QED BY <1>3, <2>1, <2>2 DEF Loader!Unpack, Loader!TypeOK
<1>4. CASE Loader!InstallerEnds /\ UNCHANGED needs
  <2>1. interrupted' \in BOOLEAN
    <3>1. interrupted' = (done < total) \/ interrupted' = TRUE
          BY <1>4, Zenon DEF Loader!InstallerEnds
    <3>2. done \in Int /\ total \in Int
          BY DEF Loader!TypeOK
    <3>3. (done < total) \in BOOLEAN
          BY <3>2
    <3> QED BY <3>1, <3>3, Zenon
  <2>2. pc' = pc /\ pc = "install" /\ total' = total /\ done' = done /\ result' \in {"success", "stopped"}
        BY <1>4 DEF Loader!InstallerEnds, Loader!Install!Succeed, Loader!Install!Stop
  <2>3. UNCHANGED <<components, files, waiting, marked, needs, app, updating, missing, failed>>
        BY <1>4 DEF Loader!InstallerEnds
  <2> QED BY <2>1, <2>2, <2>3 DEF Loader!TypeOK
<1>5. CASE Loader!Settle /\ UNCHANGED needs
      BY <1>5 DEF Loader!Settle, Loader!Install!Settle, Loader!TypeOK
<1>6. CASE Loader!Stopped /\ UNCHANGED needs
      BY <1>6 DEF Loader!Stopped, Loader!TypeOK
<1>7. CASE Loader!Again /\ UNCHANGED needs
      BY <1>7 DEF Loader!Again, Loader!TypeOK
<1>8. CASE Loader!Launch /\ UNCHANGED needs
      BY <1>8 DEF Loader!Launch, Loader!TypeOK
<1>9. CASE Loader!UserStep
      BY <1>9 DEF Loader!UserStep, Loader!InstallAppUpdate, Loader!StartAgain, Loader!TypeOK,
                  Loader!Version
<1>10. CASE UNCHANGED Loader!vars
      BY <1>10 DEF Loader!vars, Loader!TypeOK
<1> QED BY <1>1, <1>2, <1>3, <1>4, <1>5, <1>6, <1>7, <1>8, <1>9, <1>10
        DEF Loader!Next, Loader!BootStep

\* The types hold for every finite set of components.
THEOREM BootTypes == Loader!Spec => []Loader!TypeOK
  BY BootTypeInit, BootTypeNext, PTL DEF Loader!Spec

-----------------------------------------------------------------------------
(* The invariant.                                                            *)

\* Initially nothing is being installed and no update waits.
LEMMA BootInit == Loader!Init => BootInv
<1> SUFFICES ASSUME Loader!Init PROVE BootInv
    OBVIOUS
<1>1. pc = "start" /\ ~updating /\ waiting = "none"
      BY DEF Loader!Init
<1> QED BY <1>1, BootTypeInit DEF BootInv, Waits, Work, Met, Through

\* The installer starts with nothing unpacked, or the application is complete.
LEMMA ResolveOK ==
    ASSUME BootInv, Loader!TypeOK', Loader!Resolve, UNCHANGED needs
    PROVE  BootInv'
<1>1. /\ app' = app /\ updating' = updating /\ waiting' = waiting /\ components' = components
      /\ needs' = needs /\ failed' = {} /\ pc' \in {"install", "launch"}
      BY DEF Loader!Resolve, Loader!disk, Loader!local
<1>2. Waits'
      BY <1>1 DEF BootInv, Waits
<1>3. CASE pc' = "install"
  <2> DEFINE needed == Loader!ResolveDependencies
  <2>1. /\ missing' = Loader!FilterForSDKInstall(needed) /\ done' = 0 /\ result' = "running"
        /\ total' = Cardinality(missing') + (IF updating THEN 1 ELSE 0)
        BY SameCardinality, <1>3 DEF Loader!Resolve
  <2>2. /\ needed \in SUBSET Component /\ needed \cap components = {}
        /\ needs[app] \subseteq components \cup needed
        BY DEF Loader!ResolveDependencies, BootInv, Loader!TypeOK
  <2>3. \/ missing' = needed /\ needed \cap Sdks = {}
        \/ missing' = needed \cap Sdks /\ missing' # {}
        BY <2>1 DEF Loader!FilterForSDKInstall, Sdks
  <2>4. missing' \in SUBSET Component /\ missing' \cap components = {} /\ Cardinality(missing') \in Nat
        BY <2>2, <2>3, FiniteComponents
  <2>5. Listed' /\ Got'
    <3>1. Listed'
          BY <1>1, <2>2, <2>3 DEF Listed, Sdks
    <3>2. Got'
          BY <1>1, <2>4 DEF Got
    <3> QED BY <3>1, <3>2
  <2>6. total' = Cardinality(missing') + (IF updating' THEN 1 ELSE 0)
        BY <1>1, <2>1
  <2>7. Cardinality(Rest') = Cardinality(missing') - done' /\ ~(done' > Cardinality(missing'))
    <3>1. Rest' = missing'
          BY <1>1, <2>4 DEF Rest
    <3>2. Cardinality(Rest') = Cardinality(missing')
          BY <3>1
    <3>3. done' = 0
          BY <2>1
    <3> QED BY <2>4, <3>2, <3>3
  <2>8. Work'
        BY <2>1, <2>5, <2>6, <2>7 DEF Work
  <2> QED BY <1>2, <1>3, <2>8 DEF BootInv, Met, Through
<1>4. CASE pc' = "launch"
  <2>1. Loader!ResolveDependencies = {} /\ ~updating
        BY <1>4 DEF Loader!Resolve
  <2>2. needs[app] \subseteq components
        BY <2>1 DEF Loader!ResolveDependencies
  <2> QED BY <1>1, <1>2, <1>4, <2>1, <2>2 DEF BootInv, Work, Met, Through
<1> QED BY <1>1, <1>3, <1>4

\* Unzip on the archive of a component of a list as it is drawn up takes this one
\* from the rest, and no other.
LEMMA UnzipOneOK ==
    ASSUME missing \in SUBSET Component, Listed, Got, Loader!UnzipComponent,
           UNCHANGED <<missing, needs, app>>
    PROVE  Listed' /\ Got' /\ \E c \in Rest : Rest' = Rest \ {c}
<1>1. PICK c \in Rest :
         \/ components' = components \cup Loader!Supplies(c) /\ failed' = failed
         \/ /\ failed' = failed \cup {c}
            /\ \E some \in SUBSET Loader!Supplies(c) :
                  /\ c \notin Sdks => c \in some
                  /\ components' = components \cup some
      BY DEF Loader!UnzipComponent, Rest, Sdks
<1>2. PICK some \in SUBSET Loader!Supplies(c) :
         /\ components' = components \cup some
         /\ \/ some = Loader!Supplies(c) /\ failed' = failed
            \/ failed' = failed \cup {c} /\ (c \notin Sdks => c \in some)
      BY <1>1
<1>3. c \in missing /\ c \in Component /\ c \notin components
      BY DEF Rest
<1>4. /\ c = Sdk => Loader!Supplies(c) = Component \ {MobileSdk}
      /\ c # Sdk => Loader!Supplies(c) = {c}
      BY DEF Loader!Supplies
<1>5. c \in Loader!Supplies(c) /\ Loader!Supplies(c) \cap missing \subseteq {c}
      BY <1>3, <1>4, BootAssumption DEF Listed, Sdks
<1>6. Rest' = Rest \ {c}
      BY <1>2, <1>5 DEF Rest
<1>7. Listed'
      BY <1>2 DEF Listed
<1>8. Got'
  <2>1. missing \cap Sdks = {} => missing \cap failed' \subseteq components'
        BY <1>2, <1>3, <1>5 DEF Got
  <2>2. ASSUME Sdk \in missing, Sdk \in components'
        PROVE  Sdk \in failed' \/ Component \ {MobileSdk} \subseteq components'
    <3>1. CASE Sdk \in components
          BY <1>2, <2>2, <3>1 DEF Got
    <3>2. CASE Sdk \notin components
      <4>1. c = Sdk
            BY <1>2, <1>4, <2>2, <3>2
      <4> QED BY <1>2, <1>4, <4>1
    <3> QED BY <3>1, <3>2
  <2> QED BY <2>1, <2>2 DEF Got
<1> QED BY <1>6, <1>7, <1>8

\* Each package that is unpacked takes one from the rest; the application comes
\* when nothing is left.
LEMMA UnpackOK ==
    ASSUME BootInv, Loader!TypeOK', Loader!Unpack, UNCHANGED needs
    PROVE  BootInv'
<1>1. /\ pc = "install" /\ pc' = "install" /\ result = "running" /\ result' = "running"
      /\ done < total /\ done' = done + 1 /\ total' = total
      /\ app' = app /\ updating' = updating /\ missing' = missing /\ waiting' = waiting
      /\ needs' = needs
      BY DEF Loader!Unpack, Loader!Install!Unpack, Loader!local
<1>2. missing \in SUBSET Component /\ done \in Int /\ total \in Int
      BY DEF BootInv, Loader!TypeOK
<1>3. Cardinality(missing) \in Nat /\ IsFiniteSet(Rest)
      BY <1>2, FiniteComponents DEF Rest
<1>4. Listed /\ Got /\ total' = Cardinality(missing') + (IF updating' THEN 1 ELSE 0)
      BY <1>1 DEF BootInv, Work
<1>5. Work'
  <2>1. CASE done < Cardinality(missing)
    <3>1. Loader!UnzipComponent
          BY SameCardinality, <2>1 DEF Loader!Unpack
    <3>2. Listed' /\ Got' /\ \E c \in Rest : Rest' = Rest \ {c}
          BY <1>1, <1>2, <1>4, <3>1, UnzipOneOK
    <3>3. Cardinality(Rest') = Cardinality(Rest) - 1
          BY <1>3, <3>2, FS_RemoveElement
    <3>4. Cardinality(Rest) = Cardinality(missing) - done
          BY <1>1, <1>2, <1>3, <2>1 DEF BootInv, Work
    <3>5. Cardinality(Rest') = Cardinality(missing') - done' /\ ~(done' > Cardinality(missing'))
      <4>1. missing' = missing /\ done' = done + 1
            BY <1>1
      <4> QED BY <1>2, <1>3, <2>1, <3>3, <3>4, <4>1
    <3> QED BY <1>1, <1>4, <3>2, <3>5 DEF Work
  <2>2. CASE ~(done < Cardinality(missing))
    <3>1. /\ components' = components
          /\ \/ failed' = failed /\ files' = app
             \/ failed' = failed \cup {"application"}
          BY SameCardinality, <2>2 DEF Loader!Unpack, Loader!UnzipApplication
    <3>2. Rest = {}
          BY <1>1, <1>2, <1>3, <2>2, AllSupplied
    <3>3. "application" \notin missing
          BY <1>2, BootAssumption
    <3>4. Listed' /\ Got' /\ Rest' = {}
          BY <1>1, <1>4, <3>1, <3>2, <3>3 DEF Listed, Got, Rest
    <3>5. done' > Cardinality(missing') /\ ~(done' <= Cardinality(missing'))
          BY <1>1, <1>2, <1>3, <2>2
    <3> QED BY <1>1, <1>4, <3>1, <3>4, <3>5 DEF Work
  <2> QED BY <2>1, <2>2
<1> QED BY <1>1, <1>5 DEF BootInv, Waits, Met, Through

\* The invariant is kept by every step.
LEMMA BootNext == BootInv /\ [Loader!Next]_(Loader!vars) => BootInv'
<1> SUFFICES ASSUME BootInv, [Loader!Next]_(Loader!vars) PROVE BootInv'
    OBVIOUS
<1> USE DEF Loader!disk, Loader!local, Loader!installer, Loader!history
<1>0. Loader!TypeOK'
      BY BootTypeNext DEF BootInv
<1>1. CASE Loader!FindUpdate /\ UNCHANGED needs
      BY <1>0, <1>1 DEF Loader!FindUpdate, BootInv, Waits, Work, Met, Through
<1>2. CASE Loader!Resolve /\ UNCHANGED needs
      BY <1>0, <1>2, ResolveOK
<1>3. CASE Loader!Unpack /\ UNCHANGED needs
      BY <1>0, <1>3, UnpackOK
<1>4. CASE Loader!InstallerEnds /\ UNCHANGED needs
  <2>1. /\ pc' = "install" /\ UNCHANGED <<components, files, waiting, app, updating, missing,
                                          total, done, needs, failed>>
        /\ pc = "install" /\ result = "running"
        /\ result' = "success" => done >= total \/ interrupted'
        /\ result' = "stopped" => interrupted'
    <3>1. done \in Int /\ total \in Int
          BY DEF BootInv, Loader!TypeOK
    <3>2. /\ UNCHANGED <<components, files, waiting, pc, app, updating, missing, needs, failed>>
          /\ pc = "install"
          BY <1>4 DEF Loader!InstallerEnds
    <3>3. UNCHANGED <<total, done>> /\ result = "running"
          BY <1>4 DEF Loader!InstallerEnds, Loader!Install!Succeed, Loader!Install!Stop
    <3>4. \/ result' = "success" /\ (interrupted' <=> done < total)
          \/ result' = "stopped" /\ interrupted'
          BY <1>4, Zenon DEF Loader!InstallerEnds, Loader!Install!Succeed, Loader!Install!Stop
    <3>5. done >= total \/ done < total
          BY <3>1
    <3> QED BY <3>2, <3>3, <3>4, <3>5
  <2>2. done \in 0..total /\ total \in Nat
        BY DEF BootInv, Loader!TypeOK
  <2>3. Listed' = Listed /\ Got' = Got /\ Rest' = Rest
        BY <2>1 DEF Listed, Got, Rest
  <2>4. Work'
        BY <2>1, <2>2, <2>3 DEF BootInv, Work
  <2> QED BY <1>0, <2>1, <2>4 DEF BootInv, Waits, Met, Through
<1>5. CASE Loader!Settle /\ UNCHANGED needs
  <2>1. pc' = "again" /\ app' = app /\ updating' = updating /\ waiting' \in {waiting, "none"}
        /\ interrupted' = (interrupted \/ ~marked' \/ (updating /\ waiting' # "none"))
        BY <1>5 DEF Loader!Settle
  <2>2. Waits' /\ Through'
        BY <2>1 DEF BootInv, Waits, Through
  <2> QED BY <1>0, <2>1, <2>2 DEF BootInv, Work, Met
<1>6. CASE Loader!Stopped /\ UNCHANGED needs
      BY <1>0, <1>6 DEF Loader!Stopped, BootInv, Waits, Work, Met, Through
<1>7. CASE Loader!Again /\ UNCHANGED needs
  <2>1. /\ pc = "again" /\ pc' \in {"failed", "launch"}
        /\ pc' = "launch" => needs'[app'] \subseteq components'
        BY <1>7 DEF Loader!Again, Loader!ResolveDependencies
  <2>2. UNCHANGED <<waiting, updating, app, interrupted>>
        BY <1>7 DEF Loader!Again
  <2> QED BY <1>0, <2>1, <2>2 DEF BootInv, Waits, Work, Met, Through
<1>8. CASE Loader!Launch /\ UNCHANGED needs
      BY <1>0, <1>8 DEF Loader!Launch, BootInv, Waits, Work, Met, Through
<1>9. CASE Loader!UserStep
      BY <1>0, <1>9 DEF Loader!UserStep, Loader!InstallAppUpdate, Loader!StartAgain, BootInv,
                        Waits, Work, Met, Through
<1>10. CASE UNCHANGED Loader!vars
      BY <1>0, <1>10 DEF Loader!vars, BootInv, Waits, Work, Listed, Got, Rest, Met, Through
<1> QED BY <1>1, <1>2, <1>3, <1>4, <1>5, <1>6, <1>7, <1>8, <1>9, <1>10
        DEF Loader!Next, Loader!BootStep

\* It holds in every reachable state.
LEMMA Boots == Loader!Spec => []BootInv
  BY BootInit, BootNext, PTL DEF Loader!Spec

-----------------------------------------------------------------------------
(* What follows from the invariant.                                          *)

\* Whatever the installer did and wherever it stopped, an application that runs
\* has a directory for everything its manifest asks for.
THEOREM RunsComplete == Loader!Spec => []Loader!StartsComplete
<1>1. BootInv => Loader!StartsComplete
      BY DEF BootInv, Met, Loader!StartsComplete
<1> QED BY <1>1, Boots, PTL

\* The files of a version come after the directory of everything that it depends
\* on, but for the two cases that an SDK makes.
THEOREM FilesComeLast == Loader!Spec => Loader!ComponentsFirst
<1>1. BootInv /\ [Loader!Next]_(Loader!vars) =>
         [pc = "install" /\ files' # files =>
             \/ needs[files'] \subseteq components'
             \/ failed' \cap {Sdk, MobileSdk} # {}
             \/ missing = {MobileSdk}]_(Loader!vars)
  <2> SUFFICES ASSUME BootInv, [Loader!Next]_(Loader!vars), pc = "install", files' # files
               PROVE  \/ needs[files'] \subseteq components'
                      \/ failed' \cap {Sdk, MobileSdk} # {}
                      \/ missing = {MobileSdk}
      OBVIOUS
  <2>1. Loader!Unpack
        BY DEF Loader!Next, Loader!BootStep, Loader!UserStep, Loader!FindUpdate,
               Loader!Resolve, Loader!InstallerEnds, Loader!Settle, Loader!Stopped,
           Loader!Again, Loader!Launch, Loader!InstallAppUpdate, Loader!StartAgain, Loader!disk, Loader!vars
  <2>2. /\ ~(done < Cardinality(missing)) /\ files' = app /\ components' = components
        /\ failed \subseteq failed'
        BY SameCardinality, <2>1 DEF Loader!Unpack, Loader!UnzipApplication
  <2>3. missing \in SUBSET Component /\ done \in Int
        BY DEF BootInv, Loader!TypeOK
  <2>4. done >= Cardinality(missing)
        BY <2>2, <2>3, FiniteComponents
  <2>5. Supplied(failed)
        BY <2>4, AllSupplied
  <2> QED BY <2>2, <2>5 DEF Supplied, Sdks
<1> QED BY <1>1, Boots, PTL DEF Loader!Spec, Loader!ComponentsFirst

\* Without interruption, an update that was asked for is applied before it is
\* forgotten, or its archive could not be unpacked.
THEOREM AppliedBeforeForgotten == Loader!Spec => Loader!UpdateIsApplied
<1>1. BootInv /\ [Loader!Next]_(Loader!vars) =>
         [waiting = "new" /\ waiting' = "none" =>
             files' = "new" \/ interrupted' \/ "application" \in failed']_(Loader!vars)
  <2> SUFFICES ASSUME BootInv, [Loader!Next]_(Loader!vars), waiting = "new", waiting' = "none", ~interrupted'
               PROVE  files' = "new" \/ "application" \in failed'
      OBVIOUS
  <2>1. Loader!Settle \/ Loader!Launch
        BY DEF Loader!Next, Loader!BootStep, Loader!UserStep, Loader!FindUpdate,
               Loader!Resolve, Loader!Unpack, Loader!InstallerEnds, Loader!Stopped,
           Loader!Again, Loader!InstallAppUpdate, Loader!StartAgain, Loader!disk, Loader!vars
  <2>2. CASE Loader!Settle
    <3>1. updating /\ pc = "install" /\ result = "success" /\ files' = files /\ failed' = failed
          /\ ~interrupted
          BY <2>2 DEF Loader!Settle, Loader!Install!Settle
    <3>2. app = "new" /\ done = total /\ total = Cardinality(missing) + 1
          BY <3>1 DEF BootInv, Waits, Work
    <3>3. missing \in SUBSET Component
          BY DEF BootInv, Loader!TypeOK
    <3>4. done > Cardinality(missing)
          BY <3>2, <3>3, FiniteComponents
    <3> QED BY <3>1, <3>2, <3>4 DEF BootInv, Work
  <2>3. CASE Loader!Launch
    <3>1. updating /\ pc = "launch" /\ interrupted' = interrupted
          BY <2>3 DEF Loader!Launch, Loader!history
    <3> QED BY <3>1 DEF BootInv, Through
  <2> QED BY <2>1, <2>2, <2>3
<1> QED BY <1>1, Boots, PTL DEF Loader!Spec, Loader!UpdateIsApplied

\* Neither the order of what an installer does nor the end of one loses the
\* update or leaves an application without what it needs.
THEOREM UpdateStaysSafe == Loader!Spec => Loader!UpdateIsSafe
BY FilesComeLast, AppliedBeforeForgotten DEF Loader!UpdateIsSafe

(***************************************************************************)
(* Modules.  The inductive invariant, about the calls under way: a scan,   *)
(* or the start of what it loaded, which another scan follows, is the      *)
(* innermost call, and below it is only the start of the modules in        *)
(* LoadModules (Calls); a file whose provider is there is still ahead of   *)
(* the scan, or will be looked at once more (Left); no file is in a list   *)
(* twice, or in both (Distinctly); and the calls of Start that were made   *)
(* and that are due add up to those a module gets (Counted).               *)
(***************************************************************************)
ScanCall == [call : {"scan"}, at : Nat \ {0}, fresh : Seq(Script)]
StartCall == [call : {"start"}, todo : Seq(Loading!File), again : BOOLEAN]
Call == ScanCall \cup StartCall

Scanning(e) == e.call = "scan" \/ (e.call = "start" /\ e.again)
Scans == stack # <<>> /\ Scanning(stack[Len(stack)])

Elements(s) == {s[k] : k \in 1..Len(s)}
Distinct(s) == \A i, j \in 1..Len(s) : s[i] = s[j] => i = j
Files(e) == IF e.call = "scan" THEN e.fresh ELSE e.todo

Up == {"scan", "start", "run"}

Calls ==
    /\ stack \in Seq(Call) /\ Len(stack) <= 2
    /\ \A k \in 1..Len(stack) : Scanning(stack[k]) => k = Len(stack)
    /\ Len(stack) = 2 => Scanning(stack[2])
    /\ phase \notin Up => stack = <<>>
    /\ stack # <<>> => (phase = "start" <=> ~Scanning(stack[1]) \/ Len(stack) = 2)
    /\ phase = "find" => ~autoScan
    /\ phase \in Up => (autoScan <=> ~Scans)

Left ==
    phase \in Up =>
        \A k \in 1..Len(invalidModuleFiles) :
            Supports[invalidModuleFiles[k]] \in moduleProviders \ orphan =>
                /\ Scans
                /\ stack[Len(stack)].call = "scan" =>
                      k >= stack[Len(stack)].at \/ stack[Len(stack)].fresh # <<>>

Distinctly ==
    /\ Distinct(loadedModules) /\ Distinct(invalidModuleFiles)
    /\ Elements(loadedModules) \cup Elements(invalidModuleFiles) \subseteq found
    /\ Elements(loadedModules) \cap Elements(invalidModuleFiles) = {}
    /\ phase # "unload" => scanned \subseteq Elements(loadedModules)
    /\ \A k \in 1..Len(stack) :
          Distinct(Files(stack[k])) /\ Elements(Files(stack[k])) \subseteq Elements(loadedModules)

One(b) == IF b THEN 1 ELSE 0
Due(k, f) == k \in 1..Len(stack) /\ f \in Elements(Files(stack[k]))
Counted ==
    phase \in Up \cup {"find"} =>
        \A f \in Loading!File :
            starts[f] + One(Due(1, f)) + One(Due(2, f))
                + One(phase \in {"find", "scan"} /\ f \in Elements(loadedModules))
            = IF f \notin Elements(loadedModules) THEN 0 ELSE IF f \in scanned THEN 2 ELSE 1

ModulesInv == Loading!TypeOK /\ Calls /\ Left /\ Distinctly /\ Counted

\* The last of a sequence is taken away, or another put in its place.
LEMMA FrontOf ==
    ASSUME NEW S, NEW s \in Seq(S), s # <<>>
    PROVE  LET t == Loading!Front(s)
           IN  t \in Seq(S) /\ Len(t) = Len(s) - 1 /\ \A k \in 1..Len(t) : t[k] = s[k]
<1>1. PICK n \in Nat : Len(s) = n + 1
  <2>1. Len(s) \in Nat /\ Len(s) >= 1
        BY LenProperties, EmptySeq
  <2> QED BY <2>1
<1> DEFINE t == SubSeq(s, 1, n)
<1>2. /\ t \in Seq(S) /\ Len(t) = IF 1 <= n THEN n - 1 + 1 ELSE 0
      /\ \A i \in 1..(n - 1 + 1) : t[i] = s[1 + i - 1]
  <2>1. \A i \in 1..n : s[i] \in S
        BY <1>1, ElementOfSeq
  <2> QED BY <2>1, SubSeqProperties
<1> HIDE DEF t
<1>3. Len(t) = n
      BY <1>2
<1>4. ASSUME NEW k \in 1..n  PROVE t[k] = s[k]
  <2>1. k \in 1..(n - 1 + 1) /\ 1 + k - 1 = k
        OBVIOUS
  <2> QED BY <1>2, <2>1
<1>5. Loading!Front(s) = t
      BY <1>1 DEF Loading!Front, t
<1> QED BY <1>1, <1>2, <1>3, <1>4, <1>5

\* The last of a stack is replaced.
LEMMA LastReplaced ==
    ASSUME NEW S, NEW s \in Seq(S), s # <<>>, NEW e \in S
    PROVE  LET t == Append(Loading!Front(s), e)
           IN  /\ t \in Seq(S) /\ Len(t) = Len(s) /\ t # <<>> /\ t[Len(s)] = e
               /\ \A k \in 1..(Len(s) - 1) : t[k] = s[k]
<1> DEFINE b == Loading!Front(s)
           t == Append(b, e)
<1>1. b \in Seq(S) /\ Len(b) = Len(s) - 1 /\ \A k \in 1..Len(b) : b[k] = s[k]
      BY FrontOf
<1>2. Len(s) \in Nat /\ Len(s) >= 1
      BY LenProperties, EmptySeq
<1> HIDE DEF b
<1>3. t \in Seq(S) /\ Len(t) = Len(b) + 1 /\ t[Len(b) + 1] = e
      /\ \A k \in 1..Len(b) : t[k] = b[k]
      BY <1>1, AppendProperties
<1> HIDE DEF t
<1>4. t \in Seq(S) /\ Len(t) = Len(s) /\ t # <<>> /\ t[Len(s)] = e
      /\ \A k \in 1..(Len(s) - 1) : t[k] = s[k]
      BY <1>1, <1>2, <1>3, EmptySeq
<1> QED BY <1>4 DEF t, b

\* Another element is added.
LEMMA Appended ==
    ASSUME NEW S, NEW s \in Seq(S), NEW e \in S
    PROVE  LET t == Append(s, e)
           IN  /\ t \in Seq(S) /\ Len(t) = Len(s) + 1 /\ Len(s) \in Nat /\ t # <<>>
               /\ t[Len(s) + 1] = e /\ \A k \in 1..Len(s) : t[k] = s[k]
               /\ Elements(t) = Elements(s) \cup {e}
               /\ Distinct(s) /\ e \notin Elements(s) => Distinct(t)
<1> DEFINE t == Append(s, e)
<1>1. /\ t \in Seq(S) /\ Len(t) = Len(s) + 1 /\ Len(s) \in Nat
      /\ t[Len(s) + 1] = e /\ \A k \in 1..Len(s) : t[k] = s[k]
      BY AppendProperties, LenProperties
<1> HIDE DEF t
<1>2. t # <<>>
      BY <1>1, EmptySeq
<1>3. Elements(t) = Elements(s) \cup {e}
      BY <1>1 DEF Elements
<1>4. ASSUME Distinct(s), e \notin Elements(s)  PROVE Distinct(t)
      BY <1>1, <1>4 DEF Distinct, Elements
<1> QED BY <1>1, <1>2, <1>3, <1>4 DEF t

\* The first is taken.
LEMMA HeadTaken ==
    ASSUME NEW S, NEW s \in Seq(S), s # <<>>
    PROVE  /\ Tail(s) \in Seq(S) /\ Head(s) \in S /\ Elements(s) = Elements(Tail(s)) \cup {Head(s)}
           /\ Distinct(s) => Distinct(Tail(s)) /\ Head(s) \notin Elements(Tail(s))
<1> DEFINE t == Tail(s)
           h == Head(s)
<1>1. /\ t \in Seq(S) /\ Len(s) \in Nat /\ Len(s) >= 1 /\ Len(t) = Len(s) - 1 /\ h = s[1]
      /\ \A k \in 1..Len(t) : t[k] = s[k + 1]
      BY HeadTailProperties, EmptySeq, LenProperties
<1> HIDE DEF t, h
<1>2. h \in S
      BY <1>1, ElementOfSeq
<1>3. Elements(s) = Elements(t) \cup {h}
  <2>1. ASSUME NEW k \in 1..Len(s)  PROVE s[k] \in Elements(t) \cup {h}
    <3>1. CASE k = 1
          BY <1>1, <3>1
    <3>2. CASE k # 1
      <4>1. k - 1 \in 1..Len(t) /\ t[k - 1] = s[k]
            BY <1>1, <3>2
      <4> QED BY <4>1 DEF Elements
    <3> QED BY <3>1, <3>2
  <2>2. h \in Elements(s) /\ Elements(t) \subseteq Elements(s)
        BY <1>1 DEF Elements
  <2> QED BY <2>1, <2>2 DEF Elements
<1>4. ASSUME Distinct(s)  PROVE Distinct(t) /\ h \notin Elements(t)
      BY <1>1, <1>4 DEF Distinct, Elements
<1> QED BY <1>1, <1>2, <1>3, <1>4 DEF t, h

\* One is erased.
LEMMA OneErased ==
    ASSUME NEW S, NEW s \in Seq(S), NEW n \in 1..Len(s)
    PROVE  LET t == Loading!RemoveAt(s, n)
           IN  /\ t \in Seq(S) /\ Len(t) = Len(s) - 1
               /\ \A k \in 1..Len(t) : t[k] = IF k < n THEN s[k] ELSE s[k + 1]
               /\ Distinct(s) => Distinct(t) /\ Elements(t) = Elements(s) \ {s[n]}
<1> DEFINE a == SubSeq(s, 1, n - 1)
           b == SubSeq(s, n + 1, Len(s))
           t == a \o b
<1>1. Len(s) \in Nat
      BY LenProperties
<1>2. a \in Seq(S) /\ Len(a) = n - 1 /\ \A i \in 1..(n - 1) : a[i] = s[i]
      BY <1>1, SubSeqProperties
<1>3. b \in Seq(S) /\ Len(b) = Len(s) - n /\ \A i \in 1..(Len(s) - n) : b[i] = s[n + i]
      BY <1>1, SubSeqProperties
<1> HIDE DEF a, b
<1>4. /\ t \in Seq(S) /\ Len(t) = Len(a) + Len(b)
      /\ \A i \in 1..(Len(a) + Len(b)) : t[i] = IF i <= Len(a) THEN a[i] ELSE b[i - Len(a)]
      BY <1>2, <1>3, ConcatProperties
<1> HIDE DEF t
<1>5. t \in Seq(S) /\ Len(t) = Len(s) - 1
      BY <1>1, <1>2, <1>3, <1>4
<1>6. ASSUME NEW k \in 1..Len(t)  PROVE t[k] = IF k < n THEN s[k] ELSE s[k + 1]
  <2>1. k \in 1..(Len(a) + Len(b))
        BY <1>4, <1>6
  <2>2. CASE k < n
        BY <1>2, <1>4, <2>1, <2>2
  <2>3. CASE ~(k < n)
    <3>1. t[k] = b[k - (n - 1)]
      <4>1. Len(a) = n - 1 /\ ~(k <= Len(a))
            BY <1>2, <2>1, <2>3
      <4>2. t[k] = b[k - Len(a)]
            BY <1>4, <2>1, <4>1
      <4> QED BY <4>1, <4>2
    <3>2. k - (n - 1) \in 1..(Len(s) - n) /\ n + (k - (n - 1)) = k + 1
          BY <1>1, <1>2, <1>3, <2>1, <2>3
    <3> QED BY <1>3, <2>3, <3>1, <3>2
  <2> QED BY <2>2, <2>3
<1>7. ASSUME Distinct(s)  PROVE Distinct(t)
  <2> SUFFICES ASSUME NEW i \in 1..Len(t), NEW j \in 1..Len(t), t[i] = t[j]  PROVE i = j
      BY DEF Distinct
  <2>1. PICK p \in 1..Len(s) : t[i] = s[p] /\ p = (IF i < n THEN i ELSE i + 1)
        BY <1>1, <1>5, <1>6
  <2>2. PICK q \in 1..Len(s) : t[j] = s[q] /\ q = (IF j < n THEN j ELSE j + 1)
        BY <1>1, <1>5, <1>6
  <2>3. p = q
        BY <1>7, <2>1, <2>2 DEF Distinct
  <2> QED BY <1>1, <1>5, <2>1, <2>2, <2>3
<1>8. ASSUME Distinct(s)  PROVE Elements(t) = Elements(s) \ {s[n]}
  <2>1. ASSUME NEW k \in 1..Len(t)  PROVE t[k] \in Elements(s) \ {s[n]}
        BY <1>1, <1>5, <1>6, <1>8, <2>1 DEF Distinct, Elements
  <2>2. ASSUME NEW k \in 1..Len(s), s[k] # s[n]  PROVE s[k] \in Elements(t)
    <3>1. CASE k < n
      <4>1. k \in 1..Len(t) /\ t[k] = s[k]
            BY <1>1, <1>5, <1>6, <3>1
      <4> QED BY <4>1 DEF Elements
    <3>2. CASE k > n
      <4>1. k - 1 \in 1..Len(t)
            BY <1>1, <1>5, <3>2
      <4>2. ~(k - 1 < n) /\ (k - 1) + 1 = k
            BY <3>2
      <4>3. t[k - 1] = s[k]
            BY <1>6, <4>1, <4>2
      <4> QED BY <4>1, <4>3 DEF Elements
    <3> QED BY <1>1, <2>2, <3>1, <3>2
  <2> QED BY <2>1, <2>2 DEF Elements
<1> QED BY <1>5, <1>6, <1>7, <1>8 DEF t, a, b, Loading!RemoveAt

\* An empty sequence has no elements.
LEMMA NoElements ==
    ASSUME NEW S  PROVE <<>> \in Seq(S) /\ Len(<<>>) = 0 /\ Elements(<<>>) = {} /\ Distinct(<<>>)
BY EmptySeq DEF Elements, Distinct

\* The innermost call and its kinds.
LEMMA TopOf ==
    ASSUME Calls, stack # <<>>
    PROVE  /\ Len(stack) \in 1..2 /\ Loading!Top = stack[Len(stack)] /\ Loading!Top \in Call
           /\ phase \in Up
           /\ Loading!Top.call = "scan" => Loading!Top \in ScanCall
           /\ Loading!Top.call = "start" => Loading!Top \in StartCall
<1>1. Len(stack) \in Nat /\ Len(stack) >= 1 /\ stack \in Seq(Call) /\ Len(stack) <= 2 /\ phase \in Up
      BY LenProperties, EmptySeq DEF Calls
<1>2. stack[Len(stack)] \in Call
      BY <1>1, ElementOfSeq
<1>3. \A e \in Call : (e.call = "scan" => e \in ScanCall) /\ (e.call = "start" => e \in StartCall)
      BY DEF Call, ScanCall, StartCall
<1>4. Loading!Top = stack[Len(stack)]
      BY DEF Loading!Top
<1>5. Len(stack) \in 1..2
  <2>1. PICK n \in Nat : n = Len(stack)
        BY <1>1
  <2>2. n \in 1..2
        BY <1>1, <2>1
  <2> QED BY <2>1, <2>2
<1>6. Loading!Top \in Call
      BY <1>2, <1>4
<1> QED BY <1>1, <1>3, <1>4, <1>5, <1>6

\* The innermost call goes on.
LEMMA TopReplaced ==
    ASSUME Calls, stack # <<>>, NEW e \in Call, stack' = Append(Loading!Below, e)
    PROVE  /\ stack' \in Seq(Call) /\ Len(stack') = Len(stack) /\ stack' # <<>>
           /\ stack'[Len(stack)] = e /\ \A k \in 1..(Len(stack) - 1) : stack'[k] = stack[k]
BY LastReplaced DEF Calls, Loading!Below

\* A scan begins above the other calls.
LEMMA ScanEntered ==
    ASSUME NEW below \in Seq(Call), stack' = Append(below, Loading!Scan)
    PROVE  /\ stack' \in Seq(Call) /\ Len(stack') = Len(below) + 1 /\ stack' # <<>>
           /\ stack'[Len(below) + 1] = Loading!Scan /\ \A k \in 1..Len(below) : stack'[k] = below[k]
           /\ Loading!Scan.call = "scan" /\ Loading!Scan.at = 1 /\ Loading!Scan.fresh = <<>>
           /\ Scanning(Loading!Scan) /\ Files(Loading!Scan) = <<>>
<1>1. Loading!Scan \in Call
      BY NoElements DEF Loading!Scan, Call, ScanCall
<1>2. /\ Loading!Scan.call = "scan" /\ Loading!Scan.at = 1 /\ Loading!Scan.fresh = <<>>
      /\ Scanning(Loading!Scan) /\ Files(Loading!Scan) = <<>>
      BY DEF Loading!Scan, Scanning, Files
<1> QED BY <1>1, <1>2, Appended

\* Initially no call is under way and nothing is loaded.
LEMMA ModulesInit == Loading!Init => ModulesInv
<1> SUFFICES ASSUME Loading!Init PROVE ModulesInv
    OBVIOUS
<1> USE DEF Loading!Init
<1>1. /\ phase = "find" /\ found = {} /\ moduleProviders = BuiltIn /\ stack = <<>>
      /\ invalidModuleFiles = <<>> /\ autoScan = FALSE /\ loadedModules = <<>>
      /\ starts = [f \in Loading!File |-> 0] /\ stopped = {} /\ scanned = {} /\ orphan = {}
      OBVIOUS
<1>2. Loading!TypeOK
  <2>1. <<>> \in Seq(Script) /\ <<>> \in Seq(Loading!File) /\ DOMAIN <<>> = {}
        BY NoElements
  <2>2. moduleProviders \subseteq Provider
        BY <1>1, LoadingAssumption DEF Loading!ModulesAssumption
  <2>3. \A k \in DOMAIN stack : stack[k].call \in {"scan", "start"}
        BY <1>1, <2>1
  <2>4. starts \in [Loading!File -> Nat]
        BY <1>1
  <2> HIDE DEF Loading!Init
  <2> QED BY <1>1, <2>1, <2>2, <2>3, <2>4 DEF Loading!TypeOK
<1>3. Calls
      BY <1>1, NoElements DEF Calls, Up
<1>4. Left
      BY <1>1 DEF Left, Up
<1>5. Distinctly
      BY <1>1, NoElements DEF Distinctly
<1>6. Counted
      BY <1>1, NoElements DEF Counted, Due, One
<1> QED BY <1>2, <1>3, <1>4, <1>5, <1>6 DEF ModulesInv

\* No provider knows the file a scan is at.
LEMMA SkipOK ==
    ASSUME ModulesInv, Loading!Skip
    PROVE  ModulesInv'
<1> DEFINE n == Len(stack)
           e == [Loading!Top EXCEPT !.at = @ + 1]
<1>1. /\ stack # <<>> /\ Loading!Top.call = "scan" /\ Loading!Top.at <= Len(invalidModuleFiles)
      /\ Supports[invalidModuleFiles[Loading!Top.at]] \notin moduleProviders
      /\ stack' = Append(Loading!Below, e)
      /\ UNCHANGED <<phase, found, moduleProviders, invalidModuleFiles, loadedModules, autoScan,
                     starts, stopped, scanned, orphan>>
      BY DEF Loading!Skip, Loading!ScansFile, Loading!In, Loading!Candidate, Loading!lists,
             Loading!history
<1>2. n \in 1..2 /\ Loading!Top = stack[n] /\ Loading!Top \in ScanCall /\ phase \in Up
      BY <1>1, TopOf DEF ModulesInv
<1>3. /\ e \in ScanCall /\ e.call = "scan" /\ e.at = Loading!Top.at + 1 /\ e.fresh = Loading!Top.fresh
      /\ e \in Call
      BY <1>2 DEF ScanCall, Call
<1> HIDE DEF e
<1>4. /\ stack' \in Seq(Call) /\ Len(stack') = n /\ stack' # <<>>
      /\ stack'[n] = e /\ \A k \in 1..(n - 1) : stack'[k] = stack[k]
      BY <1>1, <1>3, TopReplaced DEF ModulesInv
<1>5. Scanning(e) /\ Scanning(stack[n]) /\ Files(e) = Files(stack[n])
      BY <1>1, <1>2, <1>3 DEF Scanning, Files
<1>6. \A k \in 1..n : /\ Scanning(stack'[k]) <=> Scanning(stack[k])
                      /\ Files(stack'[k]) = Files(stack[k]) /\ stack'[k].call = stack[k].call
      BY <1>1, <1>2, <1>3, <1>4, <1>5
<1>7. Loading!TypeOK' /\ Calls'
      BY <1>1, <1>2, <1>4, <1>5, <1>6 DEF ModulesInv, Loading!TypeOK, Calls, Scans
<1>8. Left'
  <2> SUFFICES ASSUME NEW k \in 1..Len(invalidModuleFiles),
                      Supports[invalidModuleFiles[k]] \in moduleProviders \ orphan
               PROVE  Scans' /\ (stack'[n].call = "scan" => k >= stack'[n].at \/ stack'[n].fresh # <<>>)
      BY <1>1, <1>4 DEF Left
  <2>1. Scans'
        BY <1>4, <1>5 DEF Scans
  <2>2. k >= Loading!Top.at \/ Loading!Top.fresh # <<>>
        BY <1>1, <1>2 DEF ModulesInv, Left
  <2>3. k # Loading!Top.at /\ k \in Nat /\ Loading!Top.at \in Nat
        BY <1>1, <1>2 DEF ScanCall
  <2> QED BY <1>3, <1>4, <2>1, <2>2, <2>3
<1>9. Distinctly' /\ Counted'
      BY <1>1, <1>2, <1>4, <1>6 DEF ModulesInv, Distinctly, Counted, Due
<1> QED BY <1>7, <1>8, <1>9 DEF ModulesInv

\* The file a scan is at is loaded, or fails to load.
LEMMA LoadScriptOK ==
    ASSUME ModulesInv, Loading!LoadScript
    PROVE  ModulesInv'
<1> DEFINE n == Len(stack)
           pos == Loading!Top.at
           c == invalidModuleFiles[pos]
<1>1. /\ stack # <<>> /\ Loading!Top.call = "scan" /\ pos <= Len(invalidModuleFiles)
      /\ Loading!ScansFile
      BY DEF Loading!LoadScript, Loading!ScansFile, Loading!In
<1>2. n \in 1..2 /\ Loading!Top = stack[n] /\ Loading!Top \in ScanCall /\ phase \in Up
      /\ Loading!Top \in Call
      BY <1>1, TopOf DEF ModulesInv
<1>3. pos \in 1..Len(invalidModuleFiles) /\ Loading!Top.fresh \in Seq(Script)
      BY <1>1, <1>2 DEF ScanCall
<1>4. c \in Script /\ c \in Loading!File /\ c \in Elements(invalidModuleFiles)
      /\ Loading!Candidate = c /\ invalidModuleFiles \in Seq(Script) /\ loadedModules \in Seq(Loading!File)
      BY <1>3, ElementOfSeq DEF ModulesInv, Loading!TypeOK, Elements, Loading!Candidate, Loading!File
<1>5. c \notin Elements(loadedModules) /\ c \notin scanned
      BY <1>2, <1>4 DEF ModulesInv, Distinctly, Up
<1>6. Scanning(stack[n]) /\ ~autoScan
      BY <1>1, <1>2 DEF ModulesInv, Calls, Scans, Scanning
<1>7. PICK loads \in BOOLEAN, adds \in BOOLEAN :
         /\ loadedModules' = IF loads THEN Append(loadedModules, c) ELSE loadedModules
         /\ Loading!AddModuleProviders(
                IF adds THEN Brings[c] ELSE {},
                IF loads THEN Append(Loading!Below, [Loading!Top EXCEPT !.fresh = Append(@, c)])
                ELSE stack)
         /\ orphan' = IF adds /\ ~loads THEN orphan \cup Brings[c] ELSE orphan
         /\ scanned' = IF loads /\ phase = "scan" THEN scanned \cup {c} ELSE scanned
      BY <1>4 DEF Loading!LoadScript
<1> DEFINE p == IF adds THEN Brings[c] ELSE {}
           e == [Loading!Top EXCEPT !.fresh = Append(@, c)]
<1>8. /\ moduleProviders' = moduleProviders \cup p /\ autoScan' = autoScan
      /\ stack' = IF loads THEN Append(Loading!Below, e) ELSE stack
      BY <1>6, <1>7 DEF Loading!AddModuleProviders
<1>9. /\ invalidModuleFiles' = Loading!RemoveAt(invalidModuleFiles, pos)
      /\ UNCHANGED <<phase, found, starts, stopped>>
      BY DEF Loading!LoadScript
<1>10. p \subseteq Provider
      BY <1>4, LoadingAssumption DEF Loading!ModulesAssumption
<1>11. /\ e \in ScanCall /\ e \in Call /\ e.call = "scan" /\ e.at = pos
       /\ e.fresh = Append(Loading!Top.fresh, c)
      <2>1. Append(Loading!Top.fresh, c) \in Seq(Script)
            BY <1>3, <1>4, Appended
      <2> QED BY <1>2, <2>1 DEF ScanCall, Call
<1> DEFINE last == IF loads THEN e ELSE Loading!Top
<1>12. /\ last \in ScanCall /\ last.call = "scan" /\ last.at = pos
       /\ last.fresh = IF loads THEN Append(Loading!Top.fresh, c) ELSE Loading!Top.fresh
       BY <1>1, <1>2, <1>11
<1> HIDE DEF p, e
<1>13. /\ stack' \in Seq(Call) /\ Len(stack') = n /\ stack' # <<>>
       /\ stack'[n] = last /\ \A k \in 1..(n - 1) : stack'[k] = stack[k]
  <2>1. CASE loads
        BY <1>8, <1>11, <1>1, <2>1, TopReplaced DEF ModulesInv
  <2>2. CASE ~loads
        BY <1>8, <1>1, <1>2, <2>2 DEF ModulesInv, Calls
  <2> QED BY <2>1, <2>2
<1> HIDE DEF last
<1>14. Scanning(last) /\ Files(last) = last.fresh /\ Files(stack[n]) = Loading!Top.fresh
       BY <1>1, <1>2, <1>12 DEF Scanning, Files
<1>15. /\ invalidModuleFiles' \in Seq(Script) /\ Len(invalidModuleFiles') = Len(invalidModuleFiles) - 1
       /\ \A k \in 1..Len(invalidModuleFiles') :
             invalidModuleFiles'[k] = IF k < pos THEN invalidModuleFiles[k] ELSE invalidModuleFiles[k + 1]
       /\ Distinct(invalidModuleFiles')
       /\ Elements(invalidModuleFiles') = Elements(invalidModuleFiles) \ {c}
  <2> DEFINE t == Loading!RemoveAt(invalidModuleFiles, pos)
  <2>1. /\ t \in Seq(Script) /\ Len(t) = Len(invalidModuleFiles) - 1
        /\ \A k \in 1..Len(t) :
              t[k] = IF k < pos THEN invalidModuleFiles[k] ELSE invalidModuleFiles[k + 1]
        /\ Distinct(invalidModuleFiles) =>
              Distinct(t) /\ Elements(t) = Elements(invalidModuleFiles) \ {invalidModuleFiles[pos]}
    <3>1. invalidModuleFiles \in Seq(Script) /\ pos \in 1..Len(invalidModuleFiles)
          BY <1>3, <1>4
    <3> HIDE DEF pos
    <3> QED BY <3>1, OneErased
  <2>2. invalidModuleFiles' = t /\ Distinct(invalidModuleFiles)
        BY <1>9 DEF ModulesInv, Distinctly
  <2> HIDE DEF t
  <2> QED BY <2>1, <2>2
<1>16. /\ loadedModules' \in Seq(Loading!File) /\ Distinct(loadedModules')
       /\ Elements(loadedModules') = Elements(loadedModules) \cup (IF loads THEN {c} ELSE {})
       BY <1>4, <1>5, <1>7, Appended DEF ModulesInv, Distinctly
<1>17. Loading!TypeOK'
  <2>1. /\ phase' = phase /\ found' \subseteq Loading!File /\ autoScan' \in BOOLEAN
        /\ moduleProviders' \subseteq Provider /\ starts' \in [Loading!File -> Nat]
        BY <1>8, <1>9, <1>10 DEF ModulesInv, Loading!TypeOK
  <2>2. orphan' \subseteq Provider
        BY <1>4, <1>7, LoadingAssumption DEF ModulesInv, Loading!TypeOK, Loading!ModulesAssumption
  <2>3. stopped' \cup scanned' \subseteq Loading!File
        BY <1>4, <1>7, <1>9 DEF ModulesInv, Loading!TypeOK
  <2>4. \A k \in DOMAIN stack' : stack'[k].call \in {"scan", "start"}
        BY <1>2, <1>12, <1>13 DEF ModulesInv, Calls, Loading!TypeOK
  <2> QED BY <1>15, <1>16, <2>1, <2>2, <2>3, <2>4 DEF ModulesInv, Loading!TypeOK
<1>18. Calls'
       BY <1>2, <1>6, <1>8, <1>9, <1>13, <1>14 DEF ModulesInv, Calls, Scans
<1>19. Left'
  <2> SUFFICES ASSUME NEW k \in 1..Len(invalidModuleFiles'),
                      Supports[invalidModuleFiles'[k]] \in moduleProviders' \ orphan'
               PROVE  Scans' /\ (stack'[n].call = "scan" => k >= stack'[n].at \/ stack'[n].fresh # <<>>)
      BY <1>13 DEF Left
  <2>1. Scans'
        BY <1>13, <1>14 DEF Scans
  <2>2. k \in Nat /\ pos \in Nat
        BY <1>3
  <2>3. CASE loads
    <3>1. last.fresh # <<>>
          BY <1>3, <1>4, <1>12, <2>3, Appended
    <3> QED BY <1>13, <2>1, <3>1
  <2>4. CASE ~loads
    <3>1. orphan' = orphan \cup p
          BY <1>7, <2>4 DEF p
    <3>2. Supports[invalidModuleFiles'[k]] \in moduleProviders \ orphan
          BY <1>8, <3>1
    <3>3. PICK m \in 1..Len(invalidModuleFiles) :
             invalidModuleFiles'[k] = invalidModuleFiles[m] /\ m = (IF k < pos THEN k ELSE k + 1)
      <4>1. PICK l \in Nat : Len(invalidModuleFiles) = l
            BY <1>4, LenProperties
      <4>2. (IF k < pos THEN k ELSE k + 1) \in 1..l
            BY <1>15, <2>2, <4>1
      <4> QED BY <1>15, <4>1, <4>2
    <3>4. m >= pos \/ Loading!Top.fresh # <<>>
          BY <1>1, <1>2, <3>2, <3>3 DEF ModulesInv, Left
    <3>5. k >= pos \/ Loading!Top.fresh # <<>>
          BY <2>2, <3>3, <3>4
    <3> QED BY <1>12, <1>13, <2>1, <2>4, <3>5
  <2> QED BY <2>3, <2>4
<1>20. /\ Elements(last.fresh) = Elements(Loading!Top.fresh) \cup (IF loads THEN {c} ELSE {})
       /\ Distinct(last.fresh) /\ Elements(Loading!Top.fresh) \subseteq Elements(loadedModules)
  <2>1. Distinct(Loading!Top.fresh) /\ Elements(Loading!Top.fresh) \subseteq Elements(loadedModules)
        BY <1>2, <1>14 DEF ModulesInv, Distinctly
  <2> QED BY <1>3, <1>4, <1>5, <1>12, <2>1, Appended
<1>21. Distinctly'
  <2>1. /\ Distinct(loadedModules') /\ Distinct(invalidModuleFiles')
        /\ Elements(loadedModules') \cup Elements(invalidModuleFiles') \subseteq found'
        /\ Elements(loadedModules') \cap Elements(invalidModuleFiles') = {}
        BY <1>4, <1>5, <1>9, <1>15, <1>16 DEF ModulesInv, Distinctly
  <2>2. phase' # "unload" => scanned' \subseteq Elements(loadedModules')
        BY <1>7, <1>9, <1>16 DEF ModulesInv, Distinctly
  <2>3. ASSUME NEW k \in 1..Len(stack')
        PROVE  /\ Distinct(Files(stack'[k]))
               /\ Elements(Files(stack'[k])) \subseteq Elements(loadedModules')
    <3>1. CASE k = n
          BY <1>13, <1>14, <1>16, <1>20, <3>1
    <3>2. CASE k # n
          BY <1>2, <1>13, <1>16, <3>2 DEF ModulesInv, Distinctly
    <3> QED BY <3>1, <3>2
  <2> QED BY <2>1, <2>2, <2>3 DEF Distinctly
<1>22. Counted'
  <2> SUFFICES ASSUME NEW f \in Loading!File
               PROVE  starts[f] + One(Due(1, f)') + One(Due(2, f)')
                          + One(phase \in {"find", "scan"} /\ f \in Elements(loadedModules'))
                      = IF f \notin Elements(loadedModules') THEN 0
                        ELSE IF f \in scanned' THEN 2 ELSE 1
      BY <1>9 DEF Counted
  <2>1. /\ starts[f] + One(Due(1, f)) + One(Due(2, f))
               + One(phase \in {"find", "scan"} /\ f \in Elements(loadedModules))
           = IF f \notin Elements(loadedModules) THEN 0 ELSE IF f \in scanned THEN 2 ELSE 1
        /\ starts[f] \in Nat /\ phase # "find"
        BY <1>2 DEF ModulesInv, Counted, Up, Loading!TypeOK
  <2>2. \A k \in 1..2 : Due(k, f)' <=> Due(k, f) \/ (k = n /\ loads /\ f = c)
        BY <1>2, <1>13, <1>14, <1>20 DEF Due
  <2>3. CASE loads /\ f = c
    <3>1. ~Due(1, f) /\ ~Due(2, f) /\ starts[f] = 0
          BY <1>5, <2>1, <2>3 DEF One
    <3>2. c \in Elements(loadedModules') /\ (c \in scanned' <=> phase = "scan")
          BY <1>5, <1>7, <1>16, <2>3
    <3>3. One(Due(1, f)') + One(Due(2, f)') = 1
      <4>1. CASE n = 1
        <5>1. Due(1, f)' /\ ~Due(2, f)'
              BY <2>2, <2>3, <3>1, <4>1
        <5> QED BY <5>1 DEF One
      <4>2. CASE n = 2
        <5>1. ~Due(1, f)' /\ Due(2, f)'
              BY <2>2, <2>3, <3>1, <4>2
        <5> QED BY <5>1 DEF One
      <4> QED BY <1>2, <4>1, <4>2
    <3>4. One(phase \in {"find", "scan"} /\ f \in Elements(loadedModules'))
             = IF phase = "scan" THEN 1 ELSE 0
          BY <2>1, <2>3, <3>2 DEF One
    <3> HIDE DEF c
    <3>5. starts[f] + One(Due(1, f)') + One(Due(2, f)') = 1
      <4>1. One(Due(1, f)') \in Int /\ One(Due(2, f)') \in Int
            BY DEF One
      <4> QED BY <3>1, <3>3, <4>1
    <3> QED BY <2>3, <3>2, <3>4, <3>5
  <2>4. CASE ~(loads /\ f = c)
    <3>1. /\ f \in Elements(loadedModules') <=> f \in Elements(loadedModules)
          /\ f \in scanned' <=> f \in scanned
          BY <1>7, <1>16, <2>4
    <3> QED BY <2>1, <2>2, <2>4, <3>1 DEF One
  <2> QED BY <2>3, <2>4
<1> QED BY <1>17, <1>18, <1>19, <1>21, <1>22 DEF ModulesInv

\* The innermost call returns.
LEMMA TopReturned ==
    ASSUME Calls, stack # <<>>, stack' = Loading!Below
    PROVE  /\ stack' \in Seq(Call) /\ Len(stack') = Len(stack) - 1
           /\ \A k \in 1..Len(stack') : stack'[k] = stack[k]
           /\ Len(stack) = 1 => stack' = <<>>
           /\ Len(stack) = 2 => stack' # <<>>
<1>1. /\ stack' \in Seq(Call) /\ Len(stack') = Len(stack) - 1
      /\ \A k \in 1..Len(stack') : stack'[k] = stack[k]
      BY FrontOf DEF Calls, Loading!Below
<1>2. Len(stack) = 1 => stack' = <<>>
      BY <1>1, EmptySeq
<1>3. Len(stack) = 2 => stack' # <<>>
  <2> SUFFICES ASSUME Len(stack) = 2, stack' = <<>>  PROVE FALSE
      OBVIOUS
  <2>1. Len(stack') = 0
        BY EmptySeq
  <2> QED BY <1>1, <2>1
<1> QED BY <1>1, <1>2, <1>3

\* A scan that comes to the end of the list is over, or what it has loaded is started.
LEMMA ScanEndsOK ==
    ASSUME ModulesInv, Loading!ScanEnds
    PROVE  ModulesInv'
<1> DEFINE n == Len(stack)
           pos == Loading!Top.at
           fresh == Loading!Top.fresh
<1>1. /\ stack # <<>> /\ Loading!Top.call = "scan" /\ pos > Len(invalidModuleFiles)
      /\ IF fresh = <<>> THEN stack' = Loading!Below /\ autoScan' = TRUE
         ELSE stack' = Append(Loading!Below, Loading!StartAll(fresh, TRUE)) /\ autoScan' = autoScan
      /\ UNCHANGED <<phase, found, moduleProviders, invalidModuleFiles, loadedModules,
                     starts, stopped, scanned, orphan>>
      BY DEF Loading!ScanEnds, Loading!In, Loading!lists, Loading!history
<1>2. n \in 1..2 /\ Loading!Top = stack[n] /\ Loading!Top \in ScanCall /\ phase \in Up
      BY <1>1, TopOf DEF ModulesInv
<1>3. /\ Scanning(stack[n]) /\ Files(stack[n]) = fresh /\ fresh \in Seq(Script) /\ pos \in Nat
      /\ ~autoScan
      BY <1>1, <1>2 DEF ModulesInv, Calls, Scans, Scanning, Files, ScanCall
<1>4. CASE fresh = <<>>
  <2>1. /\ stack' \in Seq(Call) /\ Len(stack') = n - 1 /\ \A k \in 1..Len(stack') : stack'[k] = stack[k]
        /\ (n = 1 => stack' = <<>>) /\ (n = 2 => stack' # <<>>)
        BY <1>1, <1>4, TopReturned DEF ModulesInv
  <2>2. \A k \in 1..Len(stack') : stack'[k] = stack[k] /\ ~Scanning(stack'[k])
        BY <1>2, <2>1 DEF ModulesInv, Calls
  <2>3. Loading!TypeOK'
    <3>1. \A k \in DOMAIN stack' : stack'[k].call \in {"scan", "start"}
          BY <1>2, <2>1 DEF ModulesInv, Loading!TypeOK, Calls
    <3> QED BY <1>1, <1>4, <3>1 DEF ModulesInv, Loading!TypeOK
  <2>4. Calls'
        BY <1>1, <1>2, <1>3, <1>4, <2>1, <2>2 DEF ModulesInv, Calls, Scans, Up
  <2>5. Left'
    <3>1. \A k \in 1..Len(invalidModuleFiles) :
             ~(Supports[invalidModuleFiles[k]] \in moduleProviders \ orphan)
      <4> SUFFICES ASSUME NEW k \in 1..Len(invalidModuleFiles),
                          Supports[invalidModuleFiles[k]] \in moduleProviders \ orphan
                   PROVE  FALSE
          OBVIOUS
      <4>1. k >= pos
            BY <1>1, <1>2, <1>4 DEF ModulesInv, Left
      <4>2. PICK l \in Nat : l = Len(invalidModuleFiles)
            BY LenProperties DEF ModulesInv, Loading!TypeOK
      <4> QED BY <1>1, <1>3, <4>1, <4>2
    <3> QED BY <1>1, <3>1 DEF Left
  <2>6. Distinctly'
        BY <1>1, <1>2, <2>1 DEF ModulesInv, Distinctly
  <2>7. Counted'
    <3>1. ASSUME NEW f \in Loading!File, NEW k \in 1..2  PROVE Due(k, f)' <=> Due(k, f)
      <4>1. Elements(Files(stack[n])) = {}
            BY <1>3, <1>4, NoElements
      <4> QED BY <1>2, <2>1, <4>1 DEF Due
    <3>2. ASSUME NEW f \in Loading!File
          PROVE  One(Due(1, f)') = One(Due(1, f)) /\ One(Due(2, f)') = One(Due(2, f))
          BY <3>1 DEF One
    <3> QED BY <1>1, <3>2 DEF ModulesInv, Counted
  <2> QED BY <2>3, <2>4, <2>5, <2>6, <2>7 DEF ModulesInv
<1>5. CASE fresh # <<>>
  <2> DEFINE e == Loading!StartAll(fresh, TRUE)
  <2>1. /\ e \in StartCall /\ e \in Call /\ Scanning(e) /\ e.call = "start" /\ Files(e) = fresh
    <3>1. fresh \in Seq(Loading!File)
          BY <1>3 DEF Loading!File
    <3> QED BY <3>1 DEF StartCall, Call, Scanning, Files, Loading!StartAll
  <2> HIDE DEF e
  <2>2. stack' = Append(Loading!Below, e) /\ autoScan' = autoScan
        BY <1>1, <1>5 DEF e
  <2>3. /\ stack' \in Seq(Call) /\ Len(stack') = n /\ stack' # <<>>
        /\ stack'[n] = e /\ \A k \in 1..(n - 1) : stack'[k] = stack[k]
        BY <1>1, <2>1, <2>2, TopReplaced DEF ModulesInv
  <2>4. \A k \in 1..n : /\ Scanning(stack'[k]) <=> Scanning(stack[k])
                        /\ Files(stack'[k]) = Files(stack[k])
        BY <1>2, <1>3, <2>1, <2>3
  <2>5. Loading!TypeOK'
    <3>1. \A k \in DOMAIN stack' : stack'[k].call \in {"scan", "start"}
          BY <1>2, <2>1, <2>3 DEF ModulesInv, Loading!TypeOK, Calls
    <3> QED BY <1>1, <2>2, <3>1 DEF ModulesInv, Loading!TypeOK
  <2>6. Calls'
        BY <1>1, <1>2, <1>3, <2>2, <2>3, <2>4 DEF ModulesInv, Calls, Scans
  <2>7. Left'
    <3>1. Scans' /\ stack'[Len(stack')].call # "scan"
          BY <1>2, <1>3, <2>1, <2>3, <2>4 DEF Scans
    <3> QED BY <3>1 DEF Left
  <2>8. Distinctly' /\ Counted'
        BY <1>1, <1>2, <2>3, <2>4 DEF ModulesInv, Distinctly, Counted, Due
  <2> QED BY <2>5, <2>6, <2>7, <2>8 DEF ModulesInv
<1> QED BY <1>4, <1>5

\* The next module is started, and may add its providers.
LEMMA StartModuleOK ==
    ASSUME ModulesInv, Loading!Start
    PROVE  ModulesInv'
<1> DEFINE n == Len(stack)
           todo == Loading!Top.todo
           h == Head(todo)
           e == [Loading!Top EXCEPT !.todo = Tail(@)]
           b == Append(Loading!Below, e)
<1>1. /\ stack # <<>> /\ Loading!Top.call = "start" /\ todo # <<>>
      /\ starts' = [starts EXCEPT ![h] = @ + 1]
      /\ UNCHANGED <<phase, found, invalidModuleFiles, loadedModules, stopped, scanned, orphan>>
      BY DEF Loading!Start, Loading!In
<1>2. /\ n \in 1..2 /\ n = Len(stack)
      /\ Loading!Top = stack[n] /\ Loading!Top \in StartCall /\ phase \in Up
      BY <1>1, TopOf DEF ModulesInv
<1> HIDE DEF n
<1>3. todo \in Seq(Loading!File) /\ Files(stack[n]) = todo
      BY <1>1, <1>2 DEF StartCall, Files
<1>4. /\ Tail(todo) \in Seq(Loading!File) /\ h \in Loading!File
      /\ Elements(todo) = Elements(Tail(todo)) \cup {h}
      /\ Distinct(Tail(todo)) /\ h \notin Elements(Tail(todo)) /\ h \in Elements(loadedModules)
  <2>1. Distinct(todo) /\ Elements(todo) \subseteq Elements(loadedModules)
        BY <1>2, <1>3 DEF ModulesInv, Distinctly
  <2> QED BY <1>1, <1>3, <2>1, HeadTaken
<1>5. /\ e \in StartCall /\ e \in Call /\ e.call = "start" /\ e.again = Loading!Top.again
      /\ e.todo = Tail(todo) /\ Files(e) = Tail(todo)
      /\ Scanning(e) <=> Scanning(stack[n])
      BY <1>1, <1>2, <1>4 DEF StartCall, Call, Files, Scanning
<1> HIDE DEF e, h, todo
<1>6. /\ b \in Seq(Call) /\ Len(b) = n /\ b # <<>>
      /\ b[n] = e /\ \A k \in 1..(n - 1) : b[k] = stack[k]
      BY <1>1, <1>2, <1>5, LastReplaced DEF ModulesInv, Calls, Loading!Below
<1> HIDE DEF b
<1>7. PICK p \in SUBSET Provider :
         /\ moduleProviders' = moduleProviders \cup p
         /\ IF p # {} /\ autoScan THEN stack' = Append(b, Loading!Scan) /\ autoScan' = FALSE
            ELSE stack' = b /\ autoScan' = autoScan
  <2>1. PICK late \in BOOLEAN : Loading!AddModuleProviders(IF late THEN Brings[h] ELSE {}, b)
        BY DEF Loading!Start, b, e, h, todo
  <2>2. (IF late THEN Brings[h] ELSE {}) \subseteq Provider
        BY <1>4, LoadingAssumption DEF Loading!ModulesAssumption
  <2> QED BY <2>1, <2>2 DEF Loading!AddModuleProviders, Loading!EnterScan
<1>8. Scanning(stack[n]) <=> ~autoScan
      BY <1>1, <1>2 DEF ModulesInv, Calls, Scans
<1>9. /\ stack' \in Seq(Call) /\ stack' # <<>> /\ Len(stack') \in 1..2
      /\ stack'[n] = e /\ \A k \in 1..(n - 1) : stack'[k] = stack[k]
      /\ \/ stack' = b /\ Len(stack') = n /\ autoScan' = autoScan /\ (p = {} \/ ~autoScan)
         \/ /\ Len(stack') = 2 /\ n = 1 /\ ~autoScan' /\ autoScan /\ phase = "start"
            /\ stack'[2] = Loading!Scan /\ Scanning(stack'[2]) /\ Files(stack'[2]) = <<>>
            /\ stack'[2].call = "scan" /\ stack'[2].at = 1
  <2>1. CASE p # {} /\ autoScan
    <3>1. n = 1 /\ phase = "start"
          BY <1>1, <1>2, <1>8, <2>1 DEF ModulesInv, Calls
    <3>2. /\ stack' \in Seq(Call) /\ Len(stack') = Len(b) + 1 /\ stack' # <<>>
          /\ stack'[Len(b) + 1] = Loading!Scan /\ \A k \in 1..Len(b) : stack'[k] = b[k]
          /\ Loading!Scan.call = "scan" /\ Loading!Scan.at = 1
          /\ Scanning(Loading!Scan) /\ Files(Loading!Scan) = <<>>
          BY <1>6, <1>7, <2>1, ScanEntered
    <3>3. Len(b) = 1 /\ Len(b) + 1 = 2
          BY <1>6, <3>1
    <3> QED BY <1>6, <1>7, <2>1, <3>1, <3>2, <3>3
  <2>2. CASE ~(p # {} /\ autoScan)
        BY <1>2, <1>6, <1>7, <2>2
  <2> QED BY <2>1, <2>2
<1>10. \A k \in 1..Len(stack') : k = n \/ (k < n /\ stack'[k] = stack[k])
                                   \/ (k = 2 /\ n = 1 /\ Files(stack'[2]) = <<>>)
       BY <1>2, <1>9
<1>11. Loading!TypeOK'
  <2>1. starts' \in [Loading!File -> Nat]
        BY <1>1, <1>4 DEF ModulesInv, Loading!TypeOK
  <2>2. \A k \in DOMAIN stack' : stack'[k].call \in {"scan", "start"}
    <3>1. \A c \in Call : c.call \in {"scan", "start"}
          BY DEF Call, ScanCall, StartCall
    <3> QED BY <1>9, <3>1, ElementOfSeq
  <2>3. autoScan' \in BOOLEAN /\ moduleProviders' \subseteq Provider
        BY <1>7 DEF ModulesInv, Loading!TypeOK
  <2> QED BY <1>1, <2>1, <2>2, <2>3 DEF ModulesInv, Loading!TypeOK
<1>12. Calls'
  <2>1. /\ Len(stack) <= 2 /\ \A k \in 1..n : Scanning(stack[k]) => k = n
        /\ n = 2 => Scanning(stack[2])
        /\ phase = "start" <=> ~Scanning(stack[1]) \/ n = 2
        BY <1>1, <1>2 DEF ModulesInv, Calls
  <2>2. CASE stack' = b /\ Len(stack') = n /\ autoScan' = autoScan
    <3>1. \A k \in 1..n : Scanning(stack'[k]) <=> Scanning(stack[k])
          BY <1>2, <1>5, <1>9
    <3>2. Scans' <=> Scanning(stack[n])
          BY <1>2, <1>9, <2>2, <3>1 DEF Scans
    <3> QED BY <1>1, <1>2, <1>8, <1>9, <2>1, <2>2, <3>1, <3>2 DEF ModulesInv, Calls, Up
  <2>3. CASE /\ Len(stack') = 2 /\ n = 1 /\ ~autoScan' /\ autoScan /\ phase = "start"
             /\ stack'[2] = Loading!Scan /\ Scanning(stack'[2])
    <3>1. ~Scanning(stack'[1])
          BY <1>5, <1>8, <1>9, <2>3
    <3>2. Scans'
          BY <1>9, <2>3 DEF Scans
    <3> QED BY <1>1, <1>9, <2>3, <3>1, <3>2 DEF Calls, Up
  <2> QED BY <1>9, <2>2, <2>3
<1>13. Left'
  <2>1. CASE stack' = b /\ Len(stack') = n /\ ~autoScan
    <3>1. Scans' /\ stack'[Len(stack')].call # "scan"
          BY <1>5, <1>8, <1>9, <2>1 DEF Scans
    <3> QED BY <3>1 DEF Left
  <2>2. CASE stack' = b /\ Len(stack') = n /\ autoScan /\ p = {}
    <3>1. moduleProviders' = moduleProviders
          BY <1>7, <2>2
    <3>2. ~Scans
          BY <1>2, <1>8, <2>2 DEF Scans
    <3> QED BY <1>1, <3>1, <3>2 DEF ModulesInv, Left
  <2>3. CASE Len(stack') = 2 /\ Scanning(stack'[2]) /\ stack'[2].call = "scan" /\ stack'[2].at = 1
    <3>1. Scans' /\ stack'[Len(stack')].at = 1
          BY <1>9, <2>3 DEF Scans
    <3> QED BY <3>1 DEF Left
  <2>4. autoScan \in BOOLEAN
        BY DEF ModulesInv, Loading!TypeOK
  <2> QED BY <1>9, <2>1, <2>2, <2>3, <2>4
<1>14. Distinctly'
  <2>1. ASSUME NEW k \in 1..Len(stack')
        PROVE  /\ Distinct(Files(stack'[k]))
               /\ Elements(Files(stack'[k])) \subseteq Elements(loadedModules)
    <3>1. CASE k = n
      <4>1. Files(stack'[k]) = Tail(todo)
            BY <1>5, <1>9, <3>1
      <4>2. Elements(todo) \subseteq Elements(loadedModules)
            BY <1>2, <1>3 DEF ModulesInv, Distinctly
      <4> QED BY <1>4, <4>1, <4>2
    <3>2. CASE k < n /\ stack'[k] = stack[k]
          BY <1>2, <3>2 DEF ModulesInv, Distinctly
    <3>3. CASE k = 2 /\ Files(stack'[2]) = <<>>
          BY <3>3, NoElements
    <3> QED BY <1>10, <3>1, <3>2, <3>3
  <2> QED BY <1>1, <2>1 DEF ModulesInv, Distinctly
<1>15. Counted'
  <2> SUFFICES ASSUME NEW f \in Loading!File
               PROVE  starts'[f] + One(Due(1, f)') + One(Due(2, f)')
                          + One(phase \in {"find", "scan"} /\ f \in Elements(loadedModules))
                      = IF f \notin Elements(loadedModules) THEN 0
                        ELSE IF f \in scanned THEN 2 ELSE 1
      BY <1>1 DEF Counted
  <2>1. /\ starts[f] + One(Due(1, f)) + One(Due(2, f))
               + One(phase \in {"find", "scan"} /\ f \in Elements(loadedModules))
           = IF f \notin Elements(loadedModules) THEN 0 ELSE IF f \in scanned THEN 2 ELSE 1
        /\ starts[f] \in Nat /\ starts'[f] = IF f = h THEN starts[f] + 1 ELSE starts[f]
        BY <1>1, <1>2, <1>4 DEF ModulesInv, Counted, Up, Loading!TypeOK
  <2>2. Due(n, f) <=> f \in Elements(Tail(todo)) \/ f = h
        BY <1>2, <1>3, <1>4 DEF Due
  <2>3. ASSUME NEW k \in 1..2, k = n  PROVE Due(k, f)' <=> f \in Elements(Tail(todo))
    <3>1. n \in 1..Len(stack') /\ Files(stack'[n]) = Tail(todo)
          BY <1>2, <1>5, <1>9
    <3> QED BY <2>3, <3>1 DEF Due
  <2>4. \A k \in 1..2 : k # n => (Due(k, f)' <=> Due(k, f))
    <3> SUFFICES ASSUME NEW k \in 1..2, k # n  PROVE Due(k, f)' <=> Due(k, f)
        OBVIOUS
    <3>1. CASE k < n
          BY <1>2, <1>9, <3>1 DEF Due
    <3>2. CASE k > n
      <4>1. k = 2 /\ n = 1
            BY <1>2, <3>2
      <4>2. 2 \in 1..Len(stack') => f \notin Elements(Files(stack'[2]))
            BY <1>9, <4>1, NoElements
      <4> QED BY <1>2, <4>1, <4>2 DEF Due
    <3> QED BY <1>2, <3>1, <3>2
  <2>5. One(Due(1, f)) + One(Due(2, f)) = One(Due(1, f)') + One(Due(2, f)') + One(f = h)
    <3>1. CASE n = 1
      <4>1. Due(2, f)' <=> Due(2, f)
            BY <2>4, <3>1
      <4>2. Due(1, f)' <=> f \in Elements(Tail(todo))
            BY <2>3, <3>1
      <4>3. Due(1, f) <=> f \in Elements(Tail(todo)) \/ f = h
            BY <2>2, <3>1
      <4> QED BY <1>4, <4>1, <4>2, <4>3 DEF One
    <3>2. CASE n = 2
      <4>1. Due(1, f)' <=> Due(1, f)
            BY <2>4, <3>2
      <4>2. Due(2, f)' <=> f \in Elements(Tail(todo))
            BY <2>3, <3>2
      <4>3. Due(2, f) <=> f \in Elements(Tail(todo)) \/ f = h
            BY <2>2, <3>2
      <4> QED BY <1>4, <4>1, <4>2, <4>3 DEF One
    <3> QED BY <1>2, <3>1, <3>2
  <2>6. /\ One(f = h) = (IF f = h THEN 1 ELSE 0)
        /\ \A c \in BOOLEAN : One(c) \in Int
        BY DEF One
  <2>7. /\ One(Due(1, f)) \in Int /\ One(Due(2, f)) \in Int
        /\ One(Due(1, f)') \in Int /\ One(Due(2, f)') \in Int
        /\ One(phase \in {"find", "scan"} /\ f \in Elements(loadedModules)) \in Int
        BY DEF One
  <2> HIDE DEF h
  <2> QED BY <2>1, <2>5, <2>6, <2>7
<1> QED BY <1>11, <1>12, <1>13, <1>14, <1>15 DEF ModulesInv

\* Every module is started; after what a scan had loaded there is another scan.
LEMMA StartedOK ==
    ASSUME ModulesInv, Loading!Started
    PROVE  ModulesInv'
<1> DEFINE n == Len(stack)
           top == Loading!Top
<1>1. /\ stack # <<>> /\ top.call = "start" /\ top.todo = <<>>
      /\ IF top.again THEN stack' = Append(Loading!Below, Loading!Scan) /\ autoScan' = FALSE
         ELSE stack' = Loading!Below /\ autoScan' = autoScan
      /\ UNCHANGED <<phase, found, moduleProviders, invalidModuleFiles, loadedModules,
                     starts, stopped, scanned, orphan>>
      BY DEF Loading!Started, Loading!In, Loading!EnterScan, Loading!lists, Loading!history
<1>2. n \in 1..2 /\ n = Len(stack) /\ top = stack[n] /\ top \in StartCall /\ phase \in Up
      BY <1>1, TopOf DEF ModulesInv
<1> HIDE DEF n
<1>3. Files(stack[n]) = <<>> /\ (Scanning(stack[n]) <=> top.again) /\ top.again \in BOOLEAN
      BY <1>1, <1>2 DEF Files, Scanning, StartCall
<1>4. Scanning(stack[n]) <=> ~autoScan
      BY <1>1, <1>2 DEF ModulesInv, Calls, Scans
<1> HIDE DEF top
<1>5. CASE top.again
  <2> DEFINE e == Loading!Scan
  <2>1. /\ e \in Call /\ e.call = "scan" /\ e.at = 1 /\ Scanning(e) /\ Files(e) = <<>>
    <3>1. e \in Call
          BY NoElements DEF Loading!Scan, Call, ScanCall
    <3> QED BY <3>1 DEF Loading!Scan, Scanning, Files
  <2> HIDE DEF e
  <2>2. stack' = Append(Loading!Below, e) /\ ~autoScan'
        BY <1>1, <1>5 DEF e
  <2>3. /\ stack' \in Seq(Call) /\ Len(stack') = n /\ stack' # <<>>
        /\ stack'[n] = e /\ \A k \in 1..(n - 1) : stack'[k] = stack[k]
        BY <1>1, <1>2, <2>1, <2>2, TopReplaced DEF ModulesInv
  <2>4. \A k \in 1..n : /\ Scanning(stack'[k]) <=> Scanning(stack[k])
                        /\ Files(stack'[k]) = Files(stack[k])
        BY <1>2, <1>3, <1>5, <2>1, <2>3
  <2>5. Loading!TypeOK'
    <3>1. \A k \in DOMAIN stack' : stack'[k].call \in {"scan", "start"}
          BY <1>2, <2>1, <2>3 DEF ModulesInv, Loading!TypeOK, Calls
    <3> QED BY <1>1, <2>2, <3>1 DEF ModulesInv, Loading!TypeOK
  <2>6. Calls'
        BY <1>1, <1>2, <1>3, <1>4, <1>5, <2>2, <2>3, <2>4 DEF ModulesInv, Calls, Scans
  <2>7. Left'
    <3>1. Scans' /\ stack'[Len(stack')].at = 1
          BY <1>2, <1>3, <1>5, <2>1, <2>3, <2>4 DEF Scans
    <3> QED BY <3>1 DEF Left
  <2>8. Distinctly' /\ Counted'
        BY <1>1, <1>2, <2>3, <2>4 DEF ModulesInv, Distinctly, Counted, Due
  <2> QED BY <2>5, <2>6, <2>7, <2>8 DEF ModulesInv
<1>6. CASE ~top.again
  <2>1. n = 1 /\ phase = "start" /\ autoScan
        BY <1>1, <1>2, <1>3, <1>4, <1>6 DEF ModulesInv, Calls
  <2>2. stack' = <<>> /\ autoScan' = autoScan
        BY <1>1, <1>2, <1>6, <2>1, TopReturned DEF ModulesInv
  <2>3. ~Scans /\ ~Scans'
        BY <1>2, <1>3, <1>6, <2>2 DEF Scans
  <2>4. Loading!TypeOK'
    <3>1. DOMAIN stack' = {}
          BY <2>2
    <3> QED BY <1>1, <2>2, <3>1 DEF ModulesInv, Loading!TypeOK
  <2>5. Calls'
        BY <1>1, <2>1, <2>2, <2>3, NoElements DEF Calls, Up
  <2>6. Left'
        BY <1>1, <2>3 DEF ModulesInv, Left
  <2>7. Distinctly'
        BY <1>1, <2>2, NoElements DEF ModulesInv, Distinctly
  <2>8. Counted'
    <3>1. ASSUME NEW f \in Loading!File, NEW k \in 1..2  PROVE ~Due(k, f) /\ ~Due(k, f)'
          BY <1>2, <1>3, <2>1, <2>2, NoElements DEF Due
    <3>2. ASSUME NEW f \in Loading!File
          PROVE  One(Due(1, f)') = One(Due(1, f)) /\ One(Due(2, f)') = One(Due(2, f))
          BY <3>1 DEF One
    <3> QED BY <1>1, <3>2 DEF ModulesInv, Counted
  <2> QED BY <2>4, <2>5, <2>6, <2>7, <2>8 DEF ModulesInv
<1> QED BY <1>3, <1>5, <1>6

\* Files are found, before anything is scanned or started.
LEMMA FindOK ==
    ASSUME ModulesInv, NEW f \in Loading!File,
           Loading!LoadLibrary(f) \/ Loading!AddInvalidModuleFile(f)
    PROVE  ModulesInv'
<1>1. /\ phase = "find" /\ f \notin found /\ found' = found \cup {f}
      /\ UNCHANGED <<phase, starts, stopped, scanned>>
      BY DEF Loading!LoadLibrary, Loading!AddInvalidModuleFile, Loading!history
<1>2. /\ stack = <<>> /\ ~autoScan
      /\ f \notin Elements(loadedModules) \cup Elements(invalidModuleFiles)
      BY <1>1 DEF ModulesInv, Calls, Distinctly, Up
<1>3. PICK loads \in BOOLEAN, keeps \in BOOLEAN :
         /\ loadedModules' = IF loads THEN Append(loadedModules, f) ELSE loadedModules
         /\ invalidModuleFiles' = IF keeps THEN Append(invalidModuleFiles, f) ELSE invalidModuleFiles
         /\ ~(loads /\ keeps) /\ (keeps => f \in Script)
  <2>1. CASE Loading!LoadLibrary(f)
    <3>1. invalidModuleFiles' = invalidModuleFiles
          BY <2>1 DEF Loading!LoadLibrary
    <3>2. PICK loads \in BOOLEAN :
             loadedModules' = IF loads THEN Append(loadedModules, f) ELSE loadedModules
          BY <2>1 DEF Loading!LoadLibrary
    <3> QED BY <3>1, <3>2
  <2>2. CASE Loading!AddInvalidModuleFile(f)
        BY <2>2 DEF Loading!AddInvalidModuleFile
  <2> QED BY <2>1, <2>2
<1>4. /\ stack' = stack /\ autoScan' = autoScan
      /\ moduleProviders' \subseteq Provider /\ orphan' \subseteq Provider
  <2>1. moduleProviders \subseteq Provider /\ orphan \subseteq Provider /\ Brings[f] \subseteq Provider
        BY LoadingAssumption DEF ModulesInv, Loading!TypeOK, Loading!ModulesAssumption
  <2>2. CASE Loading!LoadLibrary(f)
        BY <1>2, <2>1, <2>2 DEF Loading!LoadLibrary, Loading!AddModuleProviders
  <2>3. CASE Loading!AddInvalidModuleFile(f)
        BY <2>1, <2>3 DEF Loading!AddInvalidModuleFile, Loading!history
  <2> QED BY <2>2, <2>3
<1>5. /\ loadedModules' \in Seq(Loading!File) /\ Distinct(loadedModules')
      /\ Elements(loadedModules') = Elements(loadedModules) \cup (IF loads THEN {f} ELSE {})
  <2>1. loadedModules \in Seq(Loading!File) /\ Distinct(loadedModules)
        BY DEF ModulesInv, Loading!TypeOK, Distinctly
  <2> QED BY <1>2, <1>3, <2>1, Appended
<1>6. /\ invalidModuleFiles' \in Seq(Script) /\ Distinct(invalidModuleFiles')
      /\ Elements(invalidModuleFiles') = Elements(invalidModuleFiles) \cup (IF keeps THEN {f} ELSE {})
  <2>1. invalidModuleFiles \in Seq(Script) /\ Distinct(invalidModuleFiles)
        BY DEF ModulesInv, Loading!TypeOK, Distinctly
  <2> QED BY <1>2, <1>3, <2>1, Appended
<1>7. Loading!TypeOK' /\ Calls'
      BY <1>1, <1>4, <1>5, <1>6 DEF ModulesInv, Loading!TypeOK, Calls, Scans
<1>8. Left' /\ Distinctly'
      BY <1>1, <1>2, <1>3, <1>4, <1>5, <1>6, NoElements DEF ModulesInv, Left, Distinctly, Up
<1>9. Counted'
  <2> SUFFICES ASSUME NEW g \in Loading!File
               PROVE  starts[g] + One(Due(1, g)') + One(Due(2, g)') + One(g \in Elements(loadedModules'))
                      = IF g \notin Elements(loadedModules') THEN 0
                        ELSE IF g \in scanned THEN 2 ELSE 1
      BY <1>1 DEF Counted
  <2>1. /\ starts[g] + One(Due(1, g)) + One(Due(2, g)) + One(g \in Elements(loadedModules))
           = IF g \notin Elements(loadedModules) THEN 0 ELSE IF g \in scanned THEN 2 ELSE 1
        /\ starts[g] \in Nat
        BY <1>1 DEF ModulesInv, Counted, Up, Loading!TypeOK
  <2>2. ~Due(1, g) /\ ~Due(2, g) /\ ~Due(1, g)' /\ ~Due(2, g)'
        BY <1>2, <1>4, NoElements DEF Due
  <2>3. scanned \subseteq Elements(loadedModules)
        BY <1>1 DEF ModulesInv, Distinctly
  <2>4. CASE loads /\ g = f
        BY <1>2, <1>5, <2>1, <2>2, <2>3, <2>4 DEF One
  <2>5. CASE ~(loads /\ g = f)
        BY <1>5, <2>1, <2>2, <2>5 DEF One
  <2> QED BY <2>4, <2>5
<1> QED BY <1>7, <1>8, <1>9 DEF ModulesInv

\* Where no call is under way, a scan begins.
LEMMA ScanBegins ==
    ASSUME ModulesInv, stack = <<>>, stack' = Append(stack, Loading!Scan), autoScan' = FALSE,
           phase' \in {"scan", "run"}, phase = "find" <=> phase' = "scan",
           phase # "find" => phase' = phase,
           moduleProviders' \subseteq Provider,
           UNCHANGED <<found, invalidModuleFiles, loadedModules, starts, stopped, scanned, orphan>>
    PROVE  ModulesInv'
<1>1. /\ stack' \in Seq(Call) /\ Len(stack') = 1 /\ stack' # <<>>
      /\ stack'[1] = Loading!Scan /\ Loading!Scan.call = "scan" /\ Loading!Scan.at = 1
      /\ Scanning(Loading!Scan) /\ Files(Loading!Scan) = <<>>
  <2>1. stack \in Seq(Call) /\ Len(stack) = 0
        BY NoElements
  <2>2. /\ stack' \in Seq(Call) /\ Len(stack') = Len(stack) + 1 /\ stack' # <<>>
        /\ stack'[Len(stack) + 1] = Loading!Scan
        /\ Loading!Scan.call = "scan" /\ Loading!Scan.at = 1
        /\ Scanning(Loading!Scan) /\ Files(Loading!Scan) = <<>>
        BY <2>1, ScanEntered
  <2>3. Len(stack) + 1 = 1
        BY <2>1
  <2> QED BY <2>2, <2>3
<1>2. Scans'
      BY <1>1 DEF Scans
<1>3. Loading!TypeOK'
  <2>1. \A k \in DOMAIN stack' : stack'[k].call \in {"scan", "start"}
        BY <1>1 DEF ModulesInv, Loading!TypeOK
  <2> QED BY <2>1 DEF ModulesInv, Loading!TypeOK
<1>4. Calls'
      BY <1>1, <1>2 DEF Calls, Up
<1>5. Left'
  <2>1. stack'[Len(stack')].at = 1
        BY <1>1
  <2> QED BY <1>2, <2>1 DEF Left
<1>6. Distinctly'
      BY <1>1, NoElements DEF ModulesInv, Distinctly
<1>7. Counted'
  <2>1. ASSUME NEW f \in Loading!File, NEW k \in 1..2  PROVE ~Due(k, f) /\ ~Due(k, f)'
        BY <1>1, NoElements DEF Due
  <2>2. ASSUME NEW f \in Loading!File
        PROVE  One(Due(1, f)') = One(Due(1, f)) /\ One(Due(2, f)') = One(Due(2, f))
        BY <2>1 DEF One
  <2>3. \/ phase \in {"find", "scan"} /\ phase' \in {"find", "scan"}
        \/ phase \notin {"find", "scan"} /\ phase' = phase
        \/ phase = "scan" /\ phase' = phase
        OBVIOUS
  <2> QED BY <2>2, <2>3 DEF ModulesInv, Counted, Up
<1> QED BY <1>3, <1>4, <1>5, <1>6, <1>7 DEF ModulesInv

\* What was scanned for is started.
LEMMA StartLoadedOK ==
    ASSUME ModulesInv, Loading!StartLoaded
    PROVE  ModulesInv'
<1> DEFINE e == Loading!StartAll(loadedModules, FALSE)
<1>1. /\ phase = "scan" /\ phase' = "start" /\ stack = <<>> /\ stack' = <<e>>
      /\ UNCHANGED <<found, moduleProviders, invalidModuleFiles, loadedModules, autoScan,
                     starts, stopped, scanned, orphan>>
      BY DEF Loading!StartLoaded, Loading!lists, Loading!history
<1>2. /\ e \in StartCall /\ e \in Call /\ e.call = "start" /\ ~Scanning(e) /\ Files(e) = loadedModules
  <2>1. loadedModules \in Seq(Loading!File)
        BY DEF ModulesInv, Loading!TypeOK
  <2> QED BY <2>1 DEF StartCall, Call, Scanning, Files, Loading!StartAll
<1> HIDE DEF e
<1>3. stack' \in Seq(Call) /\ Len(stack') = 1 /\ stack'[1] = e /\ stack' # <<>>
      BY <1>1, <1>2
<1>4. ~Scans /\ ~Scans' /\ autoScan
      BY <1>1, <1>2, <1>3 DEF ModulesInv, Calls, Scans, Up
<1>5. Loading!TypeOK'
  <2>1. \A k \in DOMAIN stack' : stack'[k].call \in {"scan", "start"}
        BY <1>2, <1>3
  <2> QED BY <1>1, <2>1 DEF ModulesInv, Loading!TypeOK
<1>6. Calls'
      BY <1>1, <1>2, <1>3, <1>4 DEF Calls, Up
<1>7. Left' /\ Distinctly'
      BY <1>1, <1>2, <1>3, <1>4 DEF ModulesInv, Left, Distinctly, Up
<1>8. Counted'
  <2> SUFFICES ASSUME NEW f \in Loading!File
               PROVE  starts[f] + One(Due(1, f)') + One(Due(2, f)')
                          + One(phase' \in {"find", "scan"} /\ f \in Elements(loadedModules))
                      = IF f \notin Elements(loadedModules) THEN 0
                        ELSE IF f \in scanned THEN 2 ELSE 1
      BY <1>1 DEF Counted
  <2>1. /\ starts[f] + One(Due(1, f)) + One(Due(2, f))
               + One(phase \in {"find", "scan"} /\ f \in Elements(loadedModules))
           = IF f \notin Elements(loadedModules) THEN 0 ELSE IF f \in scanned THEN 2 ELSE 1
        /\ starts[f] \in Nat
        BY <1>1 DEF ModulesInv, Counted, Up, Loading!TypeOK
  <2>2. ~Due(1, f) /\ ~Due(2, f) /\ ~Due(2, f)' /\ (Due(1, f)' <=> f \in Elements(loadedModules))
        BY <1>1, <1>2, <1>3, NoElements DEF Due
  <2> QED BY <1>1, <2>1, <2>2 DEF One
<1> QED BY <1>5, <1>6, <1>7, <1>8 DEF ModulesInv

\* Steps that end a phase: all modules are started, Run fails, the host shuts down.
LEMMA PhaseOK ==
    ASSUME ModulesInv, Loading!Loaded \/ Loading!StartThrows \/ Loading!Stop
    PROVE  ModulesInv'
<1>1. CASE Loading!Loaded
  <2>1. /\ phase = "start" /\ phase' = "run" /\ stack = <<>> /\ stack' = stack /\ autoScan'
        /\ UNCHANGED <<found, moduleProviders, invalidModuleFiles, loadedModules,
                       starts, stopped, scanned, orphan>>
        /\ autoScan' \in BOOLEAN
        BY <1>1 DEF Loading!Loaded, Loading!lists, Loading!history
  <2>2. Loading!TypeOK' /\ Calls' /\ Left' /\ Distinctly'
        BY <2>1, NoElements
        DEF ModulesInv, Loading!TypeOK, Calls, Scans, Left, Distinctly, Up
  <2>3. Counted'
        BY <2>1 DEF ModulesInv, Counted, Due, Up
  <2> QED BY <2>2, <2>3 DEF ModulesInv
<1>2. CASE Loading!StartThrows
  <2>1. /\ phase' = "failed" /\ stack' = <<>> /\ phase \in Up
        /\ UNCHANGED <<found, moduleProviders, invalidModuleFiles, loadedModules, autoScan,
                       starts, stopped, scanned, orphan>>
        BY <1>2, TopOf
        DEF Loading!StartThrows, Loading!lists, Loading!history, Loading!In, ModulesInv
  <2>2. stack' \in Seq(Call) /\ Len(stack') = 0 /\ DOMAIN stack' = {}
        BY <2>1, NoElements
  <2>3. Loading!TypeOK' /\ Calls' /\ Left' /\ Distinctly' /\ Counted'
        BY <2>1, <2>2 DEF ModulesInv, Loading!TypeOK, Calls, Left, Distinctly, Counted, Up
  <2> QED BY <2>3 DEF ModulesInv
<1>3. CASE Loading!Stop
  <2>1. /\ phase = "run" /\ phase' = "unload" /\ stack = <<>> /\ stack' = stack
        /\ moduleProviders' = {} /\ stopped' = Loading!ToSet(loadedModules)
        /\ UNCHANGED <<found, invalidModuleFiles, loadedModules, autoScan, starts, scanned, orphan>>
        BY <1>3 DEF Loading!Stop
  <2>2. stopped' \subseteq Loading!File
    <3>1. loadedModules \in Seq(Loading!File)
          BY DEF ModulesInv, Loading!TypeOK
    <3> QED BY <2>1, <3>1 DEF Loading!ToSet
  <2>3. stack' \in Seq(Call) /\ Len(stack') = 0
        BY <2>1, NoElements
  <2>4. Loading!TypeOK' /\ Calls' /\ Left' /\ Distinctly' /\ Counted'
        BY <2>1, <2>2, <2>3 DEF ModulesInv, Loading!TypeOK, Calls, Left, Distinctly, Counted, Up
  <2> QED BY <2>4 DEF ModulesInv
<1> QED BY <1>1, <1>2, <1>3

\* A module is unloaded.
LEMMA UnregisterOK ==
    ASSUME ModulesInv, Loading!UnregisterModule
    PROVE  ModulesInv'
<1>1. /\ phase = "unload" /\ loadedModules # <<>> /\ loadedModules' = Tail(loadedModules)
      /\ UNCHANGED <<phase, found, moduleProviders, invalidModuleFiles, autoScan, stack,
                     starts, stopped, scanned, orphan>>
      BY DEF Loading!UnregisterModule, Loading!history
<1>2. /\ loadedModules' \in Seq(Loading!File) /\ Distinct(loadedModules')
      /\ Elements(loadedModules') \subseteq Elements(loadedModules)
      BY <1>1, HeadTaken DEF ModulesInv, Loading!TypeOK, Distinctly
<1>3. stack = <<>> /\ Len(stack) = 0
      BY <1>1, NoElements DEF ModulesInv, Calls, Up
<1>4. Loading!TypeOK' /\ Calls' /\ Left' /\ Distinctly' /\ Counted'
      BY <1>1, <1>2, <1>3
      DEF ModulesInv, Loading!TypeOK, Calls, Scans, Left, Distinctly, Counted, Up
<1> QED BY <1>4 DEF ModulesInv

\* Every step keeps the invariant.
LEMMA ModulesNext == ModulesInv /\ [Loading!Next]_(Loading!vars) => ModulesInv'
<1> SUFFICES ASSUME ModulesInv, [Loading!Next]_(Loading!vars) PROVE ModulesInv'
    OBVIOUS
<1>1. CASE Loading!FoundAll
  <2>1. stack = <<>>
        BY <1>1 DEF Loading!FoundAll, ModulesInv, Calls, Up
  <2> QED BY <1>1, <2>1, ScanBegins
          DEF Loading!FoundAll, Loading!EnterScan, Loading!lists, Loading!history, ModulesInv,
              Loading!TypeOK
<1>2. CASE \E f \in Loading!File : Loading!AddLater(f)
  <2>1. PICK f \in Loading!File : Loading!AddLater(f)
        BY <1>2
  <2>2. phase = "run" /\ stack = <<>> /\ autoScan /\ Brings[f] # {}
        BY <2>1 DEF Loading!AddLater, ModulesInv, Calls, Scans, Up
  <2>3. moduleProviders' \subseteq Provider
        BY <2>1, LoadingAssumption
        DEF Loading!AddLater, Loading!AddModuleProviders, ModulesInv, Loading!TypeOK,
            Loading!ModulesAssumption
  <2> QED BY <2>1, <2>2, <2>3, ScanBegins
          DEF Loading!AddLater, Loading!AddModuleProviders, Loading!EnterScan, Loading!history
<1>3. CASE Loading!StartLoaded
      BY <1>3, StartLoadedOK
<1>4. CASE Loading!Loaded \/ Loading!StartThrows \/ Loading!Stop
      BY <1>4, PhaseOK
<1>5. CASE Loading!Skip \/ Loading!LoadScript \/ Loading!ScanEnds
      BY <1>5, SkipOK, LoadScriptOK, ScanEndsOK
<1>6. CASE Loading!Start \/ Loading!Started
      BY <1>6, StartModuleOK, StartedOK
<1>7. CASE Loading!UnregisterModule
      BY <1>7, UnregisterOK
<1>8. CASE \E f \in Loading!File : Loading!LoadLibrary(f) \/ Loading!AddInvalidModuleFile(f)
      BY <1>8, FindOK
<1>9. CASE UNCHANGED Loading!vars
  <2>1. UNCHANGED <<phase, found, moduleProviders, invalidModuleFiles, loadedModules, autoScan,
                    stack, starts, stopped, scanned, orphan>>
        BY <1>9 DEF Loading!vars, Loading!lists, Loading!history
  <2>2. Loading!TypeOK' /\ Calls' /\ Left' /\ Distinctly' /\ Counted'
        BY <2>1
        DEF ModulesInv, Loading!TypeOK, Calls, Scans, Left, Distinctly, Counted, Due
  <2> QED BY <2>2 DEF ModulesInv
<1> QED BY <1>1, <1>2, <1>3, <1>4, <1>5, <1>6, <1>7, <1>8, <1>9
        DEF Loading!Next, Loading!Step

\* The host keeps the invariant for any libraries and scripts, whatever providers
\* they bring and whenever.
THEOREM ModulesAreSound == Loading!Spec => []ModulesInv
BY ModulesInit, ModulesNext, PTL DEF Loading!Spec

-----------------------------------------------------------------------------
(* The choice of a component.                                                *)

\* Induction on numbers, as a fact about sets of them.
LEMMA Counting ==
    ASSUME NEW S, 0 \in S, \A n \in Nat : n \in S => n + 1 \in S
    PROVE  Nat \subseteq S
<1> SUFFICES ASSUME Nat \ S # {}  PROVE FALSE
    OBVIOUS
<1> DEFINE R == OpToRel(<, Nat)
           T == Nat \ S
<1>1. R = {ss \in Nat \X Nat : ss[1] < ss[2]}
      BY DEF OpToRel
<1>2. IsWellFoundedOn(R, Nat) /\ T \subseteq Nat /\ T # {}
      BY NatLessThanWellFounded
<1> HIDE DEF R, T
<1>3. PICK n \in T : \A m \in T : <<m, n>> \notin R
      BY <1>2, WFMin
<1>4. n \in Nat /\ n \notin S /\ n # 0
      BY DEF T
<1>5. n - 1 \in Nat /\ n - 1 \notin S
      BY <1>4
<1>6. <<n - 1, n>> \in R /\ n - 1 \in T
      BY <1>1, <1>4, <1>5 DEF T
<1> QED BY <1>3, <1>6

\* The greatest of some numbers up to n.
LEMMA Greatest ==
    ASSUME NEW n \in Nat, NEW s \in SUBSET (1..n), s # {}
    PROVE  Resolver!Max(s) \in s /\ \A m \in s : m <= Resolver!Max(s)
<1> DEFINE Has(k) == \A t : t \subseteq 1..k /\ t # {} => \E x \in t : \A y \in t : x >= y
           S == {k \in Nat : Has(k)}
<1>1. 0 \in S
  <2>1. 1..0 = {}
        OBVIOUS
  <2> QED BY <2>1
<1>2. ASSUME NEW k \in Nat, k \in S  PROVE k + 1 \in S
  <2> SUFFICES ASSUME NEW t, t \subseteq 1..(k + 1), t # {}
               PROVE  \E x \in t : \A y \in t : x >= y
      OBVIOUS
  <2>1. CASE k + 1 \in t
        BY <2>1
  <2>2. CASE k + 1 \notin t
    <3>1. t \subseteq 1..k
          BY <2>2
    <3> QED BY <1>2, <3>1
  <2> QED BY <2>1, <2>2
<1> HIDE DEF S
<1>3. n \in S
      BY <1>1, <1>2, Counting
<1>4. \E x \in s : \A y \in s : x >= y
      BY <1>3 DEF S
<1>5. Resolver!Max(s) \in s /\ \A y \in s : Resolver!Max(s) >= y
      BY <1>4 DEF Resolver!Max
<1>6. \A y \in s : y \in Int
      OBVIOUS
<1> QED BY <1>5, <1>6

\* A fold over the numbers up to n, with values in X: g is the operation.
Folds(n, X, b, g, h) ==
    /\ h \in [SUBSET (1..n) -> X] /\ h[{}] = b
    /\ \A s \in SUBSET (1..n) :
          s # {} => h[s] = g[h[s \ {Resolver!Max(s)}]][Resolver!Max(s)]

LEMMA FoldExists ==
    ASSUME NEW n \in Nat, NEW X, NEW b \in X, NEW g \in [X -> [1..n -> X]]
    PROVE  \E h : Folds(n, X, b, g, h)
<1> DEFINE S == {k \in Nat : k <= n => \E h : Folds(k, X, b, g, h)}
<1>1. 0 \in S
  <2> DEFINE h == [s \in SUBSET (1..0) |-> b]
  <2>1. 1..0 = {} /\ SUBSET (1..0) = {{}}
        OBVIOUS
  <2>2. h \in [SUBSET (1..0) -> X] /\ h[{}] = b
        BY <2>1
  <2>3. Folds(0, X, b, g, h)
        BY <2>1, <2>2 DEF Folds
  <2> QED BY <2>3
<1>2. ASSUME NEW k \in Nat, k \in S  PROVE k + 1 \in S
  <2> SUFFICES ASSUME k + 1 <= n
               PROVE  \E h : Folds(k + 1, X, b, g, h)
      OBVIOUS
  <2>1. PICK f : Folds(k, X, b, g, f)
        BY <1>2
  <2> DEFINE h == [s \in SUBSET (1..(k + 1)) |->
                      IF k + 1 \in s THEN g[f[s \ {k + 1}]][k + 1] ELSE f[s]]
  <2>2. ASSUME NEW s \in SUBSET (1..(k + 1)), k + 1 \in s
        PROVE  s \ {k + 1} \in SUBSET (1..k) /\ Resolver!Max(s) = k + 1
    <3>1. Resolver!Max(s) \in s /\ \A m \in s : m <= Resolver!Max(s)
      <4>1. s # {} /\ k + 1 \in Nat
            BY <2>2
      <4> QED BY <4>1, Greatest
    <3>2. k + 1 <= Resolver!Max(s) /\ Resolver!Max(s) \in 1..(k + 1)
          BY <2>2, <3>1
    <3>3. \A m \in 1..(k + 1) : k + 1 <= m => m = k + 1
          OBVIOUS
    <3>4. s \ {k + 1} \in SUBSET (1..k)
          OBVIOUS
    <3> QED BY <3>2, <3>3, <3>4
  <2>3. ASSUME NEW s \in SUBSET (1..(k + 1)), k + 1 \notin s
        PROVE  s \in SUBSET (1..k)
        BY <2>3
  <2>4. h \in [SUBSET (1..(k + 1)) -> X]
    <3> SUFFICES ASSUME NEW s \in SUBSET (1..(k + 1))
                 PROVE  (IF k + 1 \in s THEN g[f[s \ {k + 1}]][k + 1] ELSE f[s]) \in X
        OBVIOUS
    <3>1. CASE k + 1 \in s
      <4>1. f[s \ {k + 1}] \in X /\ k + 1 \in 1..n
            BY <2>1, <2>2, <3>1 DEF Folds
      <4> QED BY <3>1, <4>1
    <3>2. CASE k + 1 \notin s
          BY <2>1, <2>3, <3>2 DEF Folds
    <3> QED BY <3>1, <3>2
  <2>5. h[{}] = b
        BY <2>1 DEF Folds
  <2>6. ASSUME NEW s \in SUBSET (1..(k + 1)), s # {}
        PROVE  h[s] = g[h[s \ {Resolver!Max(s)}]][Resolver!Max(s)]
    <3>1. CASE k + 1 \in s
      <4>1. Resolver!Max(s) = k + 1 /\ k + 1 \notin s \ {k + 1}
            /\ s \ {k + 1} \in SUBSET (1..(k + 1))
            BY <2>2, <3>1
      <4>2. h[s \ {k + 1}] = f[s \ {k + 1}]
            BY <4>1
      <4> QED BY <3>1, <4>1, <4>2
    <3>2. CASE k + 1 \notin s
      <4>1. s \in SUBSET (1..k) /\ h[s] = f[s]
            BY <2>3, <3>2
      <4> DEFINE m == Resolver!Max(s)
      <4>2. f[s] = g[f[s \ {m}]][m]
            BY <2>1, <2>6, <4>1 DEF Folds
      <4> HIDE DEF m
      <4>3. k + 1 \notin s \ {m} /\ s \ {m} \in SUBSET (1..(k + 1))
            BY <3>2
      <4>4. h[s \ {m}] = f[s \ {m}]
            BY <4>3
      <4> HIDE DEF h
      <4>5. h[s] = g[h[s \ {m}]][m]
            BY <4>1, <4>2, <4>4
      <4> QED BY <4>5 DEF m
    <3> QED BY <3>1, <3>2
  <2> HIDE DEF h
  <2>7. Folds(k + 1, X, b, g, h)
        BY <2>4, <2>5, <2>6 DEF Folds
  <2> QED BY <2>7
<1> HIDE DEF S
<1>3. n \in S
      BY <1>1, <1>2, Counting
<1> QED BY <1>3 DEF S

\* The numbers from 1 to k + 1, without the greatest.
LEMMA UpTo ==
    ASSUME NEW n \in Nat, NEW k \in 0..(n - 1)
    PROVE  /\ 1..(k + 1) \in SUBSET (1..n) /\ 1..(k + 1) # {}
           /\ Resolver!Max(1..(k + 1)) = k + 1 /\ (1..(k + 1)) \ {k + 1} = 1..k
<1>1. 1..(k + 1) \in SUBSET (1..n) /\ 1..(k + 1) # {} /\ k + 1 \in 1..(k + 1)
      BY k + 1 \in 1..(k + 1)
<1>2. Resolver!Max(1..(k + 1)) \in 1..(k + 1) /\ k + 1 <= Resolver!Max(1..(k + 1))
      BY <1>1, Greatest
<1>3. Resolver!Max(1..(k + 1)) = k + 1
      BY <1>2
<1>4. (1..(k + 1)) \ {k + 1} = 1..k
      OBVIOUS
<1> QED BY <1>1, <1>3, <1>4

\* What a fold computes, one number after the other; h may be any function that
\* satisfies the equation, as the one that CHOOSE takes does.
FoldsBy(n, X, b, g, h) ==
    /\ h[{}] = b
    /\ \A s \in SUBSET (1..n) :
          s # {} /\ h[s \ {Resolver!Max(s)}] \in X =>
             h[s] = g[h[s \ {Resolver!Max(s)}]][Resolver!Max(s)]
Stepwise(n, X, b, g, h, f) ==
    /\ f \in [0..n -> X] /\ f[0] = b /\ f[n] = h[1..n]
    /\ \A k \in 0..(n - 1) : f[k + 1] = g[f[k]][k + 1]

LEMMA FoldValues ==
    ASSUME NEW n \in Nat, NEW X, NEW b \in X, NEW g \in [X -> [1..n -> X]],
           NEW h, FoldsBy(n, X, b, g, h)
    PROVE  \E f : Stepwise(n, X, b, g, h, f)
<1> USE DEF FoldsBy
<1> DEFINE f == [k \in 0..n |-> h[1..k]]
           S == {k \in Nat : k <= n => h[1..k] \in X}
<1>1. h[1..0] = b
  <2>1. 1..0 = {}
        OBVIOUS
  <2> QED BY <2>1
<1>2. \A k \in 0..(n - 1) : h[1..k] \in X => h[1..(k + 1)] = g[h[1..k]][k + 1]
  <2> SUFFICES ASSUME NEW k \in 0..(n - 1), h[1..k] \in X
               PROVE  h[1..(k + 1)] = g[h[1..k]][k + 1]
      OBVIOUS
  <2>1. /\ 1..(k + 1) \in SUBSET (1..n) /\ 1..(k + 1) # {}
        /\ Resolver!Max(1..(k + 1)) = k + 1 /\ (1..(k + 1)) \ {k + 1} = 1..k
        BY UpTo
  <2> QED BY <2>1
<1>3. \A k \in 0..n : h[1..k] \in X
  <2>1. 0 \in S
        BY <1>1
  <2>2. ASSUME NEW k \in Nat, k \in S  PROVE k + 1 \in S
    <3> SUFFICES ASSUME k + 1 <= n  PROVE h[1..(k + 1)] \in X
        OBVIOUS
    <3>1. k \in 0..(n - 1) /\ h[1..k] \in X /\ k + 1 \in 1..n
          BY <2>2
    <3> QED BY <1>2, <3>1
  <2> HIDE DEF S
  <2>3. Nat \subseteq S
        BY <2>1, <2>2, Counting
  <2> QED BY <2>3 DEF S
<1>4. f \in [0..n -> X] /\ f[0] = b /\ f[n] = h[1..n]
      BY <1>1, <1>3
<1>5. \A k \in 0..(n - 1) : f[k + 1] = g[f[k]][k + 1]
      BY <1>2, <1>3
<1> HIDE DEF f
<1>6. Stepwise(n, X, b, g, h, f)
      BY <1>4, <1>5 DEF Stepwise
<1> QED BY <1>6

\* The number of a part of a version, digit by digit.
LEMMA NumberDef ==
    ASSUME NEW p \in Seq(Nat)
    PROVE  \E f \in [0..Len(p) -> Nat] :
              /\ f[0] = 0 /\ Resolver!Number(p) = f[Len(p)]
              /\ \A k \in 0..(Len(p) - 1) : f[k + 1] = 10 * f[k] + p[k + 1]
<1> DEFINE n == Len(p)
           g == [x \in Nat |-> [i \in 1..n |-> 10 * x + p[i]]]
           Is(h) == h = [s \in SUBSET (1..n) |-> IF s = {} THEN 0
                            ELSE 10 * h[s \ {Resolver!Max(s)}] + p[Resolver!Max(s)]]
<1>1. n \in Nat /\ DOMAIN p = 1..n /\ \A i \in 1..n : p[i] \in Nat
      BY LenProperties, ElementOfSeq
<1>2. Resolver!Number(p) = (CHOOSE h : Is(h))[1..n]
      BY <1>1, Zenon DEF Resolver!Number, Resolver!FoldLeft, Resolver!MapThenFoldSet
<1>3. g \in [Nat -> [1..n -> Nat]]
      BY <1>1
<1>4. \A x \in Nat, i \in 1..n : g[x][i] = 10 * x + p[i]
      OBVIOUS
<1> HIDE DEF n, g
<1>5. \A s \in SUBSET (1..n) : s # {} => Resolver!Max(s) \in 1..n
      BY <1>1, Greatest
<1>6. PICK h0 : Folds(n, Nat, 0, g, h0)
      BY <1>1, <1>3, FoldExists
<1>7. Is(h0)
  <2>1. ASSUME NEW s \in SUBSET (1..n), s # {}
        PROVE  h0[s] = 10 * h0[s \ {Resolver!Max(s)}] + p[Resolver!Max(s)]
    <3>1. h0[s \ {Resolver!Max(s)}] \in Nat
          BY <1>6 DEF Folds
    <3> QED BY <1>4, <1>5, <1>6, <2>1, <3>1 DEF Folds
  <2> QED BY <1>6, <2>1 DEF Folds
<1> DEFINE h == CHOOSE x : Is(x)
<1>8. Is(h)
      BY <1>7
<1>9. Resolver!Number(p) = h[1..n]
      BY <1>2
<1> HIDE DEF h
<1>10. h[{}] = 0
      BY <1>8
<1>11. \A s \in SUBSET (1..n) :
          s # {} /\ h[s \ {Resolver!Max(s)}] \in Nat =>
             h[s] = g[h[s \ {Resolver!Max(s)}]][Resolver!Max(s)]
  <2> SUFFICES ASSUME NEW s \in SUBSET (1..n), s # {}, h[s \ {Resolver!Max(s)}] \in Nat
               PROVE  h[s] = g[h[s \ {Resolver!Max(s)}]][Resolver!Max(s)]
      OBVIOUS
  <2>1. h[s] = 10 * h[s \ {Resolver!Max(s)}] + p[Resolver!Max(s)]
        BY <1>8
  <2> QED BY <1>4, <1>5, <2>1
<1>12. PICK f : Stepwise(n, Nat, 0, g, h, f)
  <2>1. FoldsBy(n, Nat, 0, g, h)
        BY <1>10, <1>11 DEF FoldsBy
  <2>2. n \in Nat /\ 0 \in Nat
        BY <1>1
  <2> QED BY <1>3, <2>1, <2>2, FoldValues
<1>13. \A k \in 0..(n - 1) : f[k + 1] = 10 * f[k] + p[k + 1]
  <2> SUFFICES ASSUME NEW k \in 0..(n - 1)  PROVE f[k + 1] = 10 * f[k] + p[k + 1]
      OBVIOUS
  <2>1. f[k] \in Nat /\ k + 1 \in 1..n
        BY <1>1, <1>12 DEF Stepwise
  <2> QED BY <1>4, <1>12, <2>1 DEF Stepwise
<1> QED BY <1>9, <1>12, <1>13 DEF n, Stepwise

\* AddToComponentVector, one component after the other.
Adding(C, b, q, f) ==
    /\ f \in [0..Len(q) -> Seq(C)] /\ f[0] = b
    /\ Resolver!FoldLeft(Resolver!AddToComponentVector, b, q) = f[Len(q)]
    /\ \A k \in 0..(Len(q) - 1) : f[k + 1] = Resolver!AddToComponentVector(f[k], q[k + 1])

LEMMA AddingDef ==
    ASSUME NEW C, NEW b \in Seq(C), NEW q \in Seq(C)
    PROVE  \E f : Adding(C, b, q, f)
<1> DEFINE n == Len(q)
           g == [x \in Seq(C) |-> [i \in 1..n |-> Resolver!AddToComponentVector(x, q[i])]]
           Is(h) == h = [s \in SUBSET (1..n) |-> IF s = {} THEN b
                            ELSE Resolver!AddToComponentVector(h[s \ {Resolver!Max(s)}],
                                                               q[Resolver!Max(s)])]
<1>1. n \in Nat /\ DOMAIN q = 1..n /\ \A i \in 1..n : q[i] \in C
      BY LenProperties, ElementOfSeq
<1>2. Resolver!FoldLeft(Resolver!AddToComponentVector, b, q) = (CHOOSE h : Is(h))[1..n]
      BY <1>1, Zenon DEF Resolver!FoldLeft, Resolver!MapThenFoldSet
<1>3. g \in [Seq(C) -> [1..n -> Seq(C)]]
  <2> SUFFICES ASSUME NEW x \in Seq(C), NEW i \in 1..n
               PROVE  Resolver!AddToComponentVector(x, q[i]) \in Seq(C)
      BY Zenon
  <2>1. Append(x, q[i]) \in Seq(C)
        BY <1>1, AppendProperties
  <2> QED BY <2>1 DEF Resolver!AddToComponentVector
<1>4. \A x \in Seq(C), i \in 1..n : g[x][i] = Resolver!AddToComponentVector(x, q[i])
      BY Zenon
<1> HIDE DEF n, g
<1>5. \A s \in SUBSET (1..n) : s # {} => Resolver!Max(s) \in 1..n
      BY <1>1, Greatest
<1>6. PICK h0 : Folds(n, Seq(C), b, g, h0)
      BY <1>1, <1>3, FoldExists
<1>7. Is(h0)
  <2>1. ASSUME NEW s \in SUBSET (1..n), s # {}
        PROVE  h0[s] = Resolver!AddToComponentVector(h0[s \ {Resolver!Max(s)}],
                                                     q[Resolver!Max(s)])
    <3>1. h0[s \ {Resolver!Max(s)}] \in Seq(C)
          BY <1>6 DEF Folds
    <3> QED BY <1>4, <1>5, <1>6, <2>1, <3>1 DEF Folds
  <2> QED BY <1>6, <2>1 DEF Folds
<1> DEFINE h == CHOOSE x : Is(x)
<1>8. Is(h)
      BY <1>7
<1>9. Resolver!FoldLeft(Resolver!AddToComponentVector, b, q) = h[1..n]
      BY <1>2
<1> HIDE DEF h
<1>10. h[{}] = b
      BY <1>8
<1>11. \A s \in SUBSET (1..n) :
          s # {} /\ h[s \ {Resolver!Max(s)}] \in Seq(C) =>
             h[s] = g[h[s \ {Resolver!Max(s)}]][Resolver!Max(s)]
  <2> SUFFICES ASSUME NEW s \in SUBSET (1..n), s # {}, h[s \ {Resolver!Max(s)}] \in Seq(C)
               PROVE  h[s] = g[h[s \ {Resolver!Max(s)}]][Resolver!Max(s)]
      OBVIOUS
  <2>1. h[s] = Resolver!AddToComponentVector(h[s \ {Resolver!Max(s)}], q[Resolver!Max(s)])
        BY <1>8
  <2> QED BY <1>4, <1>5, <2>1
<1>12. PICK f : Stepwise(n, Seq(C), b, g, h, f)
  <2>1. FoldsBy(n, Seq(C), b, g, h)
        BY <1>10, <1>11 DEF FoldsBy
  <2>2. n \in Nat /\ b \in Seq(C)
        BY <1>1
  <2> QED BY <1>3, <2>1, <2>2, FoldValues
<1>13. \A k \in 0..(n - 1) : f[k + 1] = Resolver!AddToComponentVector(f[k], q[k + 1])
  <2> SUFFICES ASSUME NEW k \in 0..(n - 1)
               PROVE  f[k + 1] = Resolver!AddToComponentVector(f[k], q[k + 1])
      OBVIOUS
  <2>1. f[k] \in Seq(C) /\ k + 1 \in 1..n
        BY <1>1, <1>12 DEF Stepwise
  <2> QED BY <1>4, <1>12, <2>1 DEF Stepwise
<1> QED BY <1>9, <1>12, <1>13 DEF n, Adding, Stepwise

\* Adding keeps what is there, in its place, and adds behind it what is new.
Adds(b, q, r) ==
    /\ Len(b) <= Len(r) /\ \A i \in 1..Len(b) : r[i] = b[i]
    /\ \A i \in 1..Len(r) : i > Len(b) => r[i] \in Elements(q) \ Elements(b)
    /\ Elements(q) \subseteq Elements(r)

LEMMA AddingAdds ==
    ASSUME NEW C, NEW b \in Seq(C), NEW q \in Seq(C)
    PROVE  LET r == Resolver!FoldLeft(Resolver!AddToComponentVector, b, q)
           IN  r \in Seq(C) /\ Adds(b, q, r)
<1> DEFINE n == Len(q)
           r == Resolver!FoldLeft(Resolver!AddToComponentVector, b, q)
<1>1. PICK f \in [0..n -> Seq(C)] :
         /\ f[0] = b /\ r = f[n]
         /\ \A k \in 0..(n - 1) : f[k + 1] = Resolver!AddToComponentVector(f[k], q[k + 1])
  <2>1. PICK f : Adding(C, b, q, f)
        BY AddingDef
  <2> QED BY <2>1 DEF Adding
<1> HIDE DEF r
<1>2. n \in Nat /\ \A i \in 1..n : q[i] \in C
      BY LenProperties, ElementOfSeq
<1> HIDE DEF n
<1> DEFINE Added(k) ==
             /\ Len(b) <= Len(f[k]) /\ \A i \in 1..Len(b) : f[k][i] = b[i]
             /\ \A i \in 1..Len(f[k]) : i > Len(b) => f[k][i] \in Elements(q) \ Elements(b)
             /\ \A i \in 1..k : q[i] \in Elements(f[k])
           S == {k \in Nat : k <= n => Added(k)}
<1>3. Len(b) \in Nat
      BY LenProperties
<1>4. 0 \in S
      BY <1>1, <1>3
<1>5. ASSUME NEW k \in Nat, k \in S  PROVE k + 1 \in S
  <2> SUFFICES ASSUME k + 1 <= n  PROVE Added(k + 1)
      OBVIOUS
  <2> DEFINE s == f[k]
             t == f[k + 1]
             c == q[k + 1]
  <2>1. /\ s \in Seq(C) /\ Len(s) \in Nat /\ c \in C /\ c \in Elements(q)
        /\ k \in 0..(n - 1)
    <3>1. k \in 0..n /\ k \in 0..(n - 1) /\ k + 1 \in 1..n
          BY <1>2
    <3>2. s \in Seq(C)
          BY <3>1
    <3> QED BY <1>2, <3>1, <3>2, LenProperties DEF Elements, n
  <2>2. Added(k)
        BY <1>2, <1>5
  <2>3. t = IF c \in Resolver!Range(s) THEN s ELSE Append(s, c)
        BY <1>1, <2>1 DEF Resolver!AddToComponentVector
  <2>4. Resolver!Range(s) = Elements(s)
        BY <2>1, LenProperties DEF Resolver!Range, Elements
  <2>5. CASE c \in Elements(s)
    <3>1. t = s
          BY <2>3, <2>4, <2>5
    <3>2. \A i \in 1..(k + 1) : i \in 1..k \/ i = k + 1
          OBVIOUS
    <3>3. \A i \in 1..(k + 1) : q[i] \in Elements(s)
          BY <2>2, <2>5, <3>2
    <3> QED BY <2>2, <3>1, <3>3
  <2>6. CASE c \notin Elements(s)
    <3>1. /\ Len(t) = Len(s) + 1 /\ t[Len(s) + 1] = c
          /\ \A i \in 1..Len(s) : t[i] = s[i]
          BY <2>1, <2>3, <2>4, <2>6, AppendProperties
    <3>2. /\ Len(b) <= Len(s) /\ \A i \in 1..Len(b) : s[i] = b[i]
          /\ \A i \in 1..Len(s) : i > Len(b) => s[i] \in Elements(q) \ Elements(b)
          /\ \A i \in 1..k : q[i] \in Elements(s)
          BY <2>2
    <3> HIDE DEF s, t
    <3>3. ASSUME NEW x \in Elements(b)  PROVE x \in Elements(s)
      <4>1. PICK i \in 1..Len(b) : x = b[i]
            BY DEF Elements
      <4>2. i \in 1..Len(s) /\ s[i] = x
            BY <1>3, <2>1, <3>2, <4>1
      <4> QED BY <4>2 DEF Elements
    <3>4. c \notin Elements(b) /\ Elements(s) \cup {c} \subseteq Elements(t)
      <4>1. \A x \in Elements(s) : x \in Elements(t)
            BY <2>1, <3>1 DEF Elements
      <4>2. Len(s) + 1 \in 1..Len(t)
            BY <2>1, <3>1
      <4>3. c \in Elements(t)
            BY <3>1, <4>2 DEF Elements
      <4> QED BY <2>6, <3>3, <4>1, <4>3
    <3>5. Len(b) <= Len(t) /\ \A i \in 1..Len(b) : t[i] = b[i]
          BY <1>3, <2>1, <3>1, <3>2
    <3>6. \A i \in 1..Len(t) : i > Len(b) => t[i] \in Elements(q) \ Elements(b)
      <4> SUFFICES ASSUME NEW i \in 1..Len(t), i > Len(b)
                   PROVE  t[i] \in Elements(q) \ Elements(b)
          OBVIOUS
      <4>1. CASE i \in 1..Len(s)
            BY <3>1, <3>2, <4>1
      <4>2. CASE i \notin 1..Len(s)
        <5>1. i = Len(s) + 1
              BY <2>1, <3>1, <4>2
        <5> QED BY <2>1, <3>1, <3>4, <5>1
      <4> QED BY <4>1, <4>2
    <3>7. \A i \in 1..(k + 1) : q[i] \in Elements(t)
      <4>1. \A i \in 1..(k + 1) : i \in 1..k \/ i = k + 1
            OBVIOUS
      <4> QED BY <3>2, <3>4, <4>1
    <3> QED BY <3>5, <3>6, <3>7 DEF t
  <2> QED BY <2>5, <2>6
<1> HIDE DEF S
<1>6. n \in S
      BY <1>2, <1>4, <1>5, Counting
<1>7. Added(n)
      BY <1>2, <1>6 DEF S
<1>8. f[n] \in Seq(C) /\ Adds(b, q, f[n])
  <2>1. Elements(q) \subseteq Elements(f[n])
        BY <1>7 DEF Elements, n
  <2> QED BY <1>2, <1>7, <2>1 DEF Adds
<1> QED BY <1>1, <1>8 DEF r

(***************************************************************************)
(* The components found.                                                   *)
(***************************************************************************)
Comp == [version : Resolver!Version, path : Resolver!Directory]
Scanned == installed \in [Resolver!Directory -> SUBSET Resolver!Version]
           /\ \A d \in Resolver!Directory : IsFiniteSet(installed[d])
OfPath(d) == {[version |-> v, path |-> d] : v \in installed[d]}

\* A set is listed with all its elements.
LEMMA Listing ==
    ASSUME NEW S, IsFiniteSet(S)
    PROVE  /\ Resolver!SetToSeq(S) \in Seq(S)
           /\ Elements(Resolver!SetToSeq(S)) = S
<1> DEFINE n == Cardinality(S)
           t == Resolver!SetToSeq(S)
<1>1. n \in Nat /\ ExistsBijection(1..n, S)
      BY FS_CardinalityType
<1>2. Resolver!Cardinality(S) = n
      BY DEF Resolver!Cardinality, Cardinality, Resolver!IsFiniteSet, IsFiniteSet
<1>3. PICK f \in [1..n -> S] : \A a, b \in 1..n : f[a] = f[b] => a = b
      BY <1>1 DEF ExistsBijection, Bijection, Injection, IsInjective
<1>4. f \in [1..n -> S] /\ Resolver!IsInjective(f)
      BY <1>3 DEF Resolver!IsInjective
<1>5. t \in [1..n -> S] /\ Resolver!IsInjective(t)
      BY <1>2, <1>4 DEF Resolver!SetToSeq
<1> HIDE DEF n, t
<1>6. \A a, b \in 1..n : t[a] = t[b] => a = b
      BY <1>5 DEF Resolver!IsInjective
<1>7. t \in Injection(1..n, S)
      BY <1>5, <1>6 DEF Injection, IsInjective
<1>8. Cardinality(1..n) = n
      BY <1>1, FS_Interval
<1>9. t \in Surjection(1..n, S)
      BY <1>7, <1>8, FS_Injection DEF n
<1>10. \A x \in S : \E i \in 1..n : t[i] = x
       BY <1>9 DEF Surjection
<1>11. t \in Seq(S) /\ Len(t) = n
       BY <1>1, <1>5
<1> QED BY <1>5, <1>10, <1>11 DEF Elements, t

LEMMA ScanDef ==
    ASSUME Scanned, NEW d \in Resolver!Directory
    PROVE  Resolver!Scan(d) \in Seq(Comp) /\ Elements(Resolver!Scan(d)) = OfPath(d)
<1> DEFINE S == installed[d]
           t == Resolver!SetToSeq(S)
           q == [i \in DOMAIN t |-> [version |-> t[i], path |-> d]]
<1>1. S \subseteq Resolver!Version /\ IsFiniteSet(S)
      BY DEF Scanned
<1>2. t \in Seq(S) /\ Elements(t) = S
      BY <1>1, Listing
<1>3. Resolver!Scan(d) = q
      BY DEF Resolver!Scan
<1> HIDE DEF t
<1>4. Len(t) \in Nat /\ DOMAIN t = 1..Len(t) /\ \A i \in 1..Len(t) : t[i] \in S
      BY <1>2, LenProperties, ElementOfSeq
<1>5. \A i \in 1..Len(t) : [version |-> t[i], path |-> d] \in Comp
      BY <1>1, <1>4 DEF Comp
<1>6. q \in Seq(Comp) /\ Len(q) = Len(t)
      BY <1>4, <1>5
<1>7. \A i \in 1..Len(t) : q[i] = [version |-> t[i], path |-> d]
      BY <1>4
<1> HIDE DEF q
<1>8. Elements(q) = OfPath(d)
  <2>1. ASSUME NEW x \in Elements(q)  PROVE x \in OfPath(d)
        BY <1>4, <1>6, <1>7, <2>1 DEF Elements, OfPath
  <2>2. ASSUME NEW v \in S  PROVE [version |-> v, path |-> d] \in Elements(q)
    <3>1. PICK i \in 1..Len(t) : t[i] = v
          BY <1>2, <2>2 DEF Elements
    <3>2. q[i] = [version |-> v, path |-> d] /\ i \in 1..Len(q)
          BY <1>6, <1>7, <3>1
    <3> QED BY <3>2 DEF Elements
  <2> QED BY <2>1, <2>2 DEF OfPath
<1> QED BY <1>3, <1>6, <1>8

\* What GetInstalledComponents has before it sorts, one directory after the other.
Gathering(f) ==
    /\ f \in [0..Len(SearchPath) -> Seq(Comp)] /\ f[0] = <<>>
    /\ Resolver!GetInstalledComponents =
          Resolver!StableSort(f[Len(SearchPath)], Resolver!WeakCompareComponents)
    /\ \A k \in 0..(Len(SearchPath) - 1) :
          Adds(f[k], Resolver!Scan(SearchPath[k + 1]), f[k + 1])

LEMMA PathIsSeq ==
    /\ SearchPath \in Seq(Resolver!Directory) /\ Len(SearchPath) \in Nat
    /\ DOMAIN SearchPath = 1..Len(SearchPath)
    /\ \A i \in 1..Len(SearchPath) : SearchPath[i] \in Resolver!Directory
    /\ \A d \in Resolver!Directory : \E i \in 1..Len(SearchPath) : SearchPath[i] = d
    /\ "bundled" \notin Resolver!Directory /\ "null" \notin Resolver!Directory
<1>1. SearchPath \in Seq(Resolver!Directory \ {"bundled", "null"})
      BY ResolverAssumption DEF Resolver!DependenciesAssumption, Resolver!Directory
<1>2. /\ Len(SearchPath) \in Nat /\ DOMAIN SearchPath = 1..Len(SearchPath)
      /\ \A i \in 1..Len(SearchPath) : SearchPath[i] \in Resolver!Directory \ {"bundled", "null"}
      BY <1>1, LenProperties, ElementOfSeq
<1>3. SearchPath \in Seq(Resolver!Directory)
      BY <1>1
<1>4. \A d \in Resolver!Directory : \E i \in 1..Len(SearchPath) : SearchPath[i] = d
      BY <1>2 DEF Resolver!Directory, Resolver!Range
<1> QED BY <1>2, <1>3, <1>4

LEMMA GatheringDef ==
    ASSUME Scanned
    PROVE  \E f : Gathering(f)
<1> DEFINE n == Len(SearchPath)
           Plus(x, d) == Resolver!FoldLeft(Resolver!AddToComponentVector, x, Resolver!Scan(d))
           X == Seq(Comp)
           g == [x \in X |-> [i \in 1..n |-> Plus(x, SearchPath[i])]]
           Is(h) == h = [s \in SUBSET (1..n) |-> IF s = {} THEN <<>>
                            ELSE Plus(h[s \ {Resolver!Max(s)}], SearchPath[Resolver!Max(s)])]
<1>1. /\ n \in Nat /\ DOMAIN SearchPath = 1..n
      /\ \A i \in 1..n : SearchPath[i] \in Resolver!Directory
      BY PathIsSeq
<1>2. Resolver!GetInstalledComponents =
         Resolver!StableSort((CHOOSE h : Is(h))[1..n], Resolver!WeakCompareComponents)
      BY <1>1, Zenon DEF Resolver!GetInstalledComponents, Resolver!FoldLeft, Resolver!MapThenFoldSet
<1>3. \A x \in X, i \in 1..n : Plus(x, SearchPath[i]) \in X /\ Adds(x, Resolver!Scan(SearchPath[i]), Plus(x, SearchPath[i]))
  <2> SUFFICES ASSUME NEW x \in X, NEW i \in 1..n
               PROVE  /\ Plus(x, SearchPath[i]) \in X
                      /\ Adds(x, Resolver!Scan(SearchPath[i]), Plus(x, SearchPath[i]))
      BY Zenon
  <2>1. Resolver!Scan(SearchPath[i]) \in Seq(Comp)
        BY <1>1, ScanDef
  <2> QED BY <2>1, AddingAdds
<1>4. <<>> \in X
      OBVIOUS
<1> HIDE DEF n, Plus, X
<1>5. g \in [X -> [1..n -> X]] /\ \A x \in X, i \in 1..n : g[x][i] = Plus(x, SearchPath[i])
      BY <1>3
<1> HIDE DEF g
<1>6. \A s \in SUBSET (1..n) : s # {} => Resolver!Max(s) \in 1..n
      BY <1>1, Greatest
<1>7. PICK h0 : Folds(n, X, <<>>, g, h0)
      BY <1>1, <1>4, <1>5, FoldExists
<1>8. Is(h0)
  <2>1. ASSUME NEW s \in SUBSET (1..n), s # {}
        PROVE  h0[s] = Plus(h0[s \ {Resolver!Max(s)}], SearchPath[Resolver!Max(s)])
    <3>1. h0[s \ {Resolver!Max(s)}] \in X
          BY <1>7 DEF Folds
    <3> QED BY <1>5, <1>6, <1>7, <2>1, <3>1 DEF Folds
  <2> QED BY <1>7, <2>1 DEF Folds
<1> DEFINE h == CHOOSE x : Is(x)
<1>9. Is(h)
      BY <1>8
<1>10. Resolver!GetInstalledComponents =
         Resolver!StableSort(h[1..n], Resolver!WeakCompareComponents)
      BY <1>2
<1> HIDE DEF h
<1>11. FoldsBy(n, X, <<>>, g, h)
  <2>1. h[{}] = <<>>
        BY <1>9
  <2>2. ASSUME NEW s \in SUBSET (1..n), s # {}, h[s \ {Resolver!Max(s)}] \in X
        PROVE  h[s] = g[h[s \ {Resolver!Max(s)}]][Resolver!Max(s)]
    <3>1. h[s] = Plus(h[s \ {Resolver!Max(s)}], SearchPath[Resolver!Max(s)])
          BY <1>9, <2>2
    <3> QED BY <1>5, <1>6, <2>2, <3>1
  <2> QED BY <2>1, <2>2 DEF FoldsBy
<1>12. PICK f : Stepwise(n, X, <<>>, g, h, f)
       BY <1>1, <1>4, <1>5, <1>11, FoldValues
<1>13. ASSUME NEW k \in 0..(n - 1)
       PROVE  Adds(f[k], Resolver!Scan(SearchPath[k + 1]), f[k + 1])
  <2>1. f[k] \in X /\ k + 1 \in 1..n
        BY <1>1, <1>12 DEF Stepwise
  <2>2. f[k + 1] = Plus(f[k], SearchPath[k + 1])
        BY <1>5, <1>12, <2>1 DEF Stepwise
  <2> QED BY <1>3, <2>1, <2>2
<1>14. f \in [0..n -> X] /\ f[0] = <<>> /\ h[1..n] = f[n]
       BY <1>12 DEF Stepwise
<1>15. Gathering(f)
       BY <1>10, <1>13, <1>14 DEF Gathering, n, X
<1> QED BY <1>15

\* All that is gathered: what the directories hold, and that of the first directory
\* before all else.
FirstsFirst(s) ==
    \A i, j \in 1..Len(s) : i < j /\ s[j].path = SearchPath[1] => s[i].path = SearchPath[1]

LEMMA Gathered ==
    ASSUME Scanned
    PROVE  \E s \in Seq(Comp) :
              /\ Resolver!GetInstalledComponents =
                    Resolver!StableSort(s, Resolver!WeakCompareComponents)
              /\ FirstsFirst(s)
              /\ Elements(s) = UNION {OfPath(d) : d \in Resolver!Directory}
<1> DEFINE n == Len(SearchPath)
<1>1. PICK f : Gathering(f)
      BY GatheringDef
<1>2. n \in Nat /\ \A i \in 1..n : SearchPath[i] \in Resolver!Directory
      BY PathIsSeq
<1> DEFINE Of(k) ==
             /\ \A x \in Elements(f[k]) : \E i \in 1..k : x \in OfPath(SearchPath[i])
             /\ \A i \in 1..k : OfPath(SearchPath[i]) \subseteq Elements(f[k])
             /\ FirstsFirst(f[k])
           S == {k \in Nat : k <= n => Of(k)}
<1>3. 0 \in S
  <2>1. f[0] = <<>> /\ Elements(f[0]) = {}
        BY <1>1 DEF Gathering, Elements
  <2> QED BY <2>1 DEF FirstsFirst
<1>4. ASSUME NEW k \in Nat, k \in S  PROVE k + 1 \in S
  <2> SUFFICES ASSUME k + 1 <= n  PROVE Of(k + 1)
      OBVIOUS
  <2> DEFINE d == SearchPath[k + 1]
             q == Resolver!Scan(d)
             s == f[k]
             t == f[k + 1]
  <2>1. k \in 0..n /\ k + 1 \in 0..n /\ k \in 0..(n - 1) /\ k + 1 \in 1..n
        BY <1>2
  <2>2. s \in Seq(Comp) /\ t \in Seq(Comp) /\ Adds(s, q, t)
        BY <1>1, <2>1 DEF Gathering
  <2>3. d \in Resolver!Directory /\ Elements(q) = OfPath(d)
        BY <1>2, <2>1, ScanDef
  <2>4. Len(s) \in Nat /\ Len(t) \in Nat
        BY <2>2, LenProperties
  <2>5. Of(k)
        BY <1>2, <1>4
  <2> HIDE DEF q
  <2>6. Elements(t) = Elements(s) \cup OfPath(d)
    <3>1. \A x \in Elements(s) : x \in Elements(t)
          BY <2>2, <2>4 DEF Adds, Elements
    <3>2. \A x \in Elements(t) : x \in Elements(s) \/ x \in OfPath(d)
          BY <2>2, <2>3, <2>4 DEF Adds, Elements
    <3> QED BY <2>2, <2>3, <3>1, <3>2 DEF Adds
  <2>7. \A i \in 1..(k + 1) : i \in 1..k \/ i = k + 1
        OBVIOUS
  <2>8. /\ \A x \in Elements(t) : \E i \in 1..(k + 1) : x \in OfPath(SearchPath[i])
        /\ \A i \in 1..(k + 1) : OfPath(SearchPath[i]) \subseteq Elements(t)
        BY <2>1, <2>5, <2>6, <2>7
  <2>9. FirstsFirst(t)
    <3>a. FirstsFirst(s)
        BY <2>5
    <3>b. \A x \in OfPath(d) : x.path = d
        BY DEF OfPath
    <3> HIDE DEF d, s, t
    <3> SUFFICES ASSUME NEW i \in 1..Len(t), NEW j \in 1..Len(t), i < j,
                        t[j].path = SearchPath[1]
                 PROVE  t[i].path = SearchPath[1]
        BY DEF FirstsFirst
    <3>1. CASE j <= Len(s)
      <4>1. i \in 1..Len(s) /\ j \in 1..Len(s) /\ t[i] = s[i] /\ t[j] = s[j]
            BY <2>2, <2>4, <3>1 DEF Adds
      <4> QED BY <3>a, <4>1 DEF FirstsFirst
    <3>2. CASE j > Len(s)
      <4>1. t[j] \in OfPath(d) /\ t[j] \notin Elements(s)
            BY <2>2, <2>3, <3>2 DEF Adds
      <4>2. d = SearchPath[1]
            BY <3>b, <4>1
      <4>3. k = 0
        <5>1. SUFFICES ASSUME k # 0  PROVE FALSE
              OBVIOUS
        <5>2. 1 \in 1..k
              BY <5>1
        <5> QED BY <2>5, <4>1, <4>2, <5>2 DEF d, s
      <4>4. Len(s) = 0
            BY <1>1, <4>3 DEF Gathering, s
      <4>5. t[i] \in OfPath(d)
            BY <2>2, <2>3, <4>4 DEF Adds
      <4> QED BY <3>b, <4>2, <4>5
    <3> QED BY <2>4, <3>1, <3>2
  <2> QED BY <2>8, <2>9
<1> HIDE DEF S
<1>5. n \in S
      BY <1>2, <1>3, <1>4, Counting
<1>6. Of(n)
      BY <1>2, <1>5 DEF S
<1>7. f[n] \in Seq(Comp)
      BY <1>1, <1>2 DEF Gathering
<1>8. Resolver!GetInstalledComponents =
         Resolver!StableSort(f[n], Resolver!WeakCompareComponents)
      BY <1>1 DEF Gathering
<1>9. Elements(f[n]) = UNION {OfPath(d) : d \in Resolver!Directory}
  <2>1. \A x \in Elements(f[n]) : \E d \in Resolver!Directory : x \in OfPath(d)
        BY <1>2, <1>6
  <2>2. \A d \in Resolver!Directory : OfPath(d) \subseteq Elements(f[n])
        BY <1>6, PathIsSeq
  <2> QED BY <2>1, <2>2
<1> QED BY <1>6, <1>7, <1>8, <1>9

(***************************************************************************)
(* Orders.                                                                 *)
(***************************************************************************)
\* R is a strict total order on S.
TotalOn(S, R) ==
    /\ \A x, y \in S : x = y \/ <<x, y>> \in R \/ <<y, x>> \in R
    /\ \A x, y \in S : ~(<<x, y>> \in R /\ <<y, x>> \in R)
    /\ \A x, y, z \in S : <<x, y>> \in R /\ <<y, z>> \in R => <<x, z>> \in R

\* The Min of the community modules is the least element.
LEMMA Least ==
    ASSUME NEW s, s \subseteq Nat, s # {}
    PROVE  Resolver!Min(s) \in s /\ \A m \in s : Resolver!Min(s) <= m
<1>1. \E x \in s : \A y \in s : x =< y
  <2>1. SUFFICES ASSUME \A x \in s : \E y \in s : ~(x =< y)  PROVE FALSE
        OBVIOUS
  <2> DEFINE S == {k \in Nat : \A m \in s : k <= m}
  <2>2. 0 \in S
        OBVIOUS
  <2>3. ASSUME NEW k \in Nat, k \in S  PROVE k + 1 \in S
        BY <2>1, <2>3
  <2> HIDE DEF S
  <2>4. Nat \subseteq S
        BY <2>2, <2>3, Counting
  <2>5. PICK m \in s : TRUE
        OBVIOUS
  <2>6. m + 1 \in S
        BY <2>4, <2>5
  <2> QED BY <2>5, <2>6 DEF S
<1> QED BY <1>1 DEF Resolver!Min

\* Where two sequences differ first, and that they do not differ.
Differ(s, t, i) ==
    /\ i \in 1..Len(s) /\ i \in 1..Len(t) /\ s[i] # t[i]
    /\ \A j \in 1..(i - 1) : s[j] = t[j]

Alike(s, t) == \A i \in 1..Len(s) : i <= Len(t) => s[i] = t[i]

LEMMA FirstDifference ==
    ASSUME NEW S, NEW s \in Seq(S), NEW t \in Seq(S)
    PROVE  /\ Resolver!Differing(s, t) = {} => Alike(s, t)
           /\ Resolver!Differing(s, t) # {} =>
                 Differ(s, t, Resolver!Min(Resolver!Differing(s, t)))
           /\ Resolver!Differing(s, t) = Resolver!Differing(t, s)
<1> DEFINE m == Resolver!Min({Len(s), Len(t)})
<1>1. Len(s) \in Nat /\ Len(t) \in Nat
      BY LenProperties
<1>2. m \in {Len(s), Len(t)} /\ m <= Len(s) /\ m <= Len(t)
      BY <1>1, Least
<1>3. Resolver!Common(s, t) = 1..m /\ Resolver!Common(t, s) = 1..m
  <2>1. {Len(t), Len(s)} = {Len(s), Len(t)}
        OBVIOUS
  <2> QED BY <2>1, Zenon DEF Resolver!Common
<1> HIDE DEF m
<1>4. /\ Resolver!Differing(s, t) = {i \in 1..m : s[i] # t[i]}
      /\ Resolver!Differing(t, s) = {i \in 1..m : t[i] # s[i]}
      BY <1>3, Zenon DEF Resolver!Differing
<1>5. ASSUME Resolver!Differing(s, t) # {}
      PROVE  Differ(s, t, Resolver!Min(Resolver!Differing(s, t)))
  <2> DEFINE D == Resolver!Differing(s, t)
             i == Resolver!Min(D)
  <2>1. D \subseteq Nat /\ D \subseteq 1..m
        BY <1>4
  <2>2. i \in D /\ \A j \in D : i <= j
        BY <2>1, <1>5, Least
  <2>3. i \in 1..m /\ s[i] # t[i]
        BY <2>2, <1>4
  <2> HIDE DEF i, D
  <2>4. i \in 1..Len(s) /\ i \in 1..Len(t)
        BY <1>1, <1>2, <2>3
  <2>5. ASSUME NEW j \in 1..(i - 1)  PROVE s[j] = t[j]
    <3>1. j \in 1..m /\ ~(i <= j)
          BY <1>1, <1>2, <2>3
    <3>2. j \notin D
          BY <2>2, <3>1
    <3> QED BY <1>4, <3>1, <3>2 DEF D
  <2> QED BY <2>3, <2>4, <2>5 DEF Differ, i, D
<1>6. ASSUME Resolver!Differing(s, t) = {}  PROVE Alike(s, t)
  <2>1. \A i \in 1..m : s[i] = t[i]
        BY <1>4, <1>6
  <2> QED BY <1>1, <1>2, <2>1 DEF Alike
<1>7. Resolver!Differing(s, t) = Resolver!Differing(t, s)
      BY <1>4
<1> QED BY <1>5, <1>6, <1>7

\* The lexicographic order over R.
Lexical(s, t, R) ==
    \/ Len(s) < Len(t) /\ Alike(s, t)
    \/ \E i \in 1..Len(s) : Differ(s, t, i) /\ <<s[i], t[i]>> \in R

LexicalOn(X, R) == {p \in X \X X : Lexical(p[1], p[2], R)}

LEMMA OneDifference ==
    ASSUME NEW S, NEW s \in Seq(S), NEW t \in Seq(S), NEW i, NEW j,
           Differ(s, t, i), Differ(s, t, j)
    PROVE  i = j
<1>1. Len(s) \in Nat /\ i \in 1..Len(s) /\ j \in 1..Len(s)
      BY LenProperties DEF Differ
<1>2. ~(i < j) /\ ~(j < i)
      BY <1>1 DEF Differ
<1> QED BY <1>1, <1>2

LEMMA LexicalTotal ==
    ASSUME NEW S, NEW R, TotalOn(S, R), NEW X, X \subseteq Seq(S)
    PROVE  TotalOn(X, LexicalOn(X, R))
<1>1. ASSUME NEW s \in X, NEW t \in X
      PROVE  s = t \/ Lexical(s, t, R) \/ Lexical(t, s, R)
  <2>1. /\ s \in Seq(S) /\ t \in Seq(S) /\ Len(s) \in Nat /\ Len(t) \in Nat
        /\ \A i \in 1..Len(s) : s[i] \in S
        /\ \A i \in 1..Len(t) : t[i] \in S
        BY LenProperties, ElementOfSeq
  <2>2. CASE Alike(s, t)
    <3>1. CASE Len(s) = Len(t)
      <4>1. \A i \in 1..Len(s) : s[i] = t[i]
            BY <2>1, <2>2, <3>1 DEF Alike
      <4>2. s = t
            BY <2>1, <3>1, <4>1, SeqEqual
      <4> QED BY <4>2
    <3>2. CASE Len(s) # Len(t)
          BY <2>1, <2>2, <3>2 DEF Alike, Lexical
    <3> QED BY <3>1, <3>2
  <2>3. CASE \E i : Differ(s, t, i)
    <3>1. PICK i : Differ(s, t, i)
          BY <2>3
    <3>2. i \in 1..Len(s) /\ i \in 1..Len(t) /\ s[i] # t[i] /\ Differ(t, s, i)
          BY <3>1 DEF Differ
    <3>3. <<s[i], t[i]>> \in R \/ <<t[i], s[i]>> \in R
          BY <2>1, <3>2 DEF TotalOn
    <3> QED BY <3>1, <3>2, <3>3 DEF Lexical
  <2> QED BY <2>1, <2>2, <2>3, FirstDifference
<1>2. ASSUME NEW s \in X, NEW t \in X, Lexical(s, t, R), Lexical(t, s, R)
      PROVE  FALSE
  <2>1. /\ s \in Seq(S) /\ t \in Seq(S) /\ Len(s) \in Nat /\ Len(t) \in Nat
        /\ \A i \in 1..Len(s) : s[i] \in S
        /\ \A i \in 1..Len(t) : t[i] \in S
        BY LenProperties, ElementOfSeq
  <2>2. \A i : Differ(s, t, i) <=> Differ(t, s, i)
        BY DEF Differ
  <2>3. \A i : Differ(s, t, i) => i \in Nat /\ i <= Len(t) /\ ~Alike(s, t) /\ ~Alike(t, s)
        BY <2>1 DEF Differ, Alike
  <2>4. CASE Alike(s, t) \/ Alike(t, s)
    <3>1. Len(s) < Len(t) /\ Len(t) < Len(s)
          BY <1>2, <2>2, <2>3, <2>4 DEF Lexical
    <3> QED BY <2>1, <3>1
  <2>5. CASE ~Alike(s, t) /\ ~Alike(t, s)
    <3>1. PICK i \in 1..Len(s) : Differ(s, t, i) /\ <<s[i], t[i]>> \in R
          BY <1>2, <2>5 DEF Lexical
    <3>2. PICK j \in 1..Len(t) : Differ(t, s, j) /\ <<t[j], s[j]>> \in R
          BY <1>2, <2>5 DEF Lexical
    <3>3. i = j
          BY <2>1, <2>2, <3>1, <3>2, OneDifference
    <3> QED BY <2>1, <3>1, <3>2, <3>3 DEF TotalOn
  <2> QED BY <2>4, <2>5
<1>3. ASSUME NEW s \in X, NEW t \in X, NEW u \in X, Lexical(s, t, R), Lexical(t, u, R)
      PROVE  Lexical(s, u, R)
  <2>1. /\ Len(s) \in Nat /\ Len(t) \in Nat /\ Len(u) \in Nat
        /\ \A i \in 1..Len(s) : s[i] \in S
        /\ \A i \in 1..Len(t) : t[i] \in S
        /\ \A i \in 1..Len(u) : u[i] \in S
        BY LenProperties, ElementOfSeq
  <2>2. ASSUME Alike(s, t), Len(s) < Len(t), Alike(t, u), Len(t) < Len(u)
        PROVE  Len(s) < Len(u) /\ Alike(s, u)
        BY <2>1, <2>2 DEF Alike
  <2>3. ASSUME Alike(s, t), Len(s) < Len(t), NEW j \in 1..Len(t), Differ(t, u, j),
               <<t[j], u[j]>> \in R
        PROVE  Lexical(s, u, R)
    <3>1. CASE j <= Len(s)
      <4>1. s[j] = t[j] /\ j \in 1..Len(s) /\ j \in 1..Len(u)
            BY <2>1, <2>3, <3>1 DEF Alike, Differ
      <4>2. ASSUME NEW k \in 1..(j - 1)  PROVE s[k] = u[k]
        <5>1. k \in 1..Len(s) /\ k <= Len(t)
              BY <2>1, <2>3, <4>1
        <5> QED BY <2>3, <5>1 DEF Alike, Differ
      <4>3. Differ(s, u, j)
            BY <2>3, <4>1, <4>2 DEF Differ
      <4> QED BY <2>3, <4>1, <4>3 DEF Lexical
    <3>2. CASE ~(j <= Len(s))
      <4>1. j \in 1..Len(u) /\ Len(s) < Len(u)
            BY <2>1, <2>3, <3>2 DEF Differ
      <4>2. ASSUME NEW k \in 1..Len(s), k <= Len(u)  PROVE s[k] = u[k]
        <5>1. k \in 1..(j - 1) /\ k <= Len(t)
              BY <2>1, <2>3, <3>2
        <5> QED BY <2>3, <5>1 DEF Alike, Differ
      <4> QED BY <4>1, <4>2 DEF Alike, Lexical
    <3> QED BY <3>1, <3>2
  <2>4. ASSUME NEW i \in 1..Len(s), Differ(s, t, i), <<s[i], t[i]>> \in R,
               Alike(t, u), Len(t) < Len(u)
        PROVE  Lexical(s, u, R)
    <3>1. i \in 1..Len(t) /\ i \in 1..Len(u) /\ t[i] = u[i]
          BY <2>1, <2>4 DEF Differ, Alike
    <3>2. ASSUME NEW k \in 1..(i - 1)  PROVE s[k] = u[k]
      <4>1. k \in 1..Len(t) /\ k <= Len(u)
            BY <2>1, <3>1
      <4> QED BY <2>4, <4>1 DEF Differ, Alike
    <3>3. Differ(s, u, i)
          BY <2>4, <3>1, <3>2 DEF Differ
    <3> QED BY <2>4, <3>1, <3>3 DEF Lexical
  <2>5. ASSUME NEW i \in 1..Len(s), Differ(s, t, i), <<s[i], t[i]>> \in R,
               NEW j \in 1..Len(t), Differ(t, u, j), <<t[j], u[j]>> \in R
        PROVE  Lexical(s, u, R)
    <3>1. i \in 1..Len(t) /\ j \in 1..Len(u)
          BY <2>5 DEF Differ
    <3>2. \A x, y, z \in S : <<x, y>> \in R /\ <<y, z>> \in R => <<x, z>> \in R /\ x # z
          BY DEF TotalOn
    <3>3. CASE i < j
      <4>1. i \in 1..Len(u) /\ t[i] = u[i] /\ \A k \in 1..(i - 1) : s[k] = u[k]
            BY <2>1, <2>5, <3>1, <3>3 DEF Differ
      <4>2. Differ(s, u, i)
            BY <2>5, <4>1 DEF Differ
      <4> QED BY <2>5, <4>1, <4>2 DEF Lexical
    <3>4. CASE i = j
      <4>1. <<s[i], u[i]>> \in R /\ s[i] # u[i]
            BY <2>1, <2>5, <3>1, <3>2, <3>4
      <4>2. \A k \in 1..(i - 1) : s[k] = u[k]
            BY <2>5, <3>4 DEF Differ
      <4>3. Differ(s, u, i)
            BY <3>1, <3>4, <4>1, <4>2 DEF Differ
      <4> QED BY <4>1, <4>3 DEF Lexical
    <3>5. CASE j < i
      <4>1. j \in 1..Len(s) /\ s[j] = t[j] /\ \A k \in 1..(j - 1) : s[k] = u[k]
            BY <2>1, <2>5, <3>1, <3>5 DEF Differ
      <4>2. Differ(s, u, j)
            BY <2>5, <3>1, <4>1 DEF Differ
      <4> QED BY <2>5, <4>1, <4>2 DEF Lexical
    <3> QED BY <2>1, <3>1, <3>3, <3>4, <3>5
  <2> QED BY <1>3, <2>2, <2>3, <2>4, <2>5 DEF Lexical
<1> QED BY <1>1, <1>2, <1>3 DEF TotalOn, LexicalOn

(***************************************************************************)
(* Versions are in a strict total order, as std::stable_sort needs it.     *)
(***************************************************************************)
Smaller == {p \in Nat \X Nat : p[1] < p[2]}
Texts == {p \in Parts \X Parts : Resolver!TextBefore(p[1], p[2])}
Older == {p \in Resolver!Version \X Resolver!Version : Resolver!VersionBefore(p[1], p[2])}

LEMMA PartsAndVersions ==
    /\ Parts \subseteq Seq(Nat)
    /\ Resolver!Version \subseteq Seq(Parts)
    /\ <<>> \notin Resolver!Version
<1>1. Parts \subseteq Seq(Nat) /\ MaxParts \in Nat
      BY ResolverAssumption DEF Resolver!DependenciesAssumption
<1>2. ASSUME NEW v \in Resolver!Version  PROVE v \in Seq(Parts) /\ v # <<>>
  <2>1. PICK n \in 1..MaxParts : v \in [1..n -> Parts]
        BY DEF Resolver!Version
  <2>2. n \in Nat /\ n # 0
        BY <1>1
  <2>3. v \in Seq(Parts) /\ Len(v) = n
        BY <2>1, <2>2
  <2> QED BY <2>2, <2>3
<1> QED BY <1>1, <1>2

LEMMA TextIsLexical ==
    ASSUME NEW s \in Seq(Nat), NEW t \in Seq(Nat)
    PROVE  Resolver!TextBefore(s, t) <=> Lexical(s, t, Smaller)
<1>1. /\ Len(s) \in Nat /\ Len(t) \in Nat
      /\ \A i \in 1..Len(s) : s[i] \in Nat
      /\ \A i \in 1..Len(t) : t[i] \in Nat
      BY LenProperties, ElementOfSeq
<1>2. CASE Resolver!Differing(s, t) = {}
  <2>1. Alike(s, t)
        BY <1>2, FirstDifference
  <2>2. \A i : ~Differ(s, t, i)
        BY <1>1, <2>1 DEF Alike, Differ
  <2> QED BY <1>2, <2>1, <2>2 DEF Resolver!TextBefore, Lexical
<1>3. CASE Resolver!Differing(s, t) # {}
  <2> DEFINE m == Resolver!Min(Resolver!Differing(s, t))
  <2>1. Differ(s, t, m)
        BY <1>3, FirstDifference
  <2>2. Resolver!TextBefore(s, t) <=> s[m] < t[m]
        BY <1>3, Zenon DEF Resolver!TextBefore
  <2> HIDE DEF m
  <2>3. \A i : Differ(s, t, i) => i = m
        BY <2>1, OneDifference
  <2>4. ~Alike(s, t) /\ m \in 1..Len(s) /\ m \in 1..Len(t)
        BY <1>1, <2>1 DEF Alike, Differ
  <2>5. s[m] < t[m] <=> <<s[m], t[m]>> \in Smaller
        BY <1>1, <2>4 DEF Smaller
  <2> QED BY <2>1, <2>2, <2>3, <2>4, <2>5 DEF Lexical
<1> QED BY <1>2, <1>3

LEMMA TextsTotal == TotalOn(Parts, Texts)
<1>1. TotalOn(Nat, Smaller)
      BY DEF TotalOn, Smaller
<1>2. TotalOn(Parts, LexicalOn(Parts, Smaller))
      BY <1>1, PartsAndVersions, LexicalTotal
<1>3. \A s, t \in Parts : Resolver!TextBefore(s, t) <=> Lexical(s, t, Smaller)
      BY PartsAndVersions, TextIsLexical
<1>4. LexicalOn(Parts, Smaller) = Texts
      BY <1>3 DEF LexicalOn, Texts
<1> QED BY <1>2, <1>4

LEMMA VersionIsLexical ==
    ASSUME NEW s \in Seq(Parts), NEW t \in Seq(Parts)
    PROVE  Resolver!VersionBefore(s, t) <=> Lexical(s, t, Texts)
<1>1. /\ Len(s) \in Nat /\ Len(t) \in Nat
      /\ \A i \in 1..Len(s) : s[i] \in Parts
      /\ \A i \in 1..Len(t) : t[i] \in Parts
      BY LenProperties, ElementOfSeq
<1>2. CASE Resolver!Differing(s, t) = {}
  <2>1. Alike(s, t)
        BY <1>2, FirstDifference
  <2>2. \A i : ~Differ(s, t, i)
        BY <1>1, <2>1 DEF Alike, Differ
  <2> QED BY <1>2, <2>1, <2>2 DEF Resolver!VersionBefore, Resolver!PartsBefore, Lexical
<1>3. CASE Resolver!Differing(s, t) # {}
  <2> DEFINE m == Resolver!Min(Resolver!Differing(s, t))
  <2>1. Differ(s, t, m)
        BY <1>3, FirstDifference
  <2>2. Resolver!VersionBefore(s, t) <=> Resolver!TextBefore(s[m], t[m])
        BY <1>3, Zenon DEF Resolver!VersionBefore, Resolver!PartsBefore
  <2> HIDE DEF m
  <2>3. \A i : Differ(s, t, i) => i = m
        BY <2>1, OneDifference
  <2>4. ~Alike(s, t) /\ m \in 1..Len(s) /\ m \in 1..Len(t)
        BY <1>1, <2>1 DEF Alike, Differ
  <2>5. Resolver!TextBefore(s[m], t[m]) <=> <<s[m], t[m]>> \in Texts
        BY <1>1, <2>4 DEF Texts
  <2> QED BY <2>1, <2>2, <2>3, <2>4, <2>5 DEF Lexical
<1> QED BY <1>2, <1>3

\* The order the components are sorted by (CompareVersions) is a strict total order
\* on versions: std::stable_sort asks for no less than a strict weak one.
THEOREM VersionsAreOrdered == TotalOn(Resolver!Version, Older)
<1>1. TotalOn(Resolver!Version, LexicalOn(Resolver!Version, Texts))
      BY TextsTotal, PartsAndVersions, LexicalTotal
<1>2. \A s, t \in Resolver!Version : Resolver!VersionBefore(s, t) <=> Lexical(s, t, Texts)
      BY PartsAndVersions, VersionIsLexical
<1>3. LexicalOn(Resolver!Version, Texts) = Older
      BY <1>2 DEF LexicalOn, Older
<1> QED BY <1>1, <1>3

\* What the sign of CompareVersions says.
LEMMA Compared ==
    ASSUME NEW v \in Resolver!Version, NEW w \in Resolver!Version
    PROVE  /\ Resolver!CompareVersions(v, w) = 0 <=> v = w
           /\ Resolver!CompareVersions(v, w) > 0 <=> <<w, v>> \in Older
           /\ Resolver!CompareVersions(v, w) < 0 <=> <<v, w>> \in Older
           /\ Resolver!CompareVersions(v, w) >= 0 <=> <<v, w>> \notin Older
<1>1. /\ Resolver!VersionBefore(v, w) <=> <<v, w>> \in Older
      /\ Resolver!VersionBefore(w, v) <=> <<w, v>> \in Older
      BY DEF Older
<1>2. Resolver!CompareVersions(v, w) =
         IF <<w, v>> \in Older THEN 1 ELSE IF <<v, w>> \in Older THEN 0 - 1 ELSE 0
      BY <1>1 DEF Resolver!CompareVersions, Resolver!Order
<1>3. v = w \/ <<v, w>> \in Older \/ <<w, v>> \in Older
      BY VersionsAreOrdered DEF TotalOn
<1>4. ~(<<v, w>> \in Older /\ <<w, v>> \in Older)
      BY VersionsAreOrdered DEF TotalOn
<1> QED BY <1>2, <1>3, <1>4

(***************************************************************************)
(* Sorting.                                                                *)
(***************************************************************************)
\* Those of E before i.
Lower(n, E, i) == {j \in 1..n : <<j, i>> \in E}

Sorts(n, E, p) ==
    /\ p \in [1..n -> 1..n]
    /\ \A i \in 1..n : \E k \in 1..n : p[k] = i
    /\ \A k, l \in 1..n : k < l => <<p[k], p[l]>> \in E
    /\ \A k \in 1..n : p[k] = CHOOSE i \in 1..n : 1 + Cardinality(Lower(n, E, i)) = k

\* To count those before it gives each its place.
LEMMA Sorting ==
    ASSUME NEW n \in Nat, NEW E, TotalOn(1..n, E)
    PROVE  \E p : Sorts(n, E, p)
<1> DEFINE size == [i \in 1..n |-> Cardinality(Lower(n, E, i))]
           place == [i \in 1..n |-> 1 + size[i]]
           p == [k \in 1..n |-> CHOOSE i \in 1..n : place[i] = k]
<1>1. IsFiniteSet(1..n) /\ Cardinality(1..n) = n
      BY FS_Interval
<1>2. ASSUME NEW i \in 1..n
      PROVE  IsFiniteSet(Lower(n, E, i)) /\ size[i] \in 0..(n - 1)
  <2>1. Lower(n, E, i) \in SUBSET (1..n)
        BY DEF Lower
  <2>2. IsFiniteSet(Lower(n, E, i)) /\ Cardinality(Lower(n, E, i)) <= n
        BY <1>1, <2>1, FS_Subset
  <2>3. i \notin Lower(n, E, i)
        BY DEF Lower, TotalOn
  <2>4. Cardinality(Lower(n, E, i)) # n
        BY <1>1, <2>1, <2>3, FS_Subset
  <2>5. Cardinality(Lower(n, E, i)) \in Nat
        BY <2>2, FS_CardinalityType
  <2> QED BY <2>2, <2>4, <2>5
<1>3. ASSUME NEW i \in 1..n, NEW j \in 1..n, <<i, j>> \in E
      PROVE  size[i] < size[j]
  <2>1. Lower(n, E, i) \in SUBSET Lower(n, E, j)
        BY <1>3 DEF Lower, TotalOn
  <2>2. i \in Lower(n, E, j) /\ i \notin Lower(n, E, i)
        BY <1>3 DEF Lower, TotalOn
  <2>3. IsFiniteSet(Lower(n, E, j))
        BY <1>2
  <2>4. /\ Cardinality(Lower(n, E, i)) <= Cardinality(Lower(n, E, j))
        /\ Cardinality(Lower(n, E, i)) # Cardinality(Lower(n, E, j))
        BY <2>1, <2>2, <2>3, FS_Subset
  <2>5. size[i] \in Nat /\ size[j] \in Nat
        BY <1>2
  <2>6. size[i] <= size[j] /\ size[i] # size[j]
        BY <2>4
  <2> HIDE DEF size
  <2> QED BY <2>5, <2>6
<1>4. place \in [1..n -> 1..n]
  <2> SUFFICES ASSUME NEW i \in 1..n  PROVE 1 + size[i] \in 1..n
      OBVIOUS
  <2>1. size[i] \in 0..(n - 1)
        BY <1>2
  <2> HIDE DEF size
  <2> QED BY <2>1
<1>5. \A i \in 1..n : place[i] = 1 + size[i] /\ size[i] \in Nat
      BY <1>2
<1>6. \A i \in 1..n : place[i] = 1 + Cardinality(Lower(n, E, i))
      OBVIOUS
<1> HIDE DEF place, size
<1>7. \A i, j \in 1..n : place[i] = place[j] => i = j
  <2> SUFFICES ASSUME NEW i \in 1..n, NEW j \in 1..n, place[i] = place[j], i # j
               PROVE  FALSE
      OBVIOUS
  <2>1. size[i] = size[j] /\ size[i] \in Nat
        BY <1>5
  <2>2. ~(size[i] < size[j]) /\ ~(size[j] < size[i])
        BY <2>1
  <2> QED BY <1>3, <2>2 DEF TotalOn
<1>8. place \in Injection(1..n, 1..n)
      BY <1>4, <1>7 DEF Injection, IsInjective
<1>9. place \in Surjection(1..n, 1..n)
      BY <1>1, <1>8, FS_Injection
<1>10. \A k \in 1..n : \E i \in 1..n : place[i] = k
       BY <1>9 DEF Surjection
<1>11. \A k \in 1..n : p[k] \in 1..n /\ place[p[k]] = k
       BY <1>10
<1>12. \A k \in 1..n : p[k] = CHOOSE i \in 1..n : 1 + Cardinality(Lower(n, E, i)) = k
  <2> SUFFICES ASSUME NEW k \in 1..n
               PROVE  (CHOOSE i \in 1..n : place[i] = k) =
                      CHOOSE i \in 1..n : 1 + Cardinality(Lower(n, E, i)) = k
      OBVIOUS
  <2>1. \A i : (i \in 1..n /\ place[i] = k) <=> (i \in 1..n /\ 1 + Cardinality(Lower(n, E, i)) = k)
        BY <1>6, Zenon
  <2> QED BY <2>1
<1>13. p \in [1..n -> 1..n]
       BY <1>11
<1> HIDE DEF p
<1>14. \A i \in 1..n : p[place[i]] = i
       BY <1>4, <1>7, <1>11
<1>15. \A i \in 1..n : \E k \in 1..n : p[k] = i
       BY <1>4, <1>14
<1>16. ASSUME NEW k \in 1..n, NEW l \in 1..n, k < l  PROVE <<p[k], p[l]>> \in E
  <2>1. p[k] # p[l] /\ p[k] \in 1..n /\ p[l] \in 1..n
        BY <1>11, <1>16
  <2>2. size[p[k]] < size[p[l]]
    <3>1. /\ k = 1 + size[p[k]] /\ size[p[k]] \in Nat
          /\ l = 1 + size[p[l]] /\ size[p[l]] \in Nat
          BY <1>5, <1>11, <2>1
    <3> QED BY <1>16, <3>1
  <2>3. ~(size[p[l]] < size[p[k]])
        BY <1>5, <2>1, <2>2
  <2> QED BY <1>3, <2>1, <2>3 DEF TotalOn
<1> QED BY <1>12, <1>13, <1>15, <1>16 DEF Sorts

(***************************************************************************)
(* The components in order.                                                *)
(***************************************************************************)
\* What std::stable_sort goes by: the later version, else the place before.
Earlier(s) ==
    {p \in (1..Len(s)) \X (1..Len(s)) :
        \/ <<s[p[2]].version, s[p[1]].version>> \in Older
        \/ <<s[p[1]].version, s[p[2]].version>> \notin Older /\ p[1] < p[2]}

LEMMA CardinalityOf == \A S : Resolver!Cardinality(S) = Cardinality(S)
BY DEF Resolver!Cardinality, Cardinality, Resolver!IsFiniteSet, IsFiniteSet

LEMMA StableSortDef ==
    ASSUME NEW s \in Seq(Comp)
    PROVE  \E p : /\ Sorts(Len(s), Earlier(s), p)
                  /\ Resolver!StableSort(s, Resolver!WeakCompareComponents) =
                        [k \in 1..Len(s) |-> s[p[k]]]
<1> DEFINE n == Len(s)
           E == Earlier(s)
<1>1. n \in Nat /\ DOMAIN s = 1..n /\ \A i \in 1..n : s[i].version \in Resolver!Version
  <2>1. n \in Nat /\ DOMAIN s = 1..n /\ \A i \in 1..n : s[i] \in Comp
        BY LenProperties, ElementOfSeq
  <2> HIDE DEF n
  <2> QED BY <2>1 DEF Comp
<1>2. TotalOn(1..n, E)
  <2>1. \A i, j \in 1..n : <<i, j>> \in E <=>
           \/ <<s[j].version, s[i].version>> \in Older
           \/ <<s[i].version, s[j].version>> \notin Older /\ i < j
        BY DEF Earlier
  <2> DEFINE v(i) == s[i].version
  <2>2. \A i \in 1..n : v(i) \in Resolver!Version
        BY <1>1
  <2>3. ASSUME NEW i \in 1..n, NEW j \in 1..n
        PROVE  /\ i = j \/ <<i, j>> \in E \/ <<j, i>> \in E
               /\ ~(<<i, j>> \in E /\ <<j, i>> \in E)
    <3>1. /\ <<i, j>> \in E <=> <<v(j), v(i)>> \in Older \/ (<<v(i), v(j)>> \notin Older /\ i < j)
          /\ <<j, i>> \in E <=> <<v(i), v(j)>> \in Older \/ (<<v(j), v(i)>> \notin Older /\ j < i)
          BY <2>1
    <3>2. ~(<<v(i), v(j)>> \in Older /\ <<v(j), v(i)>> \in Older)
          BY <2>2, VersionsAreOrdered DEF TotalOn
    <3> QED BY <1>1, <3>1, <3>2
  <2>4. ASSUME NEW i \in 1..n, NEW j \in 1..n, NEW k \in 1..n, <<i, j>> \in E, <<j, k>> \in E
        PROVE  <<i, k>> \in E
    <3>1. /\ <<v(j), v(i)>> \in Older \/ (<<v(i), v(j)>> \notin Older /\ i < j)
          /\ <<v(k), v(j)>> \in Older \/ (<<v(j), v(k)>> \notin Older /\ j < k)
          BY <2>1, <2>4
    <3>2. /\ v(i) = v(j) \/ <<v(i), v(j)>> \in Older \/ <<v(j), v(i)>> \in Older
          /\ v(j) = v(k) \/ <<v(j), v(k)>> \in Older \/ <<v(k), v(j)>> \in Older
          /\ ~(<<v(i), v(k)>> \in Older /\ <<v(k), v(i)>> \in Older)
          /\ <<v(k), v(j)>> \in Older /\ <<v(j), v(i)>> \in Older => <<v(k), v(i)>> \in Older
          BY <2>2, VersionsAreOrdered DEF TotalOn
    <3>3. ~(<<v(i), v(i)>> \in Older)
          BY <2>2, VersionsAreOrdered DEF TotalOn
    <3>4. <<v(k), v(i)>> \in Older \/ (v(i) = v(j) /\ v(j) = v(k) /\ i < j /\ j < k)
      <4> HIDE DEF v, E
      <4> QED BY <3>1, <3>2, Zenon
    <3>5. <<v(k), v(i)>> \in Older \/ (<<v(i), v(k)>> \notin Older /\ i < k)
          BY <3>3, <3>4
    <3> QED BY <2>1, <3>5
  <2> QED BY <2>3, <2>4 DEF TotalOn
<1>3. PICK p : Sorts(n, E, p)
      BY <1>1, <1>2, Sorting
<1>4. \A i, j \in 1..n :
         (j \in 1..n /\ (\/ Resolver!WeakCompareComponents(s[j], s[i])
                         \/ ~Resolver!WeakCompareComponents(s[i], s[j]) /\ j < i)) <=>
         <<j, i>> \in E
  <2> SUFFICES ASSUME NEW i \in 1..n, NEW j \in 1..n
               PROVE  (\/ Resolver!WeakCompareComponents(s[j], s[i])
                       \/ ~Resolver!WeakCompareComponents(s[i], s[j]) /\ j < i) <=>
                      <<j, i>> \in E
      OBVIOUS
  <2>1. /\ Resolver!WeakCompareComponents(s[j], s[i]) <=> <<s[i].version, s[j].version>> \in Older
        /\ Resolver!WeakCompareComponents(s[i], s[j]) <=> <<s[j].version, s[i].version>> \in Older
        BY <1>1, Compared DEF Resolver!WeakCompareComponents
  <2> QED BY <2>1 DEF Earlier
<1> DEFINE Here(i) == {j \in DOMAIN s : \/ Resolver!WeakCompareComponents(s[j], s[i])
                                        \/ ~Resolver!WeakCompareComponents(s[i], s[j]) /\ j < i}
<1>5. \A i \in 1..n : Here(i) = Lower(n, E, i)
      BY <1>1, <1>4 DEF Lower
<1>6. Resolver!StableSort(s, Resolver!WeakCompareComponents) =
         [k \in DOMAIN s |-> s[CHOOSE i \in DOMAIN s : 1 + Resolver!Cardinality(Here(i)) = k]]
      BY Zenon DEF Resolver!StableSort
<1> HIDE DEF Here, E
<1>7. \A k \in 1..n : (CHOOSE i \in DOMAIN s : 1 + Resolver!Cardinality(Here(i)) = k) = p[k]
  <2> SUFFICES ASSUME NEW k \in 1..n
               PROVE  (CHOOSE i \in DOMAIN s : 1 + Resolver!Cardinality(Here(i)) = k) = p[k]
      OBVIOUS
  <2>1. \A i : (i \in DOMAIN s /\ 1 + Resolver!Cardinality(Here(i)) = k) <=>
               (i \in 1..n /\ 1 + Cardinality(Lower(n, E, i)) = k)
        BY <1>1, <1>5, CardinalityOf, Zenon
  <2>2. (CHOOSE i \in DOMAIN s : 1 + Resolver!Cardinality(Here(i)) = k) =
        CHOOSE i \in 1..n : 1 + Cardinality(Lower(n, E, i)) = k
        BY <2>1
  <2> QED BY <1>3, <2>2 DEF Sorts
<1>8. Resolver!StableSort(s, Resolver!WeakCompareComponents) = [k \in 1..n |-> s[p[k]]]
      BY <1>1, <1>6, <1>7
<1> QED BY <1>3, <1>8 DEF E

\* GetInstalledComponents: what is found, no later version after an earlier one, and
\* that of the first directory before the same version elsewhere.
Ranked(t) ==
    /\ t \in Seq(Comp)
    /\ Elements(t) = UNION {OfPath(d) : d \in Resolver!Directory}
    /\ \A k, l \in 1..Len(t) : k < l =>
          /\ <<t[k].version, t[l].version>> \notin Older
          /\ t[k].version = t[l].version /\ t[l].path = SearchPath[1] =>
                t[k].path = SearchPath[1]

LEMMA InstalledRanked == ASSUME Scanned  PROVE Ranked(Resolver!GetInstalledComponents)
<1> DEFINE t == Resolver!GetInstalledComponents
<1>1. PICK s \in Seq(Comp) :
         /\ t = Resolver!StableSort(s, Resolver!WeakCompareComponents)
         /\ FirstsFirst(s)
         /\ Elements(s) = UNION {OfPath(d) : d \in Resolver!Directory}
      BY Gathered
<1> DEFINE n == Len(s)
<1>2. PICK p : Sorts(n, Earlier(s), p) /\ t = [k \in 1..n |-> s[p[k]]]
      BY <1>1, StableSortDef
<1> HIDE DEF t
<1>3. n \in Nat /\ \A i \in 1..n : s[i] \in Comp
      BY LenProperties, ElementOfSeq
<1>4. p \in [1..n -> 1..n]
      BY <1>2 DEF Sorts
<1>5. t \in Seq(Comp) /\ Len(t) = n /\ \A k \in 1..n : p[k] \in 1..n /\ t[k] = s[p[k]]
      BY <1>2, <1>3, <1>4
<1>6. Elements(t) = Elements(s)
  <2>1. \A k \in 1..n : t[k] \in Elements(s)
        BY <1>5 DEF Elements
  <2>2. \A i \in 1..n : s[i] \in Elements(t)
    <3> SUFFICES ASSUME NEW i \in 1..n  PROVE s[i] \in Elements(t)
        OBVIOUS
    <3>1. PICK k \in 1..n : p[k] = i
          BY <1>2 DEF Sorts
    <3> QED BY <1>5, <3>1 DEF Elements
  <2> QED BY <1>5, <2>1, <2>2 DEF Elements
<1>7. ASSUME NEW k \in 1..n, NEW l \in 1..n, k < l
      PROVE  /\ <<t[k].version, t[l].version>> \notin Older
             /\ t[k].version = t[l].version /\ t[l].path = SearchPath[1] =>
                   t[k].path = SearchPath[1]
  <2> DEFINE v == s[p[k]].version
             w == s[p[l]].version
  <2>1. <<p[k], p[l]>> \in Earlier(s)
        BY <1>2, <1>7 DEF Sorts
  <2>2. <<w, v>> \in Older \/ (<<v, w>> \notin Older /\ p[k] < p[l])
        BY <2>1 DEF Earlier
  <2>3. v \in Resolver!Version /\ w \in Resolver!Version
        BY <1>3, <1>5 DEF Comp
  <2>4. ~(<<v, w>> \in Older /\ <<w, v>> \in Older)
        BY <2>3, VersionsAreOrdered DEF TotalOn
  <2>5. v = w => p[k] < p[l]
        BY <2>2, <2>4
  <2>6. p[k] < p[l] /\ s[p[l]].path = SearchPath[1] => s[p[k]].path = SearchPath[1]
        BY <1>1, <1>5 DEF FirstsFirst
  <2> QED BY <1>5, <2>2, <2>4, <2>5, <2>6
<1> QED BY <1>1, <1>5, <1>6, <1>7 DEF Ranked, t

(***************************************************************************)
(* The choice.                                                             *)
(***************************************************************************)
ChoiceTypes ==
    /\ bundled \in Seq(Resolver!Version) /\ Scanned
    /\ dep.version \in Resolver!Version

\* Satisfies in terms of the order of versions.
Fits(v) ==
    \/ dep.requirement = "EQ" /\ v = dep.version
    \/ dep.requirement = "GTE" /\ <<v, dep.version>> \notin Older
    \/ dep.requirement = "GT" /\ <<dep.version, v>> \in Older
    \/ dep.requirement = "LT" /\ <<v, dep.version>> \in Older

LEMMA SatisfiesFits ==
    ASSUME ChoiceTypes, NEW c, c.version \in Resolver!Version
    PROVE  Resolver!Satisfies(c) <=> Fits(c.version)
BY Compared DEF ChoiceTypes, Resolver!Satisfies, Fits

\* A bundled one that fits; else one that is installed and not older than need be, of
\* two copies the one in the first directory; nothing only if nothing fits.
Best(c) ==
    /\ c = Resolver!Null \/ c.path \in Resolver!Directory \cup {"bundled"}
    /\ c = Resolver!Null =>
          /\ \A i \in 1..Len(bundled) : ~Fits(bundled[i])
          /\ \A d \in Resolver!Directory : \A v \in installed[d] : ~Fits(v)
    /\ c.path = "bundled" => \E i \in 1..Len(bundled) : c.version = bundled[i] /\ Fits(bundled[i])
    /\ c.path \in Resolver!Directory =>
          /\ \A i \in 1..Len(bundled) : ~Fits(bundled[i])
          /\ c.version \in installed[c.path] /\ Fits(c.version)
          /\ \A d \in Resolver!Directory : \A v \in installed[d] :
                Fits(v) => <<c.version, v>> \notin Older
          /\ c.version \notin installed[SearchPath[1]] \/ c.path = SearchPath[1]

\* Where std::find_if stops, in the sequence s.
StopsAt(s, k) ==
    \/ k = 0 /\ \A i \in 1..Len(s) : ~Resolver!Satisfies(s[i])
    \/ /\ k \in 1..Len(s) /\ Resolver!Satisfies(s[k])
       /\ \A i \in 1..(k - 1) : ~Resolver!Satisfies(s[i])

LEMMA SelectStops ==
    ASSUME NEW X, NEW s \in Seq(X)
    PROVE  StopsAt(s, Resolver!SelectInSeq(s, Resolver!Satisfies))
<1> DEFINE I == {i \in 1..Len(s) : Resolver!Satisfies(s[i])}
           k == Resolver!SelectInSeq(s, Resolver!Satisfies)
<1>1. k = IF I # {} THEN Resolver!Min(I) ELSE 0
      BY Zenon DEF Resolver!SelectInSeq
<1> HIDE DEF k
<1>2. Len(s) \in Nat
      BY LenProperties
<1>3. CASE I = {}
      BY <1>1, <1>3 DEF StopsAt, k
<1>4. CASE I # {}
  <2>1. k \in I /\ \A m \in I : k <= m
    <3>1. I \subseteq Nat
          BY <1>2
    <3> QED BY <1>1, <1>4, <3>1, Least
  <2>2. ASSUME NEW i \in 1..(k - 1)  PROVE ~Resolver!Satisfies(s[i])
        BY <1>2, <2>1
  <2> QED BY <2>1, <2>2 DEF StopsAt, k
<1> QED BY <1>3, <1>4

\* One of the components that are available, bundled ones first.
LEMMA TakenIsBest ==
    ASSUME ChoiceTypes
    PROVE  LET s == Resolver!GetAvailableComponents
               k == Resolver!SelectInSeq(s, Resolver!Satisfies)
           IN  Best(IF k = 0 THEN Resolver!Null ELSE s[k])
<1> DEFINE b == [i \in DOMAIN bundled |-> [version |-> bundled[i], path |-> "bundled"]]
           t == Resolver!GetInstalledComponents
           s == Resolver!GetAvailableComponents
           k == Resolver!SelectInSeq(s, Resolver!Satisfies)
           n == Len(bundled)
           X == [version : Resolver!Version, path : Resolver!Directory \cup {"bundled"}]
<1>1. /\ n \in Nat /\ DOMAIN bundled = 1..n
      /\ \A i \in 1..n : bundled[i] \in Resolver!Version
      BY LenProperties, ElementOfSeq DEF ChoiceTypes
<1>2. b \in Seq(X) /\ Len(b) = n
      BY <1>1
<1>3. \A i \in 1..n : b[i] = [version |-> bundled[i], path |-> "bundled"]
      BY <1>1
<1>4. Ranked(t)
      BY InstalledRanked DEF ChoiceTypes
<1>5. s = b \o t
      BY DEF Resolver!GetAvailableComponents
<1> HIDE DEF b, t, s, k
<1>6. /\ t \in Seq(X) /\ Len(t) \in Nat
      /\ \A i \in 1..Len(t) : t[i] \in Comp
  <2>1. t \in Seq(Comp)
        BY <1>4 DEF Ranked
  <2>2. Comp \subseteq X
        BY DEF Comp
  <2> HIDE DEF X
  <2>3. t \in Seq(X)
        BY <2>1, <2>2
  <2> QED BY <2>1, <2>3, LenProperties, ElementOfSeq
<1>7. /\ s \in Seq(X) /\ Len(s) = n + Len(t)
      /\ \A i \in 1..n : s[i] = b[i]
      /\ \A i \in 1..Len(t) : s[n + i] = t[i]
  <2> HIDE DEF X, n
  <2> QED BY <1>1, <1>2, <1>5, <1>6
<1>8. StopsAt(s, k)
      BY <1>7, SelectStops DEF k
<1>9. /\ \A i \in 1..n : Resolver!Satisfies(s[i]) <=> Fits(bundled[i])
      /\ \A i \in 1..Len(t) : Resolver!Satisfies(s[n + i]) <=> Fits(t[i].version)
  <2>1. ASSUME NEW i \in 1..n  PROVE Resolver!Satisfies(s[i]) <=> Fits(bundled[i])
    <3>1. s[i].version = bundled[i] /\ bundled[i] \in Resolver!Version
      <4>1. s[i] = [version |-> bundled[i], path |-> "bundled"]
            BY <1>3, <1>7
      <4> QED BY <1>1, <4>1
    <3> QED BY <3>1, SatisfiesFits
  <2>2. ASSUME NEW i \in 1..Len(t)  PROVE Resolver!Satisfies(s[n + i]) <=> Fits(t[i].version)
    <3>1. s[n + i] = t[i] /\ t[i].version \in Resolver!Version
          BY <1>6, <1>7 DEF Comp
    <3> QED BY <3>1, SatisfiesFits
  <2> QED BY <2>1, <2>2
<1>10. ASSUME NEW d \in Resolver!Directory, NEW v \in installed[d]
       PROVE  \E l \in 1..Len(t) : t[l].version = v /\ t[l].path = d
  <2>1. [version |-> v, path |-> d] \in Elements(t)
        BY <1>4 DEF Ranked, OfPath
  <2> QED BY <2>1 DEF Elements
<1>11. CASE k = 0
  <2>1. \A i \in 1..Len(s) : ~Resolver!Satisfies(s[i])
        BY <1>8, <1>11 DEF StopsAt
  <2>2. \A i \in 1..n : ~Fits(bundled[i])
        BY <1>1, <1>6, <1>7, <1>9, <2>1
  <2>3. \A l \in 1..Len(t) : n + l \in 1..Len(s)
        BY <1>1, <1>6, <1>7
  <2>4. \A d \in Resolver!Directory : \A v \in installed[d] : ~Fits(v)
        BY <1>9, <1>10, <2>1, <2>3
  <2>5. Resolver!Null.path \notin Resolver!Directory /\ Resolver!Null.path # "bundled"
        BY PathIsSeq DEF Resolver!Null
  <2>6. Best(Resolver!Null)
        BY <2>2, <2>4, <2>5 DEF Best
  <2> QED BY <1>11, <2>6 DEF s, k
<1>12. CASE k \in 1..n
  <2>1. k \in 1..Len(s) /\ Resolver!Satisfies(s[k])
        BY <1>1, <1>8, <1>12 DEF StopsAt
  <2>2. s[k].version = bundled[k] /\ s[k].path = "bundled" /\ Fits(bundled[k])
    <3>1. s[k] = [version |-> bundled[k], path |-> "bundled"]
          BY <1>3, <1>7, <1>12
    <3>2. Fits(bundled[k])
          BY <1>9, <1>12, <2>1
    <3> QED BY <3>1, <3>2
  <2>3. s[k].path \notin Resolver!Directory /\ s[k] # Resolver!Null
        BY <2>2, PathIsSeq DEF Resolver!Null
  <2>4. Best(s[k])
        BY <1>12, <2>2, <2>3 DEF Best
  <2>5. k # 0
        BY <1>1, <1>12
  <2> QED BY <2>4, <2>5 DEF s, k
<1>13. CASE k # 0 /\ k \notin 1..n
  <2>1. /\ k \in 1..Len(s) /\ Resolver!Satisfies(s[k])
        /\ \A i \in 1..(k - 1) : ~Resolver!Satisfies(s[i])
        BY <1>8, <1>13 DEF StopsAt
  <2> DEFINE m == k - n
             c == t[m]
  <2>2. m \in 1..Len(t) /\ k = n + m
        BY <1>1, <1>6, <1>7, <1>13, <2>1
  <2>3. s[k] = c
        BY <1>7, <2>2
  <2>4. Fits(c.version)
        BY <1>9, <2>1, <2>2
  <2>5. c \in Elements(t)
        BY <2>2 DEF Elements
  <2>6. PICK d \in Resolver!Directory : c \in OfPath(d)
        BY <1>4, <2>5 DEF Ranked
  <2>7. c.path = d /\ c.version \in installed[d]
    <3> HIDE DEF c
    <3> QED BY <2>6 DEF OfPath
  <2> HIDE DEF m
  <2>8. \A i \in 1..n : ~Fits(bundled[i])
        BY <1>1, <1>9, <2>1, <2>2
  <2>9. \A l \in 1..Len(t) : Fits(t[l].version) => m <= l
    <3> SUFFICES ASSUME NEW l \in 1..Len(t), ~(m <= l)  PROVE ~Fits(t[l].version)
        OBVIOUS
    <3>1. n + l \in 1..(k - 1)
          BY <1>1, <1>6, <2>2
    <3> QED BY <1>9, <2>1, <3>1
  <2>10. c.version \in Resolver!Version
         BY <1>6, <2>2 DEF Comp
  <2>11. <<c.version, c.version>> \notin Older
         BY <2>10, VersionsAreOrdered DEF TotalOn
  <2>12. ASSUME NEW e \in Resolver!Directory, NEW v \in installed[e], Fits(v)
         PROVE  <<c.version, v>> \notin Older
    <3>1. PICK l \in 1..Len(t) : t[l].version = v /\ t[l].path = e
          BY <1>10
    <3>2. m <= l
          BY <2>9, <2>12, <3>1
    <3>3. CASE m = l
          BY <2>11, <3>1, <3>3
    <3>4. CASE m # l
      <4>1. m < l
            BY <1>6, <2>2, <3>2, <3>4
      <4> QED BY <1>4, <2>2, <3>1, <4>1 DEF Ranked
    <3> QED BY <3>3, <3>4
  <2>13. ASSUME c.version \in installed[SearchPath[1]]  PROVE c.path = SearchPath[1]
    <3>1. SearchPath[1] \in Resolver!Directory
      <4>1. PICK i \in 1..Len(SearchPath) : SearchPath[i] = d
            BY PathIsSeq
      <4>2. 1 \in 1..Len(SearchPath)
            BY <4>1, PathIsSeq
      <4> QED BY <4>2, PathIsSeq
    <3>2. PICK l \in 1..Len(t) : t[l].version = c.version /\ t[l].path = SearchPath[1]
          BY <1>10, <2>13, <3>1
    <3>3. m <= l
          BY <2>4, <2>9, <3>2
    <3>4. CASE m = l
          BY <3>2, <3>4
    <3>5. CASE m # l
      <4>1. m < l
            BY <1>6, <2>2, <3>3, <3>5
      <4> QED BY <1>4, <2>2, <3>2, <4>1 DEF Ranked
    <3> QED BY <3>4, <3>5
  <2>14. c # Resolver!Null /\ c.path # "bundled"
         BY <2>7, PathIsSeq DEF Resolver!Null
  <2> HIDE DEF c
  <2>15. Best(c)
         BY <2>4, <2>7, <2>8, <2>12, <2>13, <2>14 DEF Best
  <2> QED BY <1>13, <2>3, <2>15 DEF s, k
<1> QED BY <1>11, <1>12, <1>13

(***************************************************************************)
(* The order of the code and that of the numbers.                          *)
(***************************************************************************)
\* Numbers are written with the same number of digits: without it the text "10" is
\* before "9", and another component than the latest is taken.
SameWidth ==
    \A p, q \in Parts : Resolver!IsNumber(p) /\ Resolver!IsNumber(q) => Len(p) = Len(q)

LEMMA NumberGrows ==
    ASSUME NEW p \in Seq(Nat), NEW q \in Seq(Nat), Resolver!IsNumber(p), Resolver!IsNumber(q),
           Len(p) = Len(q), Lexical(p, q, Smaller)
    PROVE  Resolver!Number(p) < Resolver!Number(q)
<1> DEFINE n == Len(p)
<1>1. /\ n \in Nat /\ Len(q) = n
      /\ \A i \in 1..n : p[i] \in Nat /\ p[i] < 10 /\ q[i] \in Nat /\ q[i] < 10
  <2>1. n \in Nat /\ DOMAIN p = 1..n /\ DOMAIN q = 1..n
        BY LenProperties
  <2>2. \A i \in 1..n : p[i] \in Nat /\ q[i] \in Nat
        BY ElementOfSeq
  <2> QED BY <2>1, <2>2 DEF Resolver!IsNumber
<1>2. PICK i \in 1..n : Differ(p, q, i) /\ <<p[i], q[i]>> \in Smaller
      BY <1>1 DEF Lexical
<1>3. PICK f \in [0..n -> Nat] :
         /\ f[0] = 0 /\ Resolver!Number(p) = f[n]
         /\ \A k \in 0..(n - 1) : f[k + 1] = 10 * f[k] + p[k + 1]
      BY NumberDef
<1>4. PICK g \in [0..n -> Nat] :
         /\ g[0] = 0 /\ Resolver!Number(q) = g[n]
         /\ \A k \in 0..(n - 1) : g[k + 1] = 10 * g[k] + q[k + 1]
      BY <1>1, NumberDef
<1> HIDE DEF n
<1> DEFINE Of(k) == (k < i => f[k] = g[k]) /\ (k >= i => f[k] < g[k])
           S == {k \in Nat : k <= n => Of(k)}
<1>5. 0 \in S
      BY <1>1, <1>3, <1>4
<1>6. ASSUME NEW k \in Nat, k \in S  PROVE k + 1 \in S
  <2> SUFFICES ASSUME k + 1 <= n  PROVE Of(k + 1)
      OBVIOUS
  <2>1. k \in 0..(n - 1) /\ k \in 0..n /\ k + 1 \in 1..n /\ Of(k)
        BY <1>1, <1>6
  <2>2. f[k + 1] = 10 * f[k] + p[k + 1] /\ g[k + 1] = 10 * g[k] + q[k + 1]
        BY <1>3, <1>4, <2>1
  <2>3. /\ f[k] \in Nat /\ g[k] \in Nat
        /\ p[k + 1] \in 0..9 /\ q[k + 1] \in 0..9
    <3>1. f[k] \in Nat /\ g[k] \in Nat
          BY <1>3, <1>4, <2>1
    <3>2. \A x \in Nat : x < 10 => x \in 0..9
          OBVIOUS
    <3>3. p[k + 1] \in 0..9 /\ q[k + 1] \in 0..9
      <4>1. /\ p[k + 1] \in Nat /\ p[k + 1] < 10
            /\ q[k + 1] \in Nat /\ q[k + 1] < 10
            BY <1>1, <2>1
      <4> QED BY <3>2, <4>1
    <3> QED BY <3>1, <3>3
  <2>4. CASE k + 1 < i
    <3>1. p[k + 1] = q[k + 1] /\ f[k] = g[k]
          BY <1>1, <1>2, <2>1, <2>4 DEF Differ
    <3> QED BY <2>2, <2>4, <3>1
  <2>5. CASE k + 1 = i
    <3>1. p[k + 1] < q[k + 1] /\ f[k] = g[k]
      <4>1. k < i
            BY <1>6, <2>5
      <4>2. p[i] < q[i]
            BY <1>2 DEF Smaller
      <4> QED BY <2>1, <2>5, <4>1, <4>2
    <3>2. f[k + 1] < g[k + 1]
      <4> DEFINE x == f[k]
                 y == p[k + 1]
                 z == q[k + 1]
      <4>1. x \in Nat /\ y \in 0..9 /\ z \in 0..9 /\ y < z
            BY <2>3, <3>1
      <4>2. f[k + 1] = 10 * x + y /\ g[k + 1] = 10 * x + z
            BY <2>2, <3>1
      <4> HIDE DEF x, y, z
      <4>3. 10 * x + y < 10 * x + z
            BY <4>1
      <4> QED BY <4>2, <4>3
    <3> QED BY <2>5, <3>2
  <2>6. CASE k + 1 > i
    <3>1. f[k] < g[k]
          BY <1>1, <2>1, <2>6
    <3>2. f[k] + 1 <= g[k]
          BY <2>3, <3>1
    <3>3. f[k + 1] < g[k + 1]
      <4> DEFINE x == f[k]
                 w == g[k]
                 y == p[k + 1]
                 z == q[k + 1]
      <4>1. x \in Nat /\ w \in Nat /\ y \in 0..9 /\ z \in 0..9 /\ x + 1 <= w
            BY <2>3, <3>2
      <4>2. f[k + 1] = 10 * x + y /\ g[k + 1] = 10 * w + z
            BY <2>2
      <4> HIDE DEF x, y, z, w
      <4>3. 10 * x + y < 10 * w + z
            BY <4>1
      <4> QED BY <4>2, <4>3
    <3> QED BY <2>6, <3>3
  <2> QED BY <1>1, <2>4, <2>5, <2>6
<1> HIDE DEF S
<1>7. n \in S
      BY <1>1, <1>5, <1>6, Counting
<1> QED BY <1>1, <1>3, <1>4, <1>7 DEF S

LEMMA NumbersAreOrdered ==
    ASSUME NEW p \in Seq(Nat), NEW q \in Seq(Nat), Resolver!IsNumber(p), Resolver!IsNumber(q),
           Len(p) = Len(q)
    PROVE  Resolver!TextBefore(p, q) <=> Resolver!Number(p) < Resolver!Number(q)
<1>1. TotalOn(Nat, Smaller)
      BY DEF TotalOn, Smaller
<1>2. TotalOn(Seq(Nat), LexicalOn(Seq(Nat), Smaller))
      BY <1>1, LexicalTotal
<1>3. p = q \/ Lexical(p, q, Smaller) \/ Lexical(q, p, Smaller)
      BY <1>2 DEF TotalOn, LexicalOn
<1>4. Lexical(p, q, Smaller) => Resolver!Number(p) < Resolver!Number(q)
      BY NumberGrows
<1>5. Lexical(q, p, Smaller) => Resolver!Number(q) < Resolver!Number(p)
      BY NumberGrows
<1>6. Resolver!Number(p) \in Nat /\ Resolver!Number(q) \in Nat
  <2>1. ASSUME NEW s \in Seq(Nat)  PROVE Resolver!Number(s) \in Nat
    <3>1. Len(s) \in Nat /\ Len(s) \in 0..Len(s)
          BY LenProperties
    <3>2. PICK f \in [0..Len(s) -> Nat] : Resolver!Number(s) = f[Len(s)]
          BY NumberDef
    <3> QED BY <3>1, <3>2
  <2> QED BY <2>1
<1>7. Resolver!TextBefore(p, q) <=> Lexical(p, q, Smaller)
      BY TextIsLexical
<1> QED BY <1>3, <1>4, <1>5, <1>6, <1>7

LEMMA PartsAgree ==
    ASSUME SameWidth, NEW p \in Parts, NEW q \in Parts
    PROVE  /\ Resolver!PartIsLess(p, q) <=> Resolver!ScriptPartBefore(p, q)
           /\ Resolver!IsNumber(p) /\ Resolver!IsNumber(q) =>
                 (Resolver!PartIsLess(p, q) <=> Resolver!TextBefore(p, q))
<1>1. ASSUME Resolver!IsNumber(p), Resolver!IsNumber(q)
      PROVE  Resolver!TextBefore(p, q) <=> Resolver!Number(p) < Resolver!Number(q)
  <2>1. p \in Seq(Nat) /\ q \in Seq(Nat) /\ Len(p) = Len(q)
        BY <1>1, PartsAndVersions DEF SameWidth
  <2> QED BY <1>1, <2>1, NumbersAreOrdered
<1>2. Resolver!IsNumber(p) \in BOOLEAN /\ Resolver!IsNumber(q) \in BOOLEAN
      BY DEF Resolver!IsNumber
<1> QED BY <1>1, <1>2 DEF Resolver!PartIsLess, Resolver!ScriptPartBefore

\* The parts where two versions differ first decide.
LEMMA Deciding ==
    ASSUME NEW v \in Seq(Parts), NEW w \in Seq(Parts), Resolver!Differing(v, w) # {}
    PROVE  LET m == Resolver!Min(Resolver!Differing(v, w))
           IN  v[m] \in Parts /\ w[m] \in Parts /\ m \in DOMAIN v /\ m \in DOMAIN w /\ v[m] # w[m]
<1> DEFINE m == Resolver!Min(Resolver!Differing(v, w))
<1>1. Differ(v, w, m)
      BY FirstDifference
<1> HIDE DEF m
<1>2. m \in 1..Len(v) /\ m \in 1..Len(w) /\ v[m] # w[m]
      BY <1>1 DEF Differ
<1>3. DOMAIN v = 1..Len(v) /\ DOMAIN w = 1..Len(w) /\ v[m] \in Parts /\ w[m] \in Parts
      BY <1>2, LenProperties, ElementOfSeq
<1> QED BY <1>2, <1>3 DEF m

Numbers(v) == \A i \in DOMAIN v : Resolver!IsNumber(v[i])

LEMMA VersionsAgree ==
    ASSUME SameWidth, NEW v \in Seq(Parts), NEW w \in Seq(Parts)
    PROVE  /\ Resolver!VersionIsLess(v, w) <=> Resolver!ScriptBefore(v, w)
           /\ Numbers(v) /\ Numbers(w) =>
                 (Resolver!VersionIsLess(v, w) <=> Resolver!VersionBefore(v, w))
<1>1. CASE Resolver!Differing(v, w) = {}
      BY <1>1, Zenon DEF Resolver!VersionIsLess, Resolver!ScriptBefore, Resolver!VersionBefore,
                         Resolver!PartsBefore
<1>2. CASE Resolver!Differing(v, w) # {}
  <2> DEFINE m == Resolver!Min(Resolver!Differing(v, w))
  <2>1. v[m] \in Parts /\ w[m] \in Parts /\ m \in DOMAIN v /\ m \in DOMAIN w
        BY <1>2, Deciding
  <2>2. /\ Resolver!VersionIsLess(v, w) <=> Resolver!PartIsLess(v[m], w[m])
        /\ Resolver!ScriptBefore(v, w) <=> Resolver!ScriptPartBefore(v[m], w[m])
        /\ Resolver!VersionBefore(v, w) <=> Resolver!TextBefore(v[m], w[m])
        BY <1>2, Zenon DEF Resolver!VersionIsLess, Resolver!ScriptBefore, Resolver!VersionBefore,
                           Resolver!PartsBefore
  <2> HIDE DEF m
  <2> QED BY <2>1, <2>2, PartsAgree DEF Numbers
<1> QED BY <1>1, <1>2

\* ScriptCompare contradicts itself nowhere.
LEMMA ScriptIsAsymmetric ==
    ASSUME NEW v \in Seq(Parts), NEW w \in Seq(Parts)
    PROVE  ~(Resolver!ScriptBefore(v, w) /\ Resolver!ScriptBefore(w, v))
<1>1. /\ Resolver!Differing(v, w) = Resolver!Differing(w, v)
      /\ Len(v) \in Nat /\ Len(w) \in Nat
      BY FirstDifference, LenProperties
<1>2. CASE Resolver!Differing(v, w) = {}
  <2>1. /\ Resolver!ScriptBefore(v, w) <=> Len(v) < Len(w)
        /\ Resolver!ScriptBefore(w, v) <=> Len(w) < Len(v)
        BY <1>1, <1>2, Zenon DEF Resolver!ScriptBefore, Resolver!PartsBefore
  <2> QED BY <1>1, <2>1
<1>3. CASE Resolver!Differing(v, w) # {}
  <2> DEFINE m == Resolver!Min(Resolver!Differing(v, w))
  <2>1. v[m] \in Parts /\ w[m] \in Parts /\ v[m] # w[m]
        BY <1>3, Deciding
  <2>2. /\ Resolver!ScriptBefore(v, w) <=> Resolver!ScriptPartBefore(v[m], w[m])
        /\ Resolver!ScriptBefore(w, v) <=> Resolver!ScriptPartBefore(w[m], v[m])
        BY <1>1, <1>3, Zenon DEF Resolver!ScriptBefore, Resolver!PartsBefore
  <2> HIDE DEF m
  <2>3. ~(Resolver!TextBefore(v[m], w[m]) /\ Resolver!TextBefore(w[m], v[m]))
        BY <2>1, TextsTotal DEF TotalOn, Texts
  <2>4. Resolver!IsNumber(v[m]) \in BOOLEAN /\ Resolver!IsNumber(w[m]) \in BOOLEAN
        BY DEF Resolver!IsNumber
  <2> QED BY <2>2, <2>3, <2>4 DEF Resolver!ScriptPartBefore
<1> QED BY <1>2, <1>3

(***************************************************************************)
(* The inductive invariant of the choice.                                  *)
(***************************************************************************)
Chosen ==
    IF part = "choice"
    THEN /\ ChoiceTypes /\ dep.requirement \in Resolver!Requirement
         /\ resolved = <<>> \/ \E c : resolved = <<c>> /\ Best(c)
    ELSE bundled = <<>> /\ installed = [d \in Resolver!Directory |-> {}] /\ resolved = <<>>

LEMMA ChosenInit == HostInit => Chosen
<1> SUFFICES ASSUME HostInit  PROVE Chosen
    OBVIOUS
<1>1. CASE part = "choice"
  <2>1. Resolver!Init
        BY <1>1 DEF HostInit
  <2>2. bundled \in Seq(Resolver!Version)
    <3>1. ASSUME NEW v \in Resolver!Version  PROVE <<v>> \in Seq(Resolver!Version)
          OBVIOUS
    <3>2. <<>> \in Seq(Resolver!Version)
          OBVIOUS
    <3> QED BY <2>1, <3>1, <3>2 DEF Resolver!Init
  <2>3. Scanned
    <3>1. \A s : Resolver!IsFiniteSet(s) => IsFiniteSet(s)
          BY DEF Resolver!IsFiniteSet, IsFiniteSet
    <3>2. installed \in [Resolver!Directory ->
             {s \in SUBSET Resolver!Version :
                 Resolver!IsFiniteSet(s) /\ Resolver!Cardinality(s) <= MaxFound}]
          BY <2>1 DEF Resolver!Init
    <3>3. /\ installed \in [Resolver!Directory -> SUBSET Resolver!Version]
          /\ \A d \in Resolver!Directory : Resolver!IsFiniteSet(installed[d])
          BY <3>2
    <3> QED BY <3>1, <3>3 DEF Scanned
  <2>4. dep.version \in Resolver!Version /\ dep.requirement \in Resolver!Requirement
    <3>1. PICK sign \in DOMAIN Resolver!Parsed, v \in Resolver!Version :
             dep = [requirement |-> Resolver!Parsed[sign], version |-> v]
          BY <2>1 DEF Resolver!Init
    <3>2. Resolver!Parsed[sign] \in Resolver!Requirement
          BY DEF Resolver!Parsed, Resolver!Requirement
    <3> QED BY <3>1, <3>2
  <2> QED BY <1>1, <2>1, <2>2, <2>3, <2>4 DEF Chosen, ChoiceTypes, Resolver!Init
<1>2. CASE part # "choice"
      BY <1>2 DEF HostInit, Chosen
<1> QED BY <1>1, <1>2

LEMMA ChosenNext ==
    Chosen /\ [HostNext]_<<part, vars, bootVars, choice, moduleVars>> => Chosen'
<1> SUFFICES ASSUME Chosen, [HostNext]_<<part, vars, bootVars, choice, moduleVars>>
             PROVE  Chosen'
    OBVIOUS
<1>1. CASE part' = part /\ UNCHANGED choice
  <2>1. /\ bundled' = bundled /\ installed' = installed /\ dep' = dep /\ resolved' = resolved
        BY <1>1 DEF choice
  <2>2. ASSUME NEW c, Best(c)  PROVE Best(c)'
        BY <2>1, <2>2 DEF Best, Fits
  <2>3. CASE part = "choice"
    <3>1. ChoiceTypes /\ dep.requirement \in Resolver!Requirement
          BY <2>3 DEF Chosen
    <3>2. (ChoiceTypes /\ dep.requirement \in Resolver!Requirement)'
          BY <2>1, <3>1 DEF ChoiceTypes, Scanned
    <3>3. (resolved = <<>> \/ \E c : resolved = <<c>> /\ Best(c))'
      <4>1. CASE resolved = <<>>
            BY <2>1, <4>1
      <4>2. CASE resolved # <<>>
        <5>1. PICK c : resolved = <<c>> /\ Best(c)
              BY <2>3, <4>2 DEF Chosen
        <5>2. resolved' = <<c>> /\ Best(c)'
              BY <2>1, <2>2, <5>1
        <5> QED BY <5>2
      <4> QED BY <4>1, <4>2
    <3> QED BY <1>1, <2>3, <3>2, <3>3 DEF Chosen
  <2>4. CASE part # "choice"
        BY <1>1, <2>1, <2>4 DEF Chosen
  <2> QED BY <2>3, <2>4
<1>2. CASE part = "choice" /\ Resolver!Next /\ part' = part
  <2> DEFINE s == Resolver!GetAvailableComponents
             k == Resolver!SelectInSeq(s, Resolver!Satisfies)
  <2>1. /\ bundled' = bundled /\ installed' = installed /\ dep' = dep
        /\ resolved' = <<IF k = 0 THEN Resolver!Null ELSE s[k]>>
        BY <1>2 DEF Resolver!Next, Resolver!ResolveDependency
  <2>2. ChoiceTypes /\ dep.requirement \in Resolver!Requirement
        BY <1>2 DEF Chosen
  <2>3. (ChoiceTypes /\ dep.requirement \in Resolver!Requirement)'
        BY <2>1, <2>2 DEF ChoiceTypes, Scanned
  <2>4. Best(IF k = 0 THEN Resolver!Null ELSE s[k])
        BY <2>2, TakenIsBest
  <2> HIDE DEF s, k
  <2>5. PICK c : c = IF k = 0 THEN Resolver!Null ELSE s[k]
        OBVIOUS
  <2>6. resolved' = <<c>> /\ Best(c)
        BY <2>1, <2>4, <2>5
  <2>7. Best(c)'
        BY <2>1, <2>6 DEF Best, Fits
  <2> QED BY <1>2, <2>3, <2>6, <2>7 DEF Chosen
<1> QED BY <1>1, <1>2 DEF HostNext

LEMMA Chooses == HostSpec => []Chosen
<1> QED BY ChosenInit, ChosenNext, PTL DEF HostSpec

\* Whatever the parts of the versions are, ResolveDependency takes the best in the
\* order of CompareVersions: a bundled component if it satisfies the requirement;
\* else an installed one that does, such that none that does is later, and of two
\* copies the one in the first directory of the search path; none only if none
\* satisfies it.
THEOREM TheFirstIsTaken == HostSpec => [](resolved # <<>> => Best(resolved[1]))
<1>1. Chosen => (resolved # <<>> => Best(resolved[1]))
      BY DEF Chosen
<1> QED BY <1>1, Chooses, PTL

LEMMA MeetsFits ==
    ASSUME SameWidth, ChoiceTypes, dep.requirement \in Resolver!Requirement,
           NEW v \in Resolver!Version, Numbers(v), Numbers(dep.version),
           dep.requirement # "LTE"
    PROVE  Resolver!Meets(v) <=> Fits(v)
<1>1. dep.version \in Resolver!Version /\ v \in Seq(Parts) /\ dep.version \in Seq(Parts)
      BY PartsAndVersions DEF ChoiceTypes
<1>2. /\ Resolver!VersionIsLess(v, dep.version) <=> <<v, dep.version>> \in Older
      /\ Resolver!VersionIsLess(dep.version, v) <=> <<dep.version, v>> \in Older
      BY <1>1, VersionsAgree DEF Older
<1>3. dep.requirement \in {"EQ", "GT", "LT", "GTE"}
      BY DEF Resolver!Requirement
<1> QED BY <1>2, <1>3 DEF Resolver!Meets, Fits

LEMMA ChosenIsBest == ASSUME SameWidth, Chosen  PROVE BestIsChosen
<1>1. CASE part # "choice"
  <2>1. bundled = <<>> /\ installed = [d \in Resolver!Directory |-> {}] /\ resolved = <<>>
        BY <1>1 DEF Chosen
  <2>2. Resolver!Available = {}
        BY <2>1 DEF Resolver!Available, Resolver!Range
  <2> QED BY <2>1, <2>2 DEF BestIsChosen, Resolver!BestIsChosen, Resolver!LatestIsChosen,
                            Resolver!UnresolvedIsMissing, Resolver!ScriptAgrees
<1>2. CASE part = "choice"
  <2>1. /\ ChoiceTypes /\ dep.requirement \in Resolver!Requirement
        /\ resolved = <<>> \/ \E c : resolved = <<c>> /\ Best(c)
        BY <1>2 DEF Chosen
  <2>2. /\ DOMAIN bundled = 1..Len(bundled)
        /\ \A i \in 1..Len(bundled) : bundled[i] \in Resolver!Version
        /\ \A d \in Resolver!Directory : installed[d] \subseteq Resolver!Version
        /\ dep.version \in Resolver!Version
        BY <2>1, LenProperties, ElementOfSeq DEF ChoiceTypes, Scanned
  <2>3. /\ \A v \in Resolver!Range(bundled) : \E i \in 1..Len(bundled) : v = bundled[i]
        /\ \A v \in Resolver!Range(bundled) : v \in Resolver!Available
        /\ \A d \in Resolver!Directory : \A v \in installed[d] : v \in Resolver!Available
        /\ \A v \in Resolver!Available : v \in Resolver!Range(bundled)
                                         \/ \E d \in Resolver!Directory : v \in installed[d]
        BY <2>2 DEF Resolver!Available, Resolver!Range
  <2>4. \A v \in Resolver!Available : v \in Resolver!Version
        BY <2>2, <2>3
  <2>5. Resolver!ScriptAgrees
    <3> SUFFICES ASSUME NEW v \in Resolver!Available
                 PROVE  LET order == Resolver!ScriptCompare(v, dep.version)
                        IN  /\ order = 0 - Resolver!ScriptCompare(dep.version, v)
                            /\ (order > 0) <=> Resolver!VersionIsLess(dep.version, v)
        BY DEF Resolver!ScriptAgrees
    <3>1. v \in Seq(Parts) /\ dep.version \in Seq(Parts)
          BY <2>2, <2>4, PartsAndVersions
    <3>2. /\ ~(Resolver!ScriptBefore(v, dep.version) /\ Resolver!ScriptBefore(dep.version, v))
          /\ Resolver!VersionIsLess(dep.version, v) <=> Resolver!ScriptBefore(dep.version, v)
          BY <3>1, ScriptIsAsymmetric, VersionsAgree
    <3> QED BY <3>2 DEF Resolver!ScriptCompare, Resolver!Order
  <2>6. ASSUME Resolver!AllNumbers, NEW v \in Resolver!Available, dep.requirement # "LTE"
        PROVE  Resolver!Meets(v) <=> Fits(v)
    <3>1. Numbers(v) /\ Numbers(dep.version)
          BY <2>6 DEF Resolver!AllNumbers, Numbers
    <3> QED BY <2>1, <2>4, <2>6, <3>1, MeetsFits
  <2>7. Resolver!UnresolvedIsMissing
    <3> SUFFICES ASSUME Resolver!AllNumbers, resolved = <<Resolver!Null>>,
                        dep.requirement # "LTE", NEW v \in Resolver!Available
                 PROVE  ~Resolver!Meets(v)
        BY DEF Resolver!UnresolvedIsMissing
    <3>1. Best(Resolver!Null)
          BY <2>1
    <3>2. ~Fits(v)
          BY <2>3, <3>1 DEF Best
    <3> QED BY <2>6, <3>2
  <2>8. Resolver!LatestIsChosen
    <3> SUFFICES ASSUME Resolver!AllNumbers, resolved # <<>>,
                        resolved[1].path \in Resolver!Directory
                 PROVE  LET c == resolved[1]
                        IN  /\ \A v \in Resolver!Range(bundled) : ~Resolver!Meets(v)
                            /\ c.version \in installed[c.path] /\ Resolver!Meets(c.version)
                            /\ \A d \in Resolver!Directory : \A v \in installed[d] :
                                  Resolver!Meets(v) => ~Resolver!VersionIsLess(c.version, v)
                            /\ c.version \notin installed[SearchPath[1]]
                               \/ c.path = SearchPath[1]
        BY DEF Resolver!LatestIsChosen
    <3>1. PICK c : resolved = <<c>> /\ Best(c)
          BY <2>1
    <3>2. resolved[1] = c /\ c.path \in Resolver!Directory
          BY <3>1
    <3>3. /\ \A i \in 1..Len(bundled) : ~Fits(bundled[i])
          /\ c.version \in installed[c.path] /\ Fits(c.version)
          /\ \A d \in Resolver!Directory : \A v \in installed[d] :
                Fits(v) => <<c.version, v>> \notin Older
          /\ c.version \notin installed[SearchPath[1]] \/ c.path = SearchPath[1]
          BY <3>1, <3>2 DEF Best
    <3>4. dep.requirement # "LTE"
          BY <3>3 DEF Fits
    <3>5. c.version \in Resolver!Available /\ Resolver!Meets(c.version)
          BY <2>3, <2>6, <3>2, <3>3, <3>4
    <3>6. \A v \in Resolver!Range(bundled) : ~Resolver!Meets(v)
          BY <2>3, <2>6, <3>3, <3>4
    <3>7. ASSUME NEW d \in Resolver!Directory, NEW v \in installed[d], Resolver!Meets(v)
          PROVE  ~Resolver!VersionIsLess(c.version, v)
      <4>1. v \in Resolver!Available
            BY <2>3
      <4>2. <<c.version, v>> \notin Older
            BY <2>6, <3>3, <3>4, <3>7, <4>1
      <4>3. Numbers(c.version) /\ Numbers(v)
            BY <3>5, <4>1 DEF Resolver!AllNumbers, Numbers
      <4>4. /\ c.version \in Resolver!Version /\ v \in Resolver!Version
            /\ c.version \in Seq(Parts) /\ v \in Seq(Parts)
            BY <2>4, <3>5, <4>1, PartsAndVersions
      <4> QED BY <4>2, <4>3, <4>4, VersionsAgree DEF Older
    <3> QED BY <3>2, <3>3, <3>5, <3>6, <3>7
  <2> QED BY <2>5, <2>7, <2>8 DEF BestIsChosen, Resolver!BestIsChosen
<1> QED BY <1>1, <1>2

\* If all numbers have the same number of digits, the component that is taken is the
\* latest that meets the requirement, and the script's comparison goes by the same
\* order.
THEOREM BestComponent == ASSUME SameWidth  PROVE HostSpec => []BestIsChosen
<1>1. Chosen => BestIsChosen
      BY ChosenIsBest
<1> QED BY <1>1, Chooses, PTL

-----------------------------------------------------------------------------
(* The composition.                                                          *)

\* Each takes its own steps only.
LEMMA Separately == HostSpec => Spec /\ Loader!Spec /\ Loading!Spec
<1>1. HostInit => Init /\ Loader!Init /\ Loading!Init
      BY DEF HostInit
<1>2. [HostNext]_<<part, vars, bootVars, choice, moduleVars>> =>
         [Next]_vars /\ [Loader!Next]_(Loader!vars) /\ [Loading!Next]_(Loading!vars)
      BY DEF HostNext, bootVars, moduleVars, Loader!vars, Loader!disk, Loader!local,
             Loader!installer, Loader!history, Loading!vars, Loading!lists, Loading!history
<1> QED BY <1>1, <1>2, PTL DEF HostSpec, Spec, Loader!Spec, Loading!Spec

\* No scan of the files begins inside another, whatever modules do.
THEOREM NeverTwoScans == HostSpec => []ScansDoNotNest
<1>1. ModulesInv => ScansDoNotNest
  <2> SUFFICES ASSUME ModulesInv, NEW j \in DOMAIN stack, NEW k \in DOMAIN stack,
                      stack[j].call = "scan", stack[k].call = "scan"
               PROVE  j = k
      BY DEF ScansDoNotNest, Loading!ScansDoNotNest
  <2>1. DOMAIN stack = 1..Len(stack)
        BY LenProperties DEF ModulesInv, Calls
  <2>2. Scanning(stack[j]) /\ Scanning(stack[k])
        BY DEF Scanning
  <2>3. j = Len(stack) /\ k = Len(stack)
        BY <2>1, <2>2 DEF ModulesInv, Calls
  <2> QED BY <2>3
<1> QED BY <1>1, Separately, ModulesAreSound, PTL

\* While the host runs, no file is left whose provider is there, in whatever order
\* files and providers came.
THEOREM ProvidersGetTheirFiles == HostSpec => []NoFileIsLeft
<1>1. ModulesInv => NoFileIsLeft
  <2> SUFFICES ASSUME ModulesInv, phase = "run", stack = <<>>,
                      NEW f \in Loading!ToSet(invalidModuleFiles), Supports[f] \in moduleProviders
               PROVE  Supports[f] \in orphan
      BY DEF NoFileIsLeft, Loading!NoFileIsLeft, ModulesInv
  <2>1. PICK k \in 1..Len(invalidModuleFiles) : f = invalidModuleFiles[k]
        BY LenProperties DEF Loading!ToSet, ModulesInv, Loading!TypeOK
  <2> QED BY <2>1 DEF ModulesInv, Left, Scans, Up
<1> QED BY <1>1, Separately, ModulesAreSound, PTL

\* Every module that is loaded is started once; those that the scan in LoadModules
\* has loaded, twice.
THEOREM ModulesStart == HostSpec => []EveryModuleStarts
<1>1. ModulesInv => EveryModuleStarts
  <2> SUFFICES ASSUME ModulesInv, phase = "run", stack = <<>>, NEW f \in Loading!ToSet(loadedModules)
               PROVE  starts[f] = IF f \in scanned THEN 2 ELSE 1
      BY DEF EveryModuleStarts, Loading!EveryModuleStarts
  <2>1. f \in Elements(loadedModules) /\ f \in Loading!File /\ starts[f] \in Nat
    <3>1. loadedModules \in Seq(Loading!File) /\ starts \in [Loading!File -> Nat]
          BY DEF ModulesInv, Loading!TypeOK
    <3>2. f \in Elements(loadedModules)
          BY <3>1, LenProperties DEF Loading!ToSet, Elements
    <3>3. f \in Loading!File
          BY <3>1, <3>2, ElementOfSeq DEF Elements
    <3> QED BY <3>1, <3>2, <3>3
  <2>2. ~Due(1, f) /\ ~Due(2, f)
        BY NoElements DEF Due
  <2>3. starts[f] + One(Due(1, f)) + One(Due(2, f))
            + One(phase \in {"find", "scan"} /\ f \in Elements(loadedModules))
        = IF f \in scanned THEN 2 ELSE 1
        BY <2>1 DEF ModulesInv, Counted, Up
  <2> QED BY <2>1, <2>2, <2>3 DEF One
<1> QED BY <1>1, Separately, ModulesAreSound, PTL

\* In the host, too, components come before the files that depend on them, and an
\* update is forgotten only once it is applied, but for what the two name.
THEOREM HostUpdatesSafely == HostSpec => UpdateIsSafe
BY Separately, UpdateStaysSafe, PTL DEF UpdateIsSafe

\* ... and an archive that was not downloaded completely is not unpacked.
THEOREM HostUnpacksComplete == HostSpec => []OnlyCompleteArchives
BY Separately, AbortedIsNotUnpacked, PTL

=============================================================================
