------------------------------- MODULE Modules -------------------------------
(***************************************************************************)
(* How the host loads, starts and unloads modules (src/libtide/host.cpp).  *)
(* The host itself loads shared libraries.  Other files are kept until a   *)
(* module provider recognises them; a module may bring a provider, in      *)
(* Initialize, in Start or later, and providers that come late set off a   *)
(* scan of the files that are left.  Start and CreateModule are calls into *)
(* modules that call back into the host: `stack` holds the calls under way.*)
(* All of it is done under one recursive lock (moduleMutex).               *)
(*                                                                         *)
(* A module is named by its file.  LoadModule's check for a module that is *)
(* loaded already compares the file with the modules' directories: it      *)
(* never finds one, and as every file is found once it is left out.        *)
(***************************************************************************)
EXTENDS Naturals, Sequences, SequencesExt

CONSTANTS
    Library,   \* files the host loads
    Script,    \* other files in the directories of modules
    Provider,  \* module providers, the host aside
    BuiltIn,   \* those of the built-in modules
    Supports,  \* of each script: the provider that recognises it
    Brings     \* of each file: the providers its module adds

File == Library \cup Script

\* What is assumed of the constants.
ModulesAssumption ==
    /\ Library \cap Script = {}
    /\ BuiltIn \subseteq Provider
    /\ Supports \in [Script -> Provider]
    /\ Brings \in [File -> SUBSET Provider]

VARIABLES
    phase,        \* of Host::Run
    found,        \* files FindBasicModules has come to
    moduleProviders,
    invalidModuleFiles,
    autoScan,
    loadedModules,
    stack,        \* calls of ScanInvalidModuleFiles and StartModules, innermost last
    starts,       \* history: calls of Start per module
    stopped,      \* history: modules that were stopped
    scanned,      \* history: modules loaded by the scan in LoadModules
    orphan        \* history: providers of modules that then failed

lists == <<moduleProviders, invalidModuleFiles, loadedModules>>
history == <<starts, stopped, scanned, orphan>>
vars == <<phase, found, lists, autoScan, stack, history>>

\* Host::Run adds itself; LoadBuiltinModules adds the providers that come along.
Init ==
    /\ phase = "find" /\ found = {}
    /\ moduleProviders = BuiltIn
    /\ invalidModuleFiles = <<>> /\ autoScan = FALSE /\ loadedModules = <<>>
    /\ stack = <<>>
    /\ starts = [f \in File |-> 0] /\ stopped = {} /\ scanned = {} /\ orphan = {}

-----------------------------------------------------------------------------
(* Calls under way.                                                         *)

Scan == [call |-> "scan", at |-> 1, fresh |-> <<>>]
StartAll(modules, again) == [call |-> "start", todo |-> modules, again |-> again]

Top == stack[Len(stack)]
Below == Front(stack)
In(call) == stack # <<>> /\ Top.call = call

\* Mutant: the flag stays, and a provider that comes during a scan begins another.
EnterScanOpen(below) ==
    /\ stack' = Append(below, Scan)
    /\ UNCHANGED autoScan

\* ScanInvalidModuleFiles begins: no scan begins in it.
EnterScan(below) ==
    /\ stack' = Append(below, Scan)
    /\ autoScan' = FALSE

\* AddModuleProvider, of providers p, in a call that leaves the stack at `below`.
AddModuleProviders(p, below) ==
    /\ moduleProviders' = moduleProviders \cup p
    /\ IF p # {} /\ autoScan THEN EnterScan(below)
       ELSE stack' = below /\ UNCHANGED autoScan

-----------------------------------------------------------------------------
(* LoadModules.                                                             *)

\* FindBasicModules comes to a library.  The module adds its providers in Initialize
\* or later; CreateModule or Initialize may throw, before that or after it.
LoadLibrary(f) ==
    /\ phase = "find" /\ f \in Library \ found
    /\ found' = found \cup {f}
    /\ \E loads, adds \in BOOLEAN :
          /\ loadedModules' = IF loads THEN Append(loadedModules, f) ELSE loadedModules
          /\ AddModuleProviders(IF adds THEN Brings[f] ELSE {}, stack)
          /\ orphan' = IF adds /\ ~loads THEN orphan \cup Brings[f] ELSE orphan
    /\ UNCHANGED <<phase, invalidModuleFiles, starts, stopped, scanned>>

\* FindBasicModules comes to another file.
AddInvalidModuleFile(f) ==
    /\ phase = "find" /\ f \in Script \ found
    /\ found' = found \cup {f}
    /\ invalidModuleFiles' = Append(invalidModuleFiles, f)
    /\ UNCHANGED <<phase, moduleProviders, loadedModules, autoScan, stack, history>>

FoundAll ==
    /\ phase = "find" /\ found = File
    /\ phase' = "scan"
    /\ EnterScan(stack)
    /\ UNCHANGED <<found, lists, history>>

\* The scan is over: every module that is loaded by now is started.
StartLoaded ==
    /\ phase = "scan" /\ stack = <<>>
    /\ phase' = "start"
    /\ stack' = <<StartAll(loadedModules, FALSE)>>
    /\ UNCHANGED <<found, lists, autoScan, history>>

Loaded ==
    /\ phase = "start" /\ stack = <<>>
    /\ phase' = "run" /\ autoScan' = TRUE
    /\ UNCHANGED <<found, lists, stack, history>>

-----------------------------------------------------------------------------
(* ScanInvalidModuleFiles.                                                  *)

Candidate == invalidModuleFiles[Top.at]
ScansFile == In("scan") /\ Top.at <= Len(invalidModuleFiles)

\* No provider knows the file.
Skip ==
    /\ ScansFile /\ Supports[Candidate] \notin moduleProviders
    /\ stack' = Append(Below, [Top EXCEPT !.at = @ + 1])
    /\ UNCHANGED <<phase, found, lists, autoScan, history>>

\* The file is loaded with its provider, and erased even on failure.
LoadScript ==
    /\ ScansFile /\ Supports[Candidate] \in moduleProviders
    /\ invalidModuleFiles' = RemoveAt(invalidModuleFiles, Top.at)
    /\ \E loads, adds \in BOOLEAN :
          /\ loadedModules' =
                IF loads THEN Append(loadedModules, Candidate) ELSE loadedModules
          /\ AddModuleProviders(
                IF adds THEN Brings[Candidate] ELSE {},
                IF loads THEN Append(Below, [Top EXCEPT !.fresh = Append(@, Candidate)])
                ELSE stack)
          /\ orphan' = IF adds /\ ~loads THEN orphan \cup Brings[Candidate] ELSE orphan
          /\ scanned' = IF loads /\ phase = "scan" THEN scanned \cup {Candidate} ELSE scanned
    /\ UNCHANGED <<phase, found, starts, stopped>>

\* Mutant: the scan ends without another one for the providers that came with it.
ScanOnce ==
    /\ In("scan") /\ Top.at > Len(invalidModuleFiles)
    /\ stack' = IF Top.fresh = <<>> THEN Below ELSE Append(Below, StartAll(Top.fresh, FALSE))
    /\ autoScan' = TRUE
    /\ UNCHANGED <<phase, found, lists, history>>

\* Mutant: what a scan has loaded is left for LoadModules to start.
ScanWithoutStart ==
    /\ In("scan") /\ Top.at > Len(invalidModuleFiles)
    /\ IF Top.fresh = <<>> THEN stack' = Below /\ autoScan' = TRUE ELSE EnterScan(Below)
    /\ UNCHANGED <<phase, found, lists, history>>

\* The end of the list: what was loaded is started, and then scanned again for.
ScanEnds ==
    /\ In("scan") /\ Top.at > Len(invalidModuleFiles)
    /\ IF Top.fresh = <<>> THEN stack' = Below /\ autoScan' = TRUE
       ELSE stack' = Append(Below, StartAll(Top.fresh, TRUE)) /\ UNCHANGED autoScan
    /\ UNCHANGED <<phase, found, lists, history>>

-----------------------------------------------------------------------------
(* StartModules.                                                            *)

\* Start of the next module, which may add its providers only now.
Start ==
    /\ In("start") /\ Top.todo # <<>>
    /\ starts' = [starts EXCEPT ![Head(Top.todo)] = @ + 1]
    /\ \E late \in BOOLEAN :
          AddModuleProviders(IF late THEN Brings[Head(Top.todo)] ELSE {},
                             Append(Below, [Top EXCEPT !.todo = Tail(@)]))
    /\ UNCHANGED <<phase, found, invalidModuleFiles, loadedModules, stopped, scanned, orphan>>

\* It throws, as that of the user interface does without a tiapp.xml: Run returns,
\* without a shutdown.  Modules that are scripts have no Start that could throw.
StartThrows ==
    /\ In("start") /\ Top.todo # <<>> /\ Head(Top.todo) \in Library
    /\ phase' = "failed" /\ stack' = <<>>
    /\ UNCHANGED <<found, lists, autoScan, history>>

Started ==
    /\ In("start") /\ Top.todo = <<>>
    /\ IF Top.again THEN EnterScan(Below) ELSE stack' = Below /\ UNCHANGED autoScan
    /\ UNCHANGED <<phase, found, lists, history>>

-----------------------------------------------------------------------------
(* The host runs, and shuts down.                                           *)

\* A module that runs adds its providers.
AddLater(f) ==
    /\ phase = "run" /\ stack = <<>> /\ f \in ToSet(loadedModules)
    /\ ~Brings[f] \subseteq moduleProviders
    /\ AddModuleProviders(Brings[f], stack)
    /\ UNCHANGED <<phase, found, invalidModuleFiles, loadedModules, history>>

\* Shutdown: the providers go first, and every module is stopped ...
Stop ==
    /\ phase = "run" /\ stack = <<>>
    /\ phase' = "unload"
    /\ moduleProviders' = {}
    /\ stopped' = ToSet(loadedModules)
    /\ UNCHANGED <<found, invalidModuleFiles, loadedModules, autoScan, stack>>
    /\ UNCHANGED <<starts, scanned, orphan>>

\* ... before the first is unloaded.
UnregisterModule ==
    /\ phase = "unload" /\ loadedModules # <<>>
    /\ loadedModules' = Tail(loadedModules)
    /\ UNCHANGED <<phase, found, moduleProviders, invalidModuleFiles, autoScan, stack, history>>

Step ==
    \/ FoundAll \/ StartLoaded \/ Loaded
    \/ Skip \/ LoadScript \/ ScanEnds \/ Start \/ Started \/ UnregisterModule
    \/ \E f \in File : LoadLibrary(f) \/ AddInvalidModuleFile(f)

Next ==
    \/ Step \/ StartThrows \/ Stop
    \/ \E f \in File : AddLater(f)

Spec == Init /\ [][Next]_vars

-----------------------------------------------------------------------------
(* Properties.                                                              *)

\* Types of the variables.
TypeOK ==
    /\ phase \in {"find", "scan", "start", "run", "unload", "failed"}
    /\ found \subseteq File /\ autoScan \in BOOLEAN
    /\ moduleProviders \subseteq Provider /\ orphan \subseteq Provider
    /\ invalidModuleFiles \in Seq(Script) /\ loadedModules \in Seq(File)
    /\ starts \in [File -> Nat]
    /\ stopped \cup scanned \subseteq File
    /\ \A k \in DOMAIN stack : stack[k].call \in {"scan", "start"}

\* ScanInvalidModuleFiles erases from the list it iterates over: no scan may
\* begin inside the loop of another, whatever the modules it loads do.
ScansDoNotNest ==
    \A j, k \in DOMAIN stack :
        stack[j].call = "scan" /\ stack[k].call = "scan" => j = k

\* While the host runs, no file is left whose provider is there, in whatever order
\* files and providers came: unless the provider is that of a module that failed.
NoFileIsLeft ==
    phase = "run" /\ stack = <<>> =>
        \A f \in ToSet(invalidModuleFiles) :
            Supports[f] \in moduleProviders => Supports[f] \in orphan

\* Module::Start is called for every module that is loaded, and once; but twice
\* for those the scan in LoadModules has loaded, which it has started as well.
EveryModuleStarts ==
    phase = "run" /\ stack = <<>> =>
        \A f \in ToSet(loadedModules) : starts[f] = IF f \in scanned THEN 2 ELSE 1
=============================================================================
