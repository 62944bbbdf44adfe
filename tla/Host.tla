--------------------------------- MODULE Host ---------------------------------
(* What an application goes through until it runs, step by step: the installer, *)
(* the boot loader, the choice of a component and the host's modules.  Each     *)
(* has its own state here (the boot loader takes the installer for what         *)
(* Installation promises): in a behaviour one of them, `part`, is at work and   *)
(* the others rest.                                                             *)
EXTENDS Installer, BootConstants

CONSTANTS
    Parts, MaxParts, SearchPath, MaxFound,               \* of Dependencies
    Library, Script, Provider, BuiltIn, Supports, Brings \* of Modules

VARIABLES
    part,
    \* Boot
    components, files, waiting, marked, needs, pc, app, updating, missing, total, done,
    result, failed, interrupted,
    \* Dependencies
    bundled, installed, dep, resolved,
    \* Modules
    phase, found, moduleProviders, invalidModuleFiles, autoScan, loadedModules, stack,
    starts, stopped, scanned, orphan

bootVars ==
    <<components, files, waiting, marked, needs, pc, app, updating, missing, total, done,
      result, failed, interrupted>>
choice == <<bundled, installed, dep, resolved>>
moduleVars ==
    <<phase, found, moduleProviders, invalidModuleFiles, autoScan, loadedModules, stack,
      starts, stopped, scanned, orphan>>

Loader == INSTANCE Boot WITH
    update <- waiting, marker <- marked, unpacked <- done

Resolver == INSTANCE Dependencies WITH found <- installed

Loading == INSTANCE Modules

ASSUME ResolverAssumption == Resolver!DependenciesAssumption
ASSUME LoadingAssumption == Loading!ModulesAssumption

\* Those that rest begin in one of their initial states only.
HostInit ==
    /\ part \in {"installer", "boot", "choice", "modules"}
    /\ Init /\ Loader!Init /\ Loading!Init
    /\ part # "installer" =>
         given = [components |-> 0, update |-> FALSE, writable |-> TRUE, terminal |-> FALSE]
    /\ part # "boot" =>
         /\ components = {} /\ files = "old" /\ ~marked
         /\ needs = [v \in {"old", "new"} |-> {Runtime}]
    /\ IF part = "choice" THEN Resolver!Init
       ELSE /\ bundled = <<>> /\ installed = [d \in Resolver!Directory |-> {}]
            /\ dep = [requirement |-> "EQ", version |-> <<>>] /\ resolved = <<>>

HostNext ==
    \/ part = "installer" /\ Next /\ UNCHANGED <<part, bootVars, choice, moduleVars>>
    \/ part = "boot" /\ Loader!Next /\ UNCHANGED <<part, vars, choice, moduleVars>>
    \/ part = "choice" /\ Resolver!Next /\ UNCHANGED <<part, vars, bootVars, moduleVars>>
    \/ part = "modules" /\ Loading!Next /\ UNCHANGED <<part, vars, bootVars, choice>>

\* The fairness of each, asked for when it is at work.
HostFairness ==
    /\ WF_vars(part = "installer" /\ ThreadStep)
    /\ WF_vars(part = "installer" /\ LoopStep)
    /\ WF_vars(part = "installer" /\ Install)
    /\ WF_bootVars(part = "boot" /\ Loader!BootStep)

HostSpec ==
    /\ HostInit /\ [][HostNext]_<<part, vars, bootVars, choice, moduleVars>>
    /\ HostFairness

\* The properties of the others, and the types they rest on; see their modules.
UpdateIsSafe == Loader!UpdateIsSafe
UpdateArrives == Loader!UpdateArrives
BestIsChosen == Resolver!BestIsChosen
ScansDoNotNest == Loading!ScansDoNotNest
NoFileIsLeft == Loading!TypeOK /\ Loading!NoFileIsLeft
EveryModuleStarts == Loading!EveryModuleStarts
=============================================================================
