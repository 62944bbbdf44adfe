----------------------------- MODULE Dependencies ----------------------------
(***************************************************************************)
(* How one dependency of an application's manifest is resolved             *)
(* (Application::ResolveDependencies, src/libtide/utils): the components   *)
(* bundled with the application are merged with those found on the search  *)
(* path, which are sorted so that the latest comes first, and the first    *)
(* one that satisfies the requirement is taken.                            *)
(***************************************************************************)
EXTENDS Versions, FiniteSets

CONSTANTS
    Parts,       \* the parts versions are made of
    MaxParts,    \* the longest version
    SearchPath,  \* the directories of GetComponentSearchPaths, in order
    MaxFound     \* bound: versions of the component in one directory

\* What is assumed of the constants. "bundled" and "null" stand for what is in no
\* directory of the search path.
DependenciesAssumption ==
    /\ \A part \in Parts : part \in Seq(Nat) /\ part # <<>>
    /\ MaxParts \in Nat \ {0} /\ MaxFound \in Nat
    /\ SearchPath \in Seq(Range(SearchPath) \ {"bundled", "null"})

VARIABLES
    bundled,   \* the versions bundled with the application, as scanned
    found,     \* for each directory the versions in it
    dep,       \* the dependency: its requirement and its version
    resolved   \* <<>> before, <<component>> after

vars == <<bundled, found, dep, resolved>>

Version == UNION {[1..n -> Parts] : n \in 1..MaxParts}
Requirement == {"EQ", "GT", "LT", "GTE", "LTE"}
Directory == Range(SearchPath)
Null == [version |-> <<>>, path |-> "null"]

\* NewDependencyFromManifestLine: what the operator in the manifest becomes.
Parsed == [sign \in {">=", "<=", "<", ">", "=", ""} |->
              CASE sign = ">=" -> "GTE" [] sign = "<=" -> "LTE"
                [] sign = "<" -> "LT" [] sign = ">" -> "GT"
                [] OTHER -> "EQ"]

\* The components are those of the type and name the dependency asks for.
Init ==
    /\ bundled \in {<<>>} \cup {<<v>> : v \in Version}
    /\ found \in [Directory ->
          {s \in SUBSET Version : IsFiniteSet(s) /\ Cardinality(s) <= MaxFound}]
    /\ \E sign \in DOMAIN Parsed, v \in Version :
          dep = [requirement |-> Parsed[sign], version |-> v]
    /\ resolved = <<>>

\* Scan*AtPath; the order in which a directory is listed is any.
Scan(directory) ==
    LET versions == SetToSeq(found[directory])
    IN  [i \in DOMAIN versions |-> [version |-> versions[i], path |-> directory]]

\* A directory that comes twice in the search path is added once.
AddToComponentVector(components, c) ==
    IF c \in Range(components) THEN components ELSE Append(components, c)

\* std::stable_sort
StableSort(s, Before(_, _)) ==
    LET Earlier(i, j) == \/ Before(s[i], s[j])
                         \/ ~Before(s[j], s[i]) /\ i < j
        Place(i) == 1 + Cardinality({j \in DOMAIN s : Earlier(j, i)})
    IN  [k \in DOMAIN s |-> s[CHOOSE i \in DOMAIN s : Place(i) = k]]

\* Mutant: the earliest version first.
WeakCompareUp(one, two) == CompareVersions(one.version, two.version) < 0

WeakCompareComponents(one, two) == CompareVersions(one.version, two.version) > 0

GetInstalledComponents ==
    LET all == FoldLeft(LAMBDA components, directory :
                           FoldLeft(AddToComponentVector, components, Scan(directory)),
                        <<>>, SearchPath)
    IN  StableSort(all, WeakCompareComponents)

GetAvailableComponents ==
    [i \in DOMAIN bundled |-> [version |-> bundled[i], path |-> "bundled"]]
        \o GetInstalledComponents

\* Nothing satisfies LTE.
Satisfies(comp) ==
    LET compare == CompareVersions(comp.version, dep.version)
    IN  \/ dep.requirement = "EQ" /\ compare = 0
        \/ dep.requirement = "GTE" /\ compare >= 0
        \/ dep.requirement = "GT" /\ compare > 0
        \/ dep.requirement = "LT" /\ compare < 0

ResolveDependency ==
    /\ resolved = <<>>
    /\ LET first == SelectInSeq(GetAvailableComponents, Satisfies)
       IN  resolved' = <<IF first = 0 THEN Null ELSE GetAvailableComponents[first]>>
    /\ UNCHANGED <<bundled, found, dep>>

Next == ResolveDependency

Spec == Init /\ [][Next]_vars

-----------------------------------------------------------------------------
(* Properties.                                                              *)

\* The requirement in terms of the reference order of versions.
Meets(version) ==
    CASE dep.requirement = "EQ" -> version = dep.version
      [] dep.requirement = "GTE" -> ~VersionIsLess(version, dep.version)
      [] dep.requirement = "GT" -> VersionIsLess(dep.version, version)
      [] dep.requirement = "LT" -> VersionIsLess(version, dep.version)
      [] dep.requirement = "LTE" -> ~VersionIsLess(dep.version, version)

Available == Range(bundled) \cup UNION {found[d] : d \in Directory}

\* All parts of the versions at hand are numbers.
AllNumbers ==
    \A v \in Available \cup {dep.version} : \A i \in DOMAIN v : IsNumber(v[i])

\* The latest version that meets the requirement is chosen, and of two copies
\* the one earlier on the search path (GetInstalledComponents); a bundled
\* component goes before all.
LatestIsChosen ==
    AllNumbers /\ resolved # <<>> /\ resolved[1].path \in Directory =>
        LET c == resolved[1]
        IN  /\ \A v \in Range(bundled) : ~Meets(v)
            /\ c.version \in found[c.path] /\ Meets(c.version)
            /\ \A d \in Directory : \A v \in found[d] :
                  Meets(v) => ~VersionIsLess(c.version, v)
            /\ c.version \notin found[SearchPath[1]] \/ c.path = SearchPath[1]

\* A dependency stays unresolved only if no component meets it (it then has to
\* be downloaded); with <= it stays unresolved whatever is installed.
UnresolvedIsMissing ==
    AllNumbers /\ resolved = <<Null>> =>
        dep.requirement = "LTE" \/ \A v \in Available : ~Meets(v)

\* The check for updates agrees with the one for components, and takes a part
\* that is no number for the earlier one (test_version_comparison).
ScriptAgrees ==
    \A v \in Available :
        LET order == ScriptCompare(v, dep.version)
        IN  /\ order = 0 - ScriptCompare(dep.version, v)
            /\ (order > 0) <=> VersionIsLess(dep.version, v)

\* The one that is taken is the best there is, and the check for updates goes by
\* the same order.
BestIsChosen == LatestIsChosen /\ UnresolvedIsMissing /\ ScriptAgrees
=============================================================================
