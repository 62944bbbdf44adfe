------------------------------- MODULE Versions ------------------------------
(***************************************************************************)
(* Version strings and the two functions that compare them: in C++ for the *)
(* components on disk (src/libtide/utils/boot_utils.cpp), in JavaScript    *)
(* for updates of the application (modules/network, UpdateManager).        *)
(*                                                                         *)
(* A version is the sequence of its parts between the dots and a part the  *)
(* sequence of its characters: 0..9 for the digits and greater numbers for *)
(* letters, in the order of the character set.                             *)
(***************************************************************************)
EXTENDS Naturals, Sequences, SequencesExt, FiniteSetsExt

Common(s, t) == 1..Min({Len(s), Len(t)})
Differing(s, t) == {i \in Common(s, t) : s[i] # t[i]}

\* std::string::compare(..) < 0, and the operator < of JavaScript's strings.
TextBefore(s, t) ==
    IF Differing(s, t) = {} THEN Len(s) < Len(t)
    ELSE LET i == Min(Differing(s, t)) IN s[i] < t[i]

\* 1, 0 or -1: only the sign of a result is used. Strings are equal when
\* neither is before the other.
Order(one, two, Before(_, _)) ==
    IF Before(two, one) THEN 1 ELSE IF Before(one, two) THEN 0 - 1 ELSE 0

\* Tokenize an empty string: no parts at all. The first differing part decides,
\* else the number of parts.
PartsBefore(one, two, Before(_, _)) ==
    IF Differing(one, two) = {} THEN Len(one) < Len(two)
    ELSE LET i == Min(Differing(one, two)) IN Before(one[i], two[i])

VersionBefore(one, two) == PartsBefore(one, two, TextBefore)
CompareVersions(one, two) == Order(one, two, VersionBefore)

\* isNaN: a part that is no number.
IsNumber(part) == \A i \in DOMAIN part : part[i] < 10

\* A part that is no number is before every number; both are strings that came
\* from split, so that "<" compares two numbers as strings as well.
ScriptPartBefore(one, two) ==
    IF IsNumber(one) = IsNumber(two) THEN TextBefore(one, two) ELSE IsNumber(two)

ScriptBefore(one, two) == PartsBefore(one, two, ScriptPartBefore)
ScriptCompare(newVersion, oldVersion) == Order(newVersion, oldVersion, ScriptBefore)

-----------------------------------------------------------------------------
(* The reference: parts that are numbers are compared as numbers, and what  *)
(* is no number comes before.                                               *)

Number(part) == FoldLeft(LAMBDA n, d : 10 * n + d, 0, part)

PartIsLess(one, two) ==
    IF IsNumber(one) /\ IsNumber(two) THEN Number(one) < Number(two)
    ELSE IF IsNumber(one) = IsNumber(two) THEN TextBefore(one, two)
    ELSE IsNumber(two)

VersionIsLess(one, two) == PartsBefore(one, two, PartIsLess)
=============================================================================
