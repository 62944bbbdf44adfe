---------------------------- MODULE BootConstants ----------------------------
(* What an application may depend on, for the boot loader (see Boot).        *)
EXTENDS FiniteSets

CONSTANTS
    Component,  \* the components there are
    Runtime,    \* the one every manifest asks for
    Sdk,        \* the one that supplies all others but the next
    MobileSdk   \* it supplies itself only

ASSUME BootAssumption ==
    /\ Runtime \in Component /\ IsFiniteSet(Component)
    /\ Runtime \notin {Sdk, MobileSdk} /\ Sdk # MobileSdk
    /\ "application" \notin Component
=============================================================================
