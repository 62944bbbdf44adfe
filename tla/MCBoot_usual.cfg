SPECIFICATION Spec
CONSTANTS
    Component = {"runtime", "sdk", "mobilesdk"}
    Runtime = "runtime"
    Sdk = "sdk"
    MobileSdk = "mobilesdk"
INVARIANTS
    StartsAsUsual
