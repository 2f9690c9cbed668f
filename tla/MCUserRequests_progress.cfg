CONSTANTS
    AuthCalls = {a1}
    FirmwareCalls = {f1, f2}
    NoCall = NoCall
SPECIFICATION RequestsSpec
INVARIANT PopupInProgress
