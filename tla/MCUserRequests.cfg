CONSTANTS
    AuthCalls = {a1, a2, a3}
    FirmwareCalls = {f1, f2, f3}
    NoCall = NoCall
SPECIFICATION RequestsSpec
INVARIANTS AnswersOnce
PROPERTIES AcceptsShownUser AuthIsAnswered
