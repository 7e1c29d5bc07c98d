SPECIFICATION PluginsSpec
CONSTANTS
    Names <- MCNames
    Kind <- MCKind
    Commands = {c1, c2}
    Ops <- MCOps
    Hooks <- MCHooks
    Natives <- MCNatives
    Replies <- MCReplies
    Assessments <- MCAssessments
    Installed = {"a", "b", "e", "x", "r"}
    Managed = FALSE
    Corruptible = TRUE
    Calls <- MCCalls
    Cases <- MCCases
    Replayed <- MCReplayed
    Live <- MCLive
    EffectReplies <- MCEffectReplies
    Requests <- MCRequests
    Advices <- PolicyProcesses
    Tried <- MCTried
    Replays = {r1, r2}
    MaxCalls = 6
    MaxEntries = 1
INVARIANTS
    AtMostOneAuthority
    OneRole
    OnlyAllowGrants
    EnginesAgreeUntied
    TaintedEgressDenied
    EvidenceTruthful
    TestedIsUnderstood
CHECK_DEADLOCK FALSE
