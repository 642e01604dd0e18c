SPECIFICATION Spec
CONSTANTS 
    None = None
    this = this
    that = that
    Windows = {this, that}
    LayoutNames = {this, that}
    MaxNamed = 1
    MaxRequests = 2
    MaxExpiries = 2
    MaxMishaps = 1
    MaxUndo = 2
    MaxCommands = 3
    Instructions = {"a", "b"}
    Approved = {"a"}
    ReceiptLimit = 2
    MaxToolCalls = 2
    MaxDefinition = 1
    Runners = {"r", "s"}
    RunnerCommands = {"a"}
    JobWatchers = {this}
    MaxSubs = 2
    MaxStops = 1
    MaxReleases = 3
    Chunks = 1
    MaxUpdateWindows = 1
    MaxUpdateClicks = 3
    MaxUpdateFailures = 0
    PolicyLimits = {1, 2}
    MaxPolicyEdits = 2
    MaxPolicySaves = 2
    MaxPolicyOthers = 1
    MaxPolicyUpsets = 1
    ManagedProjects = {this, that}
    SkillNames = {"s", "t"}
    MaxSkillTexts = 3
    MaxSkillActs = 2
    MaxSkillUpsets = 2
    ScheduleTexts = {1, 2}
    MaxScheduleActs = 2
    MaxScheduleTyped = 1
    MaxScheduleUpsets = 2
    BrowserTabs = {this, that}
    BrowserRetries = 0
    MaxBrowserActs = 1
    MaxBrowserForms = 1
    MaxBrowserUpsets = 1
    CloudAccounts = {this}
    CloudPlaces = {"p"}
    CloudProjects = {"x", "y"}
    MaxCloudTexts = 1
    MaxCloudActs = 3
    MaxCatalogs = 2
    MaxCloudUpsets = 1
    MaxCloudWorks = 0
    MaxCloudPolls = 0
    MaxFormEdits = 2
    MaxFormLoads = 2
    MaxFormSaves = 2
    MaxFormOthers = 1
    HookCommands = {that}
    HookProjects = 2
    HookPageSize = 2
    MaxHookWrites = 2
    MaxHookTroubles = 1
    PlaneRows = {this, that}
    MaxPlaneChanges = 1
    MaxPlaneReads = 2
    MaxPlaneFailures = 1
    MaxPlaneLocks = 1
    MaxComputerSockets = 2
    MaxComputerClicks = 2
    MaxComputerKeys = 1
    MaxComputerUpsets = 1
    ComputerBacklog = 1
INVARIANTS
    TypeOK
PROPERTIES
    WrittenOnce
    ReplacesWhatWasShown
    ShownBelongsTogether
    LayoutIsKept
CHECK_DEADLOCK FALSE
