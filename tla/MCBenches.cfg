SPECIFICATION BenchSpec
CONSTANTS
    Combos <- MCCombos
    NoOracle = {"INVERTED"}
    Queries = {q1}
    MaxRuns = 2
    L2Workloads <- MCL2Workloads
    L2Formats <- MCL2Formats
    L2RunIds = {"r1"}
    L2Sizes = {1, 2}
    BlobCap = 1
    POINT_TAKE_N = 1
    BLOB_TAKE_N = 1
    L2MaxTasks = 2
    L2MaxWrites = 2
    L2MaxReads = 1
    OVariants <- MCOVariants
    OWorkloads <- MCOWorkloads
    OVideos = 2
    OFrames = 1
    OCounts = {0, 1}
    OMaxRuns = 1
    Columns <- MCColumns
    Targets <- MCTargets
    RSizes <- MCRSizes
    plan <- MCPlan
    POINT_QUERY_N = 2
    RANGE_SIZE = 3
    RBounds <- MCRBounds
    ISizes = {2, 3}
    ILanceBatch = 2
    IPartBatch = 2
    ILabels = 2
    ILoadBatch = 2
    IWorkers = 2
    IPrefetch = 1
    IEpochs = 2
    IBounds <- MCIBounds
CHECK_DEADLOCK FALSE
INVARIANTS BenchTypeOK OkMeansReadable MeasuredAsVerified OkMeansAgreement AlarmMeansDifference CalibrationIsHonest PlanStaysTrue ReportIsRelativeToA EpochSeesEachImageOnce PassMeansSurvived NoFalseAlarm OutputIsPrefix CrashLosesOne
