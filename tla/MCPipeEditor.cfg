CONSTANTS
    Uris = {u, v}
    Numbers <- MCNumbers
    Atoi <- MCAtoi
    Openings <- MCOpenings
    Additions <- MCAdditions
    MaxSegments = 3
    MaxUnsent = 2
    Hosts <- MCHosts
    Submissions <- MCSubmissions
    Samples <- MCSamples
    Columns <- MCColumns
    Completes <- MCCompletes
SPECIFICATION Spec
INVARIANTS FrontEndsAgree MeansWhatItSays SilenceMeansRuns GutterTruthful OffersRun ShapeJudged
CHECK_DEADLOCK FALSE
