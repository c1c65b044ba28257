SPECIFICATION ImagesSpec
CONSTANTS
    MaxVersionHistory = 2
    NoImage = NoImage
    OtherImage = OtherImage
    NoService = NoService
    Placeholder = Placeholder
    Runs = {r1, r2}
    Cleaners = {c1}
    Ids = {i1, i2}
    Limits = {1}
    MaxVersion = 2
INVARIANTS ServiceRunsTheDeployed
PROPERTIES CleanupSparesWhatIsUsed
SYMMETRY Interchangeable
