CONSTANTS
    snap = snap
    Candidates = {c1}
    SnapshotOf <- MCSnapshotOf
    Configs <- MCConfigs
    Evaluators = {e1, e2}
    Actors = {validator, agent}
    Validator = validator
    None = None
SPECIFICATION GateSpec
PROPERTIES
    ImplementsOneShot
CHECK_DEADLOCK FALSE
