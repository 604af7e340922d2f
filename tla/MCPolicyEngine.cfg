SPECIFICATION Spec
CONSTANTS
    Ids = {1, 2, 3}
    Priorities = {0, 1}
    Severities = {"low", "critical"}
INVARIANT StrictestActionWins
PROPERTY AddingARuleNeverWeakens
CHECK_DEADLOCK FALSE
