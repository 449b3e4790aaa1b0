\* Every order of up to four fills.
SPECIFICATION Spec
CONSTANTS
    Kind <- MCKind
    MaxFills = 4
INVARIANTS RulesExclusive SpreadsAreBalanced FillsDoNotMatter
CHECK_DEADLOCK FALSE
