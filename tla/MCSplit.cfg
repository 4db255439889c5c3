SPECIFICATION SplitSpec
CONSTANTS
    Names = {"true", "undefined", "isInner"}
PROPERTIES OnlyTheNamed
CHECK_DEADLOCK FALSE
