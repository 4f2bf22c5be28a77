SPECIFICATION FairSpec
CONSTANT Inputs <- MCInputs
INVARIANT ContainedGrouped
CHECK_DEADLOCK FALSE
