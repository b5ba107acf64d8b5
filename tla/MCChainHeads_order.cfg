SPECIFICATION FairSpec
CONSTANT MaxHeads = 2
CHECK_DEADLOCK FALSE
PROPERTY HeadsMoveForward
