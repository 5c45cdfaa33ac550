CONSTANTS
    BoardCallers = {"c1"}
    Days = 2
    MaxBoardCalls = 3
    MaxRestarts = 1
SPECIFICATION BoardSpec
INVARIANT MembersMatchTheTable
CHECK_DEADLOCK FALSE
