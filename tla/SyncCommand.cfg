CONSTANTS
    Commands = {"insert", "query", "reset"}
    MaxId = 2
    MaxFaults = 2
SPECIFICATION FairSpec
INVARIANTS TypeOK NoCrossTalk MasterBeforeWrite
PROPERTIES SafeAck FalseAlarmHasCause CallReturns
