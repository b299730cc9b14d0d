CONSTANTS
    MaxStreamID = 3
    First = 1
    Ping <- MCPing
    PingData <- MCPingData
    Loads <- MCLoads
SPECIFICATION FairSpec
INVARIANTS NoWorkForgotten FlagsMatchQueues AnswersConserved OwnIDs
PROPERTIES QueuesAreFIFO PingsComplete NoStarvation FailureClosesAll
CHECK_DEADLOCK FALSE
