SPECIFICATION FairSpec
CONSTANTS
    Topics <- TheTopics
    Granted <- TheGranted
    MaxEvents <- TheEvents
    Ring = 1
    Capacity = 2
INVARIANTS NoGapAfterAck
PROPERTIES ChangedIsRevoked TornDown
\* A stream whose tasks are done and whose client has gone is at rest.
CHECK_DEADLOCK FALSE
