SPECIFICATION Spec
CONSTANTS
    Record <- MCRecord
    GoldTables <- MCGoldTables
    Absent = Absent
    Retries = 1
    MaxRecords = 2
    MaxRestarts = 2
    MaxRuns = 2
INVARIANTS
    BronzeMissesNothing
    EventsAreServedOnce
    ServedIsOneSnapshot
    SilverAccountsForBronze
CHECK_DEADLOCK FALSE
