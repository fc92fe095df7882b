\* A tape file that opened; the deck, the port and the host interleaved.
SPECIFICATION Spec
CONSTANTS
    Backing = "open"
    Bytes = {65, 255}
    Controls = {0, 1, 2, 3}
    MaxTape = 3
    MaxSerial = 2
INVARIANTS
    TypeOK
    NoByteLostOrRepeated
    HeadOnTape
    EotMeansAtEnd
PROPERTIES
    DataAccessReports
    FailedWriteReported
    StoppedTapeStandsStill
