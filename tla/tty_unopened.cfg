\* A tape path that could not be opened.
SPECIFICATION Spec
CONSTANTS
    Backing = "closed"
    Bytes = {65, 255}
    Controls = {0, 1, 2, 3}
    MaxTape = 3
    MaxSerial = 2
PROPERTY FailedWriteReported
