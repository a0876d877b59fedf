SPECIFICATION Spec
CONSTANTS
    MAX_ATTEMPTS = 2
    MaxSeq = 2
    CHUNK = 2
    LIMIT = 2
    TAIL = 1
    Modes = {"read_logs", "run_stream", "wait_for"}
    MaxFaults = 2
INVARIANTS TypeOK  
CHECK_DEADLOCK FALSE
