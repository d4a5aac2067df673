SPECIFICATION ClientSpec
CONSTANTS
    Checkouts = {1, 2}
    Runs = {1, 2}
    MaxFailures = 2
    MaxReloads = 0
PROPERTIES
    NeverAsksTwice
CHECK_DEADLOCK FALSE
