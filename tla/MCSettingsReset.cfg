SPECIFICATION FairSpec
CONSTANTS
    Ids = {1, 2, 3, 4, 5}
    Intervals = {0, 60}
    ServerDefault = 60
    DeviceDefault = 0
    Absent = Absent
    MaxPuts = 1
    MaxExpiries = 0
    MaxResets = 1
    MaxPresses = 0
PROPERTY AudioConverges
