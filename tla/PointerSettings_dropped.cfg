\* One sensitivity of three levels; the file keeps them all.
SPECIFICATION SettingsSpec
CONSTANTS
    Device = {"mouse"}
    Mouse = "mouse"
    Lowest = 2
    Highest = 4
    Default = 3
    Grain = 1
    Debounce = 2
PROPERTIES TuningCommitted
