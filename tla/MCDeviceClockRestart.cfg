\* The promise of tickReceive across restarts of the app.
CONSTANTS
    Device <- MCDevice
    Readings <- MCReadings
    MaxEvents = 2
    MaxCounter = 3
SPECIFICATION Spec
PROPERTY CausalAlways
