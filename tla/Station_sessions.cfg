\* One VI with a driver of its own and two that share one.
CONSTANTS
    magnet = magnet
    source = source
    meter = meter
    psu = psu
    bus = bus
    VIs <- MCVIs
    Drivers <- MCDrivers
    Uses <- MCUses
    MaxErrors = 2
    MaxUpsets = 2
    MaxEdits = 2
SPECIFICATION FairSpec
INVARIANTS FaultMatchesErrors SessionsFollowTheirVIs
PROPERTIES RunKeepsItsSessions RecoversAlone
