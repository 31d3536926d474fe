SPECIFICATION FairSpec
CONSTANTS
    ann = ann
    bob = bob
    starterMonth = starterMonth
    creatorYear = creatorYear
    sticker = sticker
    None = None
    Users = {ann, bob}
    Configured <- MCConfigured
    OtherProducts = {sticker}
    OneOffs <- MCOneOffs
    Vintage <- MCVintage
    MaxCheckouts = 1
    MaxOrders = 3
    MaxWire = 1
    MaxFaults = 1
\* When everything is bought and credited there is nothing left to do.
CHECK_DEADLOCK FALSE
INVARIANT BoughtIsGranted
PROPERTY PaidIsCredited
