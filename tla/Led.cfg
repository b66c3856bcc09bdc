CONSTANTS
    None = None
    ppp = ppp
    wan = wan
    adsl = adsl
    p1 = p1
    p2 = p2
    Names = {ppp, wan, adsl}
    Pins = {p1, p2}
    LedMaps <- Maps
    HwNames <- Handlers
SPECIFICATION LedFairSpec
INVARIANTS BlinkersHaveTimer SettledShowsState NamesReachTheirPins OneColour
PROPERTY KeepsBlinking
