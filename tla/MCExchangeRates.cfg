CONSTANTS
    Call = {c1, c2, c3}
    c1 = c1
    c2 = c2
    c3 = c3
    Currency = {"USD", "LBP", "XAU"}
    Mixes <- Asks
    Market <- Moving
    Defaults <- Constant
    Ttl = 2
    HeaderTimeout = 1
    RateUnit = 1000000
    MoneyUnit = 10000
    MaxClock = 4
SPECIFICATION FairSpec
INVARIANTS TypeOK ConvertedAccurately
PROPERTIES  AnsweredUnlessBodyStalls
CHECK_DEADLOCK FALSE
