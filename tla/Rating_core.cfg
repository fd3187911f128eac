SPECIFICATION Spec
CHECK_DEADLOCK FALSE
CONSTANTS
    Seats = {"a", "b"}
    From = 1
    To = 4
    Levels <- HalfLevels
    Grain = 2
    Digits = 100
    Prices <- OnePriceEach
    FixedPrices <- OneFixedPrice
    Coupons <- OneCouponEach
    Cycle = 1
    MaxEvents = 3
    MaxLines = 3
    MaxDiscounts = 2
INVARIANTS
    TypeOK
    ReadingsFollowTheStock
    GraduatedChargesEachUnit
    DiscountsAreExact
