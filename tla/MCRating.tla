------------------------------ MODULE MCRating ------------------------------
(* An instance of Rating: thirds of a period, two digits of precision,     *)
(* levels in halves, one price of each scheme, coupons of each kind.       *)
EXTENDS Rating

HalfLevels == {-1, 1, 3}

Price(scheme, price, count, tiers) ==
    [scheme |-> scheme, unitPrice |-> price, unitCount |-> count, tiers |-> tiers, product |-> "plan"]
Tier(from, to, rate, flat) == [from |-> from, to |-> to, rate |-> rate, flat |-> flat]

OnePriceEach ==
    {Price("fixed", 5, 3, <<>>), Price("package", 7, 2, <<>>),
     Price("graduated", 0, 0, <<Tier(0, 1, 10, 2), Tier(1, 0, 5, 1)>>),
     Price("volume", 0, 0, <<Tier(0, 2, 9, 1), Tier(2, 0, 4, 0)>>)}

OneFixedPrice == {[Price("fixed", 4, 0, <<>>) EXCEPT !.product = "extra"]}

Coupon(type, off, products, duration, cycles, same) ==
    [type |-> type, off |-> off, products |-> products, duration |-> duration,
     cycles |-> cycles, sameCurrency |-> same]

OneCouponEach ==
    {Coupon("percentage", 33, {}, "forever", 0, TRUE),
     Coupon("percentage", 50, {"plan"}, "repeating", 1, TRUE),
     Coupon("fixed", 5, {}, "once", 0, TRUE),
     Coupon("fixed", 20, {"extra"}, "forever", 0, TRUE),
     Coupon("fixed", 5, {}, "forever", 0, FALSE)}

=============================================================================
