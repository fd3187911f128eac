------------------------------- MODULE Rating -------------------------------
(***************************************************************************)
(* The amounts of one invoice: the history of a carry-over meter read as   *)
(* a quantity, the quantity priced by the price's scheme, and the          *)
(* discounts split over the lines.  The steps of Next are the functions of *)
(* one BuildForBillingPeriod or BuildForOrder, in the order it calls them; *)
(* only the events before the read come from elsewhere.                    *)
(*                                                                         *)
(* Decimals are exact but for Div, which keeps 16 digits: a quotient is in *)
(* steps of 1/Digits, a reported level in steps of 1/Grain, and a quantity *)
(* in steps of 1/One, in which a level times a quotient is exact.  Amounts *)
(* of money are whole cents.                                               *)
(***************************************************************************)
EXTENDS Integers, Sequences, FiniteSets,
        SequencesExt, FiniteSetsExt, Functions

CONSTANTS
    Seats,       \* identities that are added to the meter's stock and removed
    From, To,    \* the billing period [From, To)
    Levels,      \* values of level reports, in steps of 1/Grain: any decimal is accepted
    Grain,       \* steps of a reported level per unit
    Digits,      \* steps of a quotient per unit
    Prices,      \* metered prices: PriceOK records
    FixedPrices, \* prices of the base lines
    Coupons,     \* coupons that the subscription's discounts refer to
    Cycle,       \* the subscription's cycle that is invoiced
    MaxEvents, MaxLines, MaxDiscounts   \* bounds

PriceOK(p) ==
    /\ p.scheme \in {"fixed", "package", "graduated", "volume"}
    /\ p.unitPrice \in Nat /\ p.unitCount \in Nat
    /\ p.tiers \in Seq([from : Nat, to : Nat, rate : Nat, flat : Nat])

CouponOK(c) ==
    /\ c.type \in {"percentage", "fixed"}
    /\ c.type = "percentage" => c.off \in 1 .. 100
    /\ c.type = "fixed" => c.off \in Nat \ {0}
    /\ c.duration \in {"once", "repeating", "forever"}
    /\ c.duration = "repeating" => c.cycles \in Nat \ {0}

ASSUME RatingAssumption ==
    /\ From \in Nat \ {0} /\ To \in Nat /\ From < To
    /\ Levels \subseteq Int /\ Grain \in Nat \ {0} /\ Digits \in Nat \ {0}
    /\ Cycle \in Nat
    /\ MaxEvents \in Nat /\ MaxLines \in Nat \ {0} /\ MaxDiscounts \in Nat
    /\ \A p \in Prices : PriceOK(p)
    /\ \A p \in FixedPrices : PriceOK(p) /\ p.scheme = "fixed"
    /\ \A c \in Coupons : CouponOK(c)

One == Digits * Grain   \* steps of a quantity per unit

VARIABLES
    phase,      \* what BuildForBillingPeriod does next
    log,        \* the meter's events, in the order the store returns equal times
    units,      \* the quantity of the usage line
    lines,      \* the invoice's lines: product, total, and discount once built
    discounts   \* the active discounts, in the order the rows come back

vars == <<phase, log, units, lines, discounts>>

----------------------------------------------------------------------------
(* The stock: add and remove events become intervals of identities. *)

Open == To + 1   \* the zero To of an interval that is still open

Events == [op : {"add", "remove"}, seat : Seats, at : 0 .. To - 1]
          \cup [op : {"report"}, level : Levels, at : 0 .. To - 1]

\* sort.SliceStable by a key: equal keys keep the order of the rows.
Position(key, i) == Cardinality({j \in DOMAIN key :
                        key[j] < key[i] \/ (key[j] = key[i] /\ j <= i)})
Placed(key, k) == CHOOSE i \in DOMAIN key : Position(key, i) = k
StableSort(s, key) == [k \in DOMAIN s |-> s[Placed(key, k)]]

SortedByTime(s) == StableSort(s, [i \in DOMAIN s |-> s[i].at])

HasOperations(s) == \E i \in DOMAIN s : s[i].op # "report"

NotOpen == -1    \* the start of an interval that is not open

Close(r, e) == [open |-> [r.open EXCEPT ![e.seat] = NotOpen],
                out  |-> Append(r.out, [seat |-> e.seat, from |-> r.open[e.seat], to |-> e.at])]

\* Mutant: a re-add restarts the interval that is open.
RestartsOnAdd(r, e) ==
    CASE e.op = "add" -> [r EXCEPT !.open[e.seat] = e.at]
      [] e.op = "remove" /\ r.open[e.seat] # NotOpen -> Close(r, e)
      [] OTHER -> r

\* One event of the replay: a second add and a remove of what is not open are
\* ignored, and so is a level report.
OpenOrClose(r, e) ==
    CASE e.op = "add" /\ r.open[e.seat] = NotOpen -> [r EXCEPT !.open[e.seat] = e.at]
      [] e.op = "remove" /\ r.open[e.seat] # NotOpen -> Close(r, e)
      [] OTHER -> r

ReconstructIntervals(s) ==
    LET r == FoldLeft(OpenOrClose, [open |-> [i \in Seats |-> NotOpen], out |-> <<>>], SortedByTime(s))
        standing == {i \in Seats : r.open[i] # NotOpen}
    IN  r.out \o SetToSeq({[seat |-> i, from |-> r.open[i], to |-> Open] : i \in standing})

Overlaps(iv) == iv.from < To /\ iv.to > From

CountStandingAtEnd(ivs) == Cardinality({k \in DOMAIN ivs : ivs[k].from < To /\ ivs[k].to >= To})

\* The sweep over the edges of the intervals, ends before starts of the same instant.
Sweep(r, e) == [depth |-> r.depth + e.delta, peak |-> Max({r.peak, r.depth + e.delta})]

CountPeakConcurrent(ivs) ==
    LET live  == {k \in DOMAIN ivs : Overlaps(ivs[k])}
        edges == SetToSeq({[at |-> Max({ivs[k].from, From}), delta |-> 1, of |-> k] : k \in live}
                          \cup {[at |-> Min({ivs[k].to, To}), delta |-> -1, of |-> k] : k \in live})
        order == [i \in DOMAIN edges |-> 3 * edges[i].at + edges[i].delta]
    IN  FoldLeft(Sweep, [depth |-> 0, peak |-> 0], StableSort(edges, order)).peak

CountDistinctActive(ivs) == Cardinality({ivs[k].seat : k \in {j \in DOMAIN ivs : Overlaps(ivs[j])}})

\* Div to the precision of a decimal, and Round(0): halves go away from zero.
DivRound(n, d) == IF n >= 0 THEN (2 * n + d) \div (2 * d) ELSE -((d - 2 * n) \div (2 * d))
CeilDiv(n, d)  == (n + d - 1) \div d

TimeFraction(d) == DivRound(d * Digits, To - From)

WeightIntervals(ivs, prorateOnIncrease, creditOnDecrease) ==
    LET active(k) == (IF creditOnDecrease THEN Min({ivs[k].to, To}) ELSE To)
                     - (IF prorateOnIncrease THEN Max({ivs[k].from, From}) ELSE From)
    IN  SumFunction([k \in {j \in DOMAIN ivs : Overlaps(ivs[j])} |->
                        IF active(k) > 0 THEN TimeFraction(active(k)) ELSE 0])

(* Level reports: the value reported last is the level from then on. *)

LastReportedLevel(s) == IF s = <<>> THEN 0 ELSE SortedByTime(s)[Len(s)].level

\* The peak starts at zero: levels below it do not count.
PeakReportedLevel(s) ==
    LET sorted   == SortedByTime(s)
        before   == {k \in DOMAIN s : sorted[k].at <= From}
        standing == IF before = {} THEN 0 ELSE sorted[Max(before)].level
    IN  Max({0, standing} \cup {sorted[k].level : k \in DOMAIN s \ before})

\* The level so far is in force up to the event.
Weigh(r, e) == IF e.at <= From THEN [r EXCEPT !.level = e.level]
               ELSE [total  |-> r.total + r.level * TimeFraction(e.at - r.cursor),
                     level  |-> e.level,
                     cursor |-> e.at]

WeightReportedLevels(s) ==
    LET end == FoldLeft(Weigh, [total |-> 0, level |-> 0, cursor |-> From], SortedByTime(s))
    IN  end.total + end.level * TimeFraction(To - end.cursor)

Aggregations == {"latest", "max", "unique_count", "weighted_sum"}

AggregateCarryOver(aggregation, prorate, credit) ==
    LET ivs == ReconstructIntervals(log)
    IN  IF HasOperations(log)
        THEN CASE aggregation = "latest"       -> One * CountStandingAtEnd(ivs)
               [] aggregation = "max"          -> One * CountPeakConcurrent(ivs)
               [] aggregation = "unique_count" -> One * CountDistinctActive(ivs)
               [] aggregation = "weighted_sum" -> Grain * WeightIntervals(ivs, prorate, credit)
        ELSE CASE aggregation = "latest"       -> Digits * LastReportedLevel(log)
               [] aggregation = "max"          -> Digits * PeakReportedLevel(log)
               [] aggregation = "unique_count" -> 0   \* level reports carry no identities
               [] aggregation = "weighted_sum" -> WeightReportedLevels(log)

\* The metric's RoundingMode, at scale 0.
ApplyRounding(mode, u) ==
    CASE mode = "ceil"  -> One * CeilDiv(u, One)
      [] mode = "floor" -> One * (u \div One)
      [] mode = "round" -> One * DivRound(u, One)
      [] OTHER          -> u

----------------------------------------------------------------------------
(* The price of a quantity, in cents, rounded once. *)

PriceFixed(p, u) ==
    IF p.unitCount > 1
    THEN DivRound(DivRound(p.unitPrice * u, Grain * p.unitCount), Digits)
    ELSE DivRound(p.unitPrice * u, One)

\* Every started block of unitCount units.
PricePackage(p, u) ==
    IF u <= 0 THEN 0
    ELSE CeilDiv(DivRound(u, Grain * Max({p.unitCount, 1})), Digits) * p.unitPrice

\* A tier's upper bound 0 is unbounded.
Reaches(t, u) == t.to = 0 \/ u <= t.to * One

\* Mutant: every tier that is used gets all the units.
AllUnits(t, u) == IF u > t.from * One THEN u ELSE 0

UnitsInTier(t, u) == (IF Reaches(t, u) THEN u ELSE t.to * One) - t.from * One

\* Tiers are visited in order until one is used that the quantity does not exceed.
TiersUsed(p, u) ==
    {k \in DOMAIN p.tiers :
        /\ UnitsInTier(p.tiers[k], u) > 0
        /\ \A j \in 1 .. k - 1 : UnitsInTier(p.tiers[j], u) > 0 => ~Reaches(p.tiers[j], u)}

PriceGraduated(p, u) ==
    DivRound(SumFunction([k \in TiersUsed(p, u) |->
                 UnitsInTier(p.tiers[k], u) * p.tiers[k].rate + One * p.tiers[k].flat]), One)

\* All units at the first tier whose bounds the total is within; 0 if there is none.
PriceVolume(p, u) ==
    LET within == {k \in DOMAIN p.tiers : p.tiers[k].from * One <= u /\ Reaches(p.tiers[k], u)}
    IN  IF within = {} THEN 0
        ELSE LET t == p.tiers[Min(within)] IN DivRound(u * t.rate, One) + t.flat

PriceUsage(p, u) ==
    CASE p.scheme = "volume"    -> PriceVolume(p, u)
      [] p.scheme = "graduated" -> PriceGraduated(p, u)
      [] p.scheme = "package"   -> PricePackage(p, u)
      [] p.scheme = "fixed"     -> PriceFixed(p, u)

----------------------------------------------------------------------------
(* Discounts: each one of the invoice's lines it applies to, in the order  *)
(* they were redeemed, off what the ones before left of the line.          *)

InWindow(d) ==
    LET c == d.coupon
    IN  CASE c.duration = "forever"   -> Cycle >= d.start
          [] c.duration = "once"      -> Cycle = d.start
          [] c.duration = "repeating" -> Cycle >= d.start /\ Cycle < d.start + c.cycles

Matched(c) == {i \in DOMAIN lines : c.products = {} \/ lines[i].product \in c.products}

\* Mutant: a fixed amount is not capped at what the lines cost.
Uncapped(c, base) ==
    CASE c.type = "percentage" -> DivRound(base * c.off, 100)
      [] c.type = "fixed"      -> c.off

\* What a coupon takes off the lines it matches, all in all.
RawDiscount(c, base) ==
    CASE c.type = "percentage" -> DivRound(base * c.off, 100)
      [] c.type = "fixed"      -> Min({c.off, base})

\* Go's integer division truncates towards zero.
Quotient(n, d) == IF n >= 0 THEN n \div d ELSE -((-n) \div d)

\* The largest remainders get the cents the integer shares leave over.
AllocateProportional(total, ids, net) ==
    LET sum          == SumFunctionOnSet(net, ids)
        share(i)     == Quotient(net[i] * total, sum)
        remainder(i) == net[i] * total - sum * share(i)
        leftover     == total - SumFunction([i \in ids |-> share(i)])
        rank(i)      == Cardinality({j \in ids : remainder(j) > remainder(i)
                                                 \/ (remainder(j) = remainder(i) /\ j < i)})
    IN  [i \in ids |-> share(i) + IF rank(i) < leftover THEN 1 ELSE 0]

\* One discount: what it takes off each line, given what the lines still cost.
Takes(d, net) ==
    LET ids  == Matched(d.coupon)
        base == SumFunctionOnSet(net, ids)
        raw  == RawDiscount(d.coupon, base)
    IN  IF InWindow(d) /\ (d.coupon.type = "fixed" => d.coupon.sameCurrency) /\ base > 0 /\ raw > 0
        THEN AllocateProportional(raw, ids, net)
        ELSE <<>>

TakeOff(net, d) == LET off == Takes(d, net)
                   IN  [i \in DOMAIN net |-> net[i] - IF i \in DOMAIN off THEN off[i] ELSE 0]

\* Mutant: in the order the rows come back.
AsListed(ds) == ds

ByRedeemedAt(ds) == StableSort(ds, [k \in DOMAIN ds |-> ds[k].redeemedAt])

\* What the lines cost after the given discounts.
NetAfter(ds) == FoldLeft(TakeOff, [i \in DOMAIN lines |-> lines[i].total], ds)

ApplyDiscounts(ds) ==
    LET net == NetAfter(ByRedeemedAt(ds))
    IN  [i \in DOMAIN lines |-> lines[i].total - net[i]]

----------------------------------------------------------------------------
Init == phase = "metering" /\ log = <<>> /\ units = 0 /\ lines = <<>> /\ discounts = <<>>

\* An event is recorded; clients send them late and out of order.
RecordEvent(e) ==
    /\ phase = "metering" /\ Len(log) < MaxEvents
    /\ log' = Append(log, e)
    /\ UNCHANGED <<phase, units, lines, discounts>>

\* MeteredUsageForSubscription: the history is read, and not looked at again.
ReadUsage(aggregation, prorate, credit, mode) ==
    /\ phase = "metering"
    /\ units' = ApplyRounding(mode, AggregateCarryOver(aggregation, prorate, credit))
    /\ log' = <<>>
    /\ phase' = "pricing"
    /\ UNCHANGED <<lines, discounts>>

Line(product, total) == [product |-> product, total |-> total, discount |-> 0]

\* UsageLineFromPrice: the metered item's line.
AddUsageLine(p) ==
    /\ phase = "pricing"
    /\ lines' = Append(lines, Line(p.product, PriceUsage(p, units)))
    /\ units' = 0
    /\ phase' = "building"
    /\ UNCHANGED <<log, discounts>>

\* BaseLineFromPrice: the line of another item of the subscription or order.
AddBaseLine(p, quantity) ==
    /\ phase = "building" /\ Len(lines) < MaxLines
    /\ lines' = Append(lines, Line(p.product, PriceFixed(p, quantity * One)))
    /\ UNCHANGED <<phase, log, units, discounts>>

\* applyDiscounts: the active discounts are read, and applied to the lines.
ApplyDiscountTotals(ds) ==
    /\ phase = "building"
    /\ discounts' = ds
    /\ lines' = LET off == ApplyDiscounts(ds)
                IN  [i \in DOMAIN lines |-> [lines[i] EXCEPT !.discount = off[i]]]
    /\ phase' = "built"
    /\ UNCHANGED <<log, units>>

\* No two discounts were redeemed at the same moment.
Redeemed(ds) == \A i, j \in DOMAIN ds : i # j => ds[i].redeemedAt # ds[j].redeemedAt
Discounts == [coupon : Coupons, start : 0 .. Cycle, redeemedAt : 1 .. MaxDiscounts]
ActiveDiscounts == {ds \in BoundedSeq(Discounts, MaxDiscounts) : Redeemed(ds)}

Next ==
    \/ \E e \in Events : RecordEvent(e)
    \/ \E aggregation \in Aggregations, prorate, credit \in BOOLEAN,
          mode \in {"none", "ceil", "floor", "round"} :
          ReadUsage(aggregation, prorate, credit, mode)
    \/ \E p \in Prices : AddUsageLine(p)
    \/ \E p \in FixedPrices, quantity \in 1 .. 2 : AddBaseLine(p, quantity)
    \/ \E ds \in ActiveDiscounts : ApplyDiscountTotals(ds)

Spec == Init /\ [][Next]_vars

----------------------------------------------------------------------------
(* The stock as it stands at an instant, told from the events alone: the   *)
(* last operation on the identity up to then was an add.                   *)

Later(j, i) == log[j].at > log[i].at \/ (log[j].at = log[i].at /\ j > i)

Stands(seat, t) ==
    \E i \in DOMAIN log :
        /\ log[i].op = "add" /\ log[i].seat = seat /\ log[i].at <= t
        /\ ~\E j \in DOMAIN log : /\ log[j].op = "remove" /\ log[j].seat = seat
                                  /\ log[j].at <= t /\ Later(j, i)

Standing(t) == {seat \in Seats : Stands(seat, t)}

\* The level in force at an instant: that of the last report up to then.
InForce(t) ==
    LET reports == {i \in DOMAIN log : log[i].at <= t}
    IN  IF reports = {} THEN 0
        ELSE log[CHOOSE i \in reports : \A j \in reports \ {i} : Later(i, j)].level

\* The stock in steps of 1/Grain.
StockAt(t) == IF HasOperations(log) THEN Grain * Cardinality(Standing(t)) ELSE InForce(t)

Instants == From .. To - 1

\* Of two reports of the same instant the peak counts the one that is overridden, too.
OneReportAtATime == \A i, j \in DOMAIN log : i # j => log[i].at # log[j].at

\* Identities that were there at the start, or added inside the period.
Touched == Standing(From)
           \cup {log[i].seat : i \in {k \in DOMAIN log : log[k].op = "add" /\ log[k].at > From}}

\* How far a sum of rounded fractions may be from the exact time, in 1/(To - From)
\* steps of One: Grain per identity's interval, one per step of each reported level.
Size(level) == IF level >= 0 THEN level ELSE -level
Highest  == Max({Grain} \cup {Size(log[i].level) : i \in {k \in DOMAIN log : log[k].op = "report"}})
Rounding == (To - From) * (Highest * Len(log))

----------------------------------------------------------------------------
\* Amounts fall below zero only where a level does.
Amounts   == IF Levels \subseteq Nat THEN Nat ELSE Int
NoCredits == \A i \in DOMAIN lines : lines[i].total >= 0

TypeOK ==
    /\ phase \in {"metering", "pricing", "building", "built"}
    /\ Len(log) <= MaxEvents /\ \A i \in DOMAIN log : log[i] \in Events
    /\ units \in Amounts
    /\ Len(lines) <= MaxLines
    /\ \A i \in DOMAIN lines : lines[i].total \in Amounts /\ lines[i].discount \in Amounts
    /\ NoCredits => \A i \in DOMAIN lines : lines[i].discount \in 0 .. lines[i].total
    /\ phase # "built" => discounts = <<>>

\* However late and in whatever order the events came, what carry-over meters
\* are billed for is the stock itself: what stands when the period closes, the most
\* that stood at once, the identities that were there, and the time they were.
\* stock-billing-architecture-impact.md:61-65: with both switches off every
\* identity bills a full period -- unless one was removed and added again.
ReadingsFollowTheStock ==
    phase = "metering" =>
        /\ AggregateCarryOver("latest", TRUE, TRUE) = Digits * StockAt(To - 1)
        /\ HasOperations(log) \/ OneReportAtATime =>
              AggregateCarryOver("max", TRUE, TRUE)
                = Digits * Max({0} \cup {StockAt(t) : t \in Instants})
        /\ HasOperations(log) =>
              AggregateCarryOver("unique_count", TRUE, TRUE) = One * Cardinality(Touched)
        /\ LET exact == Digits * SumFunction([t \in Instants |-> StockAt(t)])
               billed == (To - From) * AggregateCarryOver("weighted_sum", TRUE, TRUE)
           IN  billed - exact \in -Rounding .. Rounding
        /\ LET ivs == ReconstructIntervals(log)
               once == \A j, k \in DOMAIN ivs : j # k => ivs[j].seat # ivs[k].seat
           IN  once => WeightIntervals(ivs, FALSE, FALSE) = Digits * CountDistinctActive(ivs)

\* Each slice of a unit is charged at the rate of the tier it falls into, and each
\* tier that is reached its flat amount, for schedules without gaps and overlaps.
Contiguous(p) ==
    /\ p.tiers # <<>> /\ p.tiers[1].from = 0 /\ p.tiers[Len(p.tiers)].to = 0
    /\ \A k \in 1 .. Len(p.tiers) - 1 :
          p.tiers[k].from < p.tiers[k].to /\ p.tiers[k].to = p.tiers[k + 1].from

GraduatedChargesEachUnit ==
    phase = "pricing" =>
        \A p \in Prices : p.scheme = "graduated" /\ Contiguous(p) =>
            LET falls(s, t) == t.from * One <= s /\ (t.to = 0 \/ s < t.to * One)
                slices(k) == Cardinality({s \in 0 .. units - 1 : falls(s, p.tiers[k])})
                reached   == {k \in DOMAIN p.tiers : slices(k) > 0}
                charge(k) == slices(k) * p.tiers[k].rate + One * p.tiers[k].flat
            IN  PriceUsage(p, units) = DivRound(SumFunction([k \in reached |-> charge(k)]), One)

\* Whatever order the rows come back in, the discounts are taken in the order of
\* their redemption; each takes exactly its amount, of each of its lines the line's
\* share to within a cent, and none drives a line below zero: of an invoice without
\* credit lines, among which the truncated shares need not add up.
DiscountsAreExact ==
    phase = "built" /\ NoCredits =>
        LET n     == Len(discounts)
            inOrder == [k \in 1 .. n |-> discounts[CHOOSE i \in 1 .. n :
                           Cardinality({j \in 1 .. n : discounts[j].redeemedAt
                                                         <= discounts[i].redeemedAt}) = k]]
            net(k) == NetAfter(SubSeq(inOrder, 1, k))
            due(d, base) == IF d.coupon.type = "fixed"
                            THEN IF d.coupon.off < base THEN d.coupon.off ELSE base
                            ELSE DivRound(base * d.coupon.off, 100)
        IN  /\ \A i \in DOMAIN lines : lines[i].total - lines[i].discount = net(n)[i]
            /\ \A k \in 1 .. n :
                  LET d == inOrder[k]
                      before == net(k - 1)
                      off  == [i \in DOMAIN lines |-> before[i] - net(k)[i]]
                      base == SumFunctionOnSet(before, Matched(d.coupon))
                      applies == InWindow(d) /\ (d.coupon.type = "fixed" => d.coupon.sameCurrency)
                      raw == IF applies THEN due(d, base) ELSE 0
                  IN  /\ SumFunction(off) = raw
                      /\ \A i \in DOMAIN lines :
                            /\ 0 <= off[i] /\ off[i] <= before[i]
                            /\ i \notin Matched(d.coupon) => off[i] = 0
                            /\ i \in Matched(d.coupon) /\ base > 0 =>
                                  off[i] * base - raw * before[i] \in 1 - base .. base - 1

=============================================================================
