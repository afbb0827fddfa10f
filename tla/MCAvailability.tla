--------------------------- MODULE MCAvailability ---------------------------
(***************************************************************************)
(* Instances of Availability for TLC: a morning on a quarter-hour raster.  *)
(***************************************************************************)
EXTENDS Availability, TLC

CONSTANTS r1, a, b

\* 06:00 to 08:00 in quarter hours.
Morning == {360 + 15 * i : i \in 0 .. 8}

\* Opening hours that end on the grid, and in the middle of a slot.
MorningHours == {[open |-> 360, close |-> 480], [open |-> 360, close |-> 465]}

OneRule(ty, s, e, p) == [type |-> ty, start |-> s, end |-> e, price |-> p]

\* Two weekday prices, an odd one first, and overlapping holiday prices.
Prices == << OneRule("weekday", 360, 435, 101), OneRule("holiday", 360, 480, 90),
             OneRule("holiday", 390, 450, 70), OneRule("weekday", 435, 480, 140) >>
PriceLists == {Prices}

TwoDays == {[type |-> "weekday", mult |-> 100], [type |-> "holiday", mult |-> 125]}

From(s, n) == [start |-> s, end |-> s + n]

\* Ranges on and off the grid, one that is too short, and a group of two.
Requests == {<<From(360, 60)>>, <<From(390, 90)>>, <<From(375, 60)>>, <<From(360, 30)>>,
             <<From(360, 60), From(420, 60)>>}

OneClosure == {[start |-> 420, end |-> 450]}

BookingSymmetry == Permutations(Booking)
=============================================================================
