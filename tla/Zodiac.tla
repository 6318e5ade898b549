------------------------------- MODULE Zodiac -------------------------------
(***************************************************************************)
(* The geometry under every chart and every forecast.                      *)
(* app/astrology: engine.py, transit_forecast.py, transits.py;             *)
(* app/report: solar.py, relocation.py; the houses of claim_validation.py. *)
(*                                                                         *)
(* Longitudes are numbers modulo Circle.  The ephemeris is outside: a body *)
(* moves by at most Pace a day, in either direction, and the Sun by one    *)
(* unit a day, so that a year has Circle days.                             *)
(***************************************************************************)
EXTENDS Integers, Sequences, FiniteSets, FiniteSetsExt

CONSTANTS
    Circle,           \* 360 degrees
    Angles, Orb(_),   \* the aspects, and how far from each still counts
    CuspLists,        \* the lists of house cusps swe.houses can return
    Targets,          \* natal longitudes
    Pace,
    Gate,             \* DETECT_ORB
    LastSample,       \* bound: the days of a forecast
    Group,            \* RETRO_GROUP_DAYS, in half days
    Back, Steps       \* the search for a solar return: from Back days before, Steps times two days

ASSUME ZodiacAssumption ==
    /\ Circle \in Nat \ {0} /\ (Circle % 12) = 0
    /\ Angles \subseteq 0 .. Circle \div 2 /\ Targets \subseteq 0 .. Circle - 1
    /\ {Pace, Gate, LastSample, Back, Steps} \subseteq Nat
    /\ Pace < 2 * Gate /\ Pace + Gate <= Circle \div 2 /\ Pace <= Circle \div 12
    /\ Back <= Circle /\ Back <= 2 * Steps
    /\ \A a, b \in Angles : a < b => a + Orb(a) + Pace < b - Orb(b)

VARIABLES
    cusps, target,    \* of a natal chart
    path,             \* the daily positions of a transiting body, turns of the circle counted
    exacts,           \* forecast: exacts[a], the half days at which aspect a was exact
    active, starts    \* upcoming_transits: whether an event is open, and the days events began

zodiacVars == <<cusps, target, path, exacts, active, starts>>

Half == Circle \div 2
Longitudes == 0 .. Circle - 1
Distance(x, y) == IF x < y THEN y - x ELSE x - y
Seen == Len(path) - 1

ZodiacTypeOK ==
    /\ cusps \in CuspLists /\ target \in Targets
    /\ \A i \in DOMAIN path : path[i] \in Int
    /\ exacts \in [Angles -> SUBSET (0 .. 2 * LastSample)]
    /\ active \in BOOLEAN /\ starts \subseteq 0 .. LastSample

\* _angular_diff
Apart(x, y) ==
    LET d == (x - y) % Circle
    IN  IF d > Half THEN Circle - d ELSE d

\* The aspects that a distance makes: at most one, for the orbs of the code.
AspectOf(d) == {a \in Angles : Distance(d, a) <= Orb(a)}

-----------------------------------------------------------------------------
(* Houses.                                                                 *)

\* _between
Between(x, c1, c2) == IF c2 > c1 THEN c1 <= x /\ x < c2 ELSE x >= c1 \/ x < c2

After(cs, i) == cs[(i % Len(cs)) + 1]

\* From each cusp the next one of the list is the nearest ahead.
ASSUME CuspsInOrder ==
    \A cs \in CuspLists :
       /\ cs \in Seq(Longitudes) /\ Len(cs) > 1
       /\ \A i, j \in DOMAIN cs : i # j =>
             /\ cs[i] # cs[j]
             /\ ((After(cs, i) - cs[i]) % Circle) <= ((cs[j] - cs[i]) % Circle)

\* The first house that holds x, or the given one.
FirstHouse(x, cs, Holds(_, _, _), otherwise) ==
    LET hs == {i \in DOMAIN cs : Holds(x, cs[i], After(cs, i))}
    IN  IF hs = {} THEN otherwise ELSE Min(hs)

\* _house_of of the engine
HouseOf(x, cs) == FirstHouse(x, cs, Between, Len(cs))

\* _house_of_longitude, for the cusps of another place
Rehoused(x, cs) == FirstHouse(x, cs, Between, 1)

\* house_of of the claims: an empty house holds nothing; else whole signs from the ascendant
HeldIn(x, c1, c2) == IF c2 < c1 THEN x >= c1 \/ x < c2 ELSE c1 <= x /\ x < c2
ClaimedHouse(x, cs) ==
    FirstHouse(x, cs, HeldIn, (((x - cs[1]) % Circle) \div (Circle \div Len(cs))) + 1)

\* relocation_chart: what changes its house when the cusps change
Moved(xs, old, new) == {x \in xs : Rehoused(x, new) # HouseOf(x, old)}

-----------------------------------------------------------------------------
(* The Moon of a birth without a time.                                     *)

SignOf(x) == (x % Circle) \div (Circle \div 12)

\* compute_chart probes the sign at noon and at both ends of the day.
MoonSigns(x, first, last) == {SignOf(first), SignOf(x), SignOf(last)}

-----------------------------------------------------------------------------
(* The solar return.                                                       *)

\* _angular_gap
Gap(x, y) == LET d == (x - y) % Circle IN IF d > Half THEN d - Circle ELSE d

Sun(t) == t % Circle

\* find_solar_return: the end of the first two days in which the gap changes its sign,
\* refined by bisection; or the end of the search.
FindReturn(natal, guess) ==
    LET at(k) == guess - Back + 2 * k
        gap(k) == Gap(Sun(at(k)), natal)
        found == {k \in 1 .. Steps : gap(k - 1) < 0 /\ gap(k) >= 0}
    IN  IF found = {} THEN at(Steps) ELSE at(Min(found)) - gap(Min(found))

\* solar_return_for: the later of the two that is not in the future.
ActiveReturn(natal, now) ==
    Max({t \in {FindReturn(natal, now - Circle), FindReturn(natal, now)} : t <= now})

-----------------------------------------------------------------------------
(* The scans.                                                              *)

\* _norm180
Norm180(x) == ((x + Half) % Circle) - Half

\* A fault: "a spurious sign flip at the point diametrically opposite"
SignChange(x, y, a) ==
    LET g == Norm180(x - target - a)
        h == Norm180(y - target - a)
    IN  g * h < 0

\* forecast: the sign changes between two samples, near the aspect
CrossedBetween(x, y, a) ==
    LET g == Norm180(x - target - a)
        h == Norm180(y - target - a)
    IN  g * h < 0 /\ Min({Distance(g, 0), Distance(h, 0)}) < Gate

\* A sample that is exact counts for the day it begins: the last one is no such day.
ExactAt(x, a) == Norm180(x - target - a) = 0

InOrb(x) == AspectOf(Apart(x, target)) # {}

\* forecast and upcoming_transits look at the next day.
Sample(v) ==
    /\ Seen < LastSample
    /\ LET x == path[Len(path)]
           y == x + v
       IN  /\ path' = Append(path, y)
           /\ exacts' = [a \in Angles |-> exacts[a]
                           \union (IF ExactAt(x, a) THEN {2 * Seen} ELSE {})
                           \union (IF CrossedBetween(x, y, a) THEN {2 * Seen + 1} ELSE {})]
           /\ active' = InOrb(y)
           /\ starts' = IF InOrb(y) /\ ~active THEN starts \union {Seen + 1} ELSE starts
    /\ UNCHANGED <<cusps, target>>

ZodiacInit ==
    /\ cusps \in CuspLists /\ target \in Targets
    /\ path \in {<<x>> : x \in Longitudes}
    /\ exacts = [a \in Angles |-> {}]
    /\ active = InOrb(path[1])
    /\ starts = IF active THEN {0} ELSE {}

ZodiacNext == \E v \in -Pace .. Pace : Sample(v)

ZodiacSpec == ZodiacInit /\ [][ZodiacNext]_zodiacVars

\* The exact moments of one aspect that lie within Group of each other are one event: a
\* retrograde loop, of which three are shown.
Loop(a, t) ==
    {u \in exacts[a] : \A w \in exacts[a] : (w > Min({t, u}) /\ w <= Max({t, u})) =>
        \E z \in exacts[a] : z < w /\ w - z <= Group}
ShownDates(a, t) ==
    {u \in Loop(a, t) : Cardinality({w \in Loop(a, t) : w < u}) < 3}

-----------------------------------------------------------------------------
(* Correctness.                                                            *)

\* Every longitude is in the house whose arc holds it, the claims of a text are held
\* against the same house, and who stays where he is moves nothing.
HousesPartition ==
    \A x \in Longitudes :
       LET i == HouseOf(x, cusps)
       IN  /\ (x - cusps[i]) % Circle < (After(cusps, i) - cusps[i]) % Circle
           /\ i = ClaimedHouse(x, cusps)
           /\ x \notin Moved(Longitudes, cusps, cusps)

\* The body passes aspect a ahead of the target, seen without turning the circle.
PassesAt(x, y, a) ==
    \E e \in Min({x, y}) + 1 .. Max({x, y}) - 1 : (e - target - a) % Circle = 0

\* The forecast dates every such passage, once, and nothing else.
CrossingsDated ==
    \A a \in Angles : \A d \in 0 .. Seen - 1 :
       /\ 2 * d \in exacts[a] <=> (path[d + 1] - target - a) % Circle = 0
       /\ 2 * d + 1 \in exacts[a] <=> PassesAt(path[d + 1], path[d + 2], a)

\* A passage is left out of the dates of its loop only behind three others.
LoopsShown ==
    \A a \in Angles : \A t \in exacts[a] :
       t \in ShownDates(a, t) \/ Cardinality({u \in Loop(a, t) : u < t}) >= 3

\* One upcoming event for each stay within the orb of an aspect.
StaysReported ==
    starts = {d \in 0 .. Seen : InOrb(path[d + 1]) /\ (d = 0 \/ ~InOrb(path[d]))}

\* The Moon of a day is in one of the signs named.
MoonCovered ==
    \A d \in 0 .. Seen - 1 : \A x \in path[d + 1] .. path[d + 2] :
       SignOf(x) \in MoonSigns(path[d + 1], path[d + 1], path[d + 2])

\* The solar year of a chart begins at the last return, where the birthday is at most Back
\* days ago or within the time searched ahead.
SolarYearFound ==
    \A now \in Longitudes :
       LET ago == (Sun(now) - target) % Circle
       IN  ago < Back \/ Circle - ago <= 2 * Steps - Back => ActiveReturn(target, now) = now - ago

\* What a chart and its forecasts say is what the sky does, wherever the circle begins.
SkyReadRight ==
    /\ Seen = 0 => HousesPartition /\ SolarYearFound
    /\ CrossingsDated /\ LoopsShown /\ StaysReported /\ MoonCovered
=============================================================================
