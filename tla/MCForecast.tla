----------------------------- MODULE MCForecast ----------------------------
(* Small instances of the paid transit analysis for TLC.                    *)
EXTENDS Forecast, TLC

CONSTANTS u1, aug, sep, year, pack, chart, golden, p3m, p12m

\* The 3-month analysis of one chart, bought in two consecutive months, and the
\* 12-month analysis of the same chart; one credit pack.
MCOwner == aug :> u1 @@ sep :> u1 @@ year :> u1 @@ pack :> u1
MCAmount == aug :> 2 @@ sep :> 2 @@ year :> 3 @@ pack :> 3
MCProductOf == aug :> p3m @@ sep :> p3m @@ year :> p12m
MCChartOf == p3m :> chart @@ p12m :> chart
NoGold == chart :> 0

\* The 12-month analysis is of another chart, one with a gold bundle.
TwoCharts == p3m :> chart @@ p12m :> golden
GoldOfOne == chart :> 0 @@ golden :> 1
=============================================================================
