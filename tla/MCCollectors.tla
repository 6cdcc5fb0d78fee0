---------------------------- MODULE MCCollectors ----------------------------
(***************************************************************************)
(* The three collecting jobs on one small provider each.  They share no    *)
(* table, lock or client state, so a behaviour is one job with its         *)
(* provider: running them side by side would only multiply the states.     *)
(***************************************************************************)
EXTENDS FingridCollection, WeatherCollection, PriceCollection, TLC

MCPoints == <<"helsinki", "vaasa">>

\* The areas are interchangeable.
Symmetry == Permutations(Areas)

VARIABLE collector   \* the job that this behaviour runs

Init ==
    /\ collector \in {"fingrid", "weather", "prices"}
    /\ FingridInit /\ WeatherInit /\ PriceInit
    /\ collector # "prices" => resolution = CHOOSE r \in Resolutions : TRUE

Next ==
    /\ \/ /\ collector = "fingrid"
          /\ FingridNext
          /\ UNCHANGED <<weatherVars, priceVars>>
       \/ /\ collector = "weather"
          /\ WeatherNext
          /\ UNCHANGED <<fingridVars, priceVars>>
       \/ /\ collector = "prices"
          /\ PriceNext
          /\ UNCHANGED <<fingridVars, weatherVars>>
    /\ UNCHANGED collector

Spec == Init /\ [][Next]_<<collector, fingridVars, weatherVars, priceVars>>

-----------------------------------------------------------------------------

\* No waiting for a provider makes a job miss its deadline: the limits of
\* scheduler.rs leave room for every attempt, delay and spacing of the jobs.
UpstreamFitsTheDeadlines ==
    FingridFitsItsDeadline /\ WeatherFitsItsDeadline /\ PriceFitsItsDeadline

\* What was archived as issued at some hour is never rewritten and leaves
\* only by age: the vintages of Fingrid and the hourly weather rows.
IssuancesNeverChange ==
    [][VintagesKept /\ IssuedForecastKept]_<<fingridVars, weatherVars>>

=============================================================================
