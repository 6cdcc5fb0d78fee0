-------------------------------- MODULE Bands --------------------------------
(* The prediction bands of the forecast: conformal.rs of the domain crate,  *)
(* and derive_bands_from_backtest of the tools. A backtest collects what    *)
(* its forecasts missed by, an artifact is built from that, and the service *)
(* puts a band around each point that it predicts.                          *)
(*                                                                          *)
(* All arithmetic is in the space that the model fits in, where an offset   *)
(* is added to a point; a residual is the actual minus the predicted value. *)
(* The rounding of the bounds to 0.001 c/kWh, and of a percentile's rank in *)
(* floating point, is left out.                                             *)
EXTENDS Integers, FiniteSets, FiniteSetsExt

CONSTANTS
    UtcHours, Errors,       \* the hours, and the values of a residual
    NominalPercent,         \* NOMINAL_COVERAGE
    GatePercent,            \* COVERAGE_GATE_THRESHOLD
    MinHourSamples,         \* MIN_HOUR_CALIBRATION_SAMPLES
    MinTotalSamples,        \* MIN_TOTAL_CALIBRATION_SAMPLES
    MinWindowDays,          \* MIN_CALIBRATION_WINDOW_DAYS
    MaxResiduals, MaxDays   \* bounds

ASSUME BandsAssumption ==
    /\ IsFiniteSet(Errors) /\ Errors \subseteq Int
    /\ NominalPercent \in 0..100 /\ GatePercent \in Nat
    /\ {MinTotalSamples, MinWindowDays} \subseteq Nat \ {0}

VARIABLES
    residuals,      \* by how much each scored quarter was missed: [hour, error, nth]
    origin,         \* the day of the origin that is scored
    scoredDays,     \* scored_origins_ms
    artifact        \* the artifact of the service, {} before there is one

bandVars == <<residuals, origin, scoredDays, artifact>>

Uncalibrated == [calibrated |-> FALSE, byHour |-> [h \in UtcHours |-> {}], global |-> {}]

Lies(error, low, high) == low <= error /\ error <= high
OfHours(hours) == {r \in residuals : r.hour \in hours}

(* nearest_rank_percentile: the smallest error that `percent` of the        *)
(* samples do not exceed; at least the first one.                           *)
NearestRank(samples, percent) ==
    LET rank == Max({1, (percent * Cardinality(samples) + 99) \div 100})
        upTo(e) == Cardinality({r \in samples : r.error <= e})
    IN  Min({e \in Errors : upTo(e) >= rank})

(* offsets_from_residuals: the two percentiles, and never past the point. *)
OffsetsFromResiduals(samples) ==
    IF samples = {} THEN {}
    ELSE {[low |-> Min({0, NearestRank(samples, (100 - NominalPercent) \div 2)}),
           high |-> Max({0, NearestRank(samples, (100 + NominalPercent) \div 2)})]}

(* derive_band_offsets: a thin hour has no offsets of its own. *)
DeriveBandOffsets ==
    [byHour |-> [h \in UtcHours |-> IF Cardinality(OfHours({h})) < MinHourSamples THEN {}
                                    ELSE OffsetsFromResiduals(OfHours({h}))],
     global |-> OffsetsFromResiduals(residuals)]

OffsetsForHour(h, bands) == IF bands.byHour[h] # {} THEN bands.byHour[h] ELSE bands.global

(* observed_coverage_of: how many residuals have offsets for their hour,    *)
(* and how many of those lie between them.                                  *)
ObservedCoverage(bands) ==
    [covered |-> Cardinality({r \in residuals :
                    \E o \in OffsetsForHour(r.hour, bands) : Lies(r.error, o.low, o.high)}),
     scored |-> Cardinality({r \in residuals : OffsetsForHour(r.hour, bands) # {}})]

(* build_artifact *)
BuildArtifact ==
    LET derived == DeriveBandOffsets
        coverage == ObservedCoverage(derived)
    IN  IF Cardinality(residuals) < MinTotalSamples
           \/ 100 * coverage.covered < GatePercent * coverage.scored
          THEN Uncalibrated
          ELSE [calibrated |-> TRUE, byHour |-> derived.byHour, global |-> derived.global]

(* Mutant: an hour without offsets of its own has no band. *)
ApplyBandOfHour(point, h, bands) ==
    IF ~bands.calibrated THEN {}
    ELSE {[low |-> point + o.low, high |-> point + o.high] : o \in bands.byHour[h]}

(* apply_band *)
ApplyBand(point, h, bands) ==
    IF ~bands.calibrated THEN {}
    ELSE {[low |-> Min({point, point + o.low}), high |-> Max({point, point + o.high})] :
            o \in OffsetsForHour(h, bands)}

-----------------------------------------------------------------------------

BandsInit ==
    /\ residuals = {}
    /\ origin = 0
    /\ scoredDays = {}
    /\ artifact = {}

(* score_origin adds a residual for each quarter that has a realised price, *)
(* and counts the origin once it has one.                                   *)
ScoreQuarter(h, e) ==
    /\ artifact = {}
    /\ Cardinality(residuals) < MaxResiduals
    /\ LET before == {r \in residuals : r.hour = h /\ r.error = e} IN
         residuals' = residuals \union {[hour |-> h, error |-> e, nth |-> Cardinality(before)]}
    /\ scoredDays' = scoredDays \union {origin}
    /\ UNCHANGED <<origin, artifact>>

(* The next origin is that of the next day. *)
NextOrigin ==
    /\ artifact = {}
    /\ origin < MaxDays
    /\ origin' = origin + 1
    /\ UNCHANGED <<residuals, scoredDays, artifact>>

(* scored_window_span_days *)
WindowSpan == IF scoredDays = {} THEN 0 ELSE Max(scoredDays) - Min(scoredDays)

(* derive_bands_from_backtest: after the last origin; a short window stays  *)
(* dark.                                                                    *)
DeriveBands ==
    /\ artifact = {}
    /\ artifact' = {IF WindowSpan < MinWindowDays THEN Uncalibrated ELSE BuildArtifact}
    /\ UNCHANGED <<residuals, origin, scoredDays>>

BandsNext ==
    \/ \E h \in UtcHours, e \in Errors : ScoreQuarter(h, e)
    \/ NextOrigin \/ DeriveBands

-----------------------------------------------------------------------------

(* A band that the service shows kept its promise in the backtest: among    *)
(* all residuals, those of the hours without offsets of their own included, *)
(* at least the share of the gate had the actual price inside the band that *)
(* apply_band puts around the point that was predicted.                     *)
(* The gate (build_artifact) measures with other code than the service      *)
(* serves with (apply_band). And no band is shipped from one day alone,     *)
(* however many quarters it scored: the window ends on another day than it  *)
(* begins (derive_bands_from_backtest).                                     *)
ShippedBandsCover ==
    \A bands \in artifact :
       bands.calibrated =>
          LET inside == {r \in residuals :
                            \E b \in ApplyBand(0, r.hour, bands) : Lies(r.error, b.low, b.high)}
          IN  /\ 100 * Cardinality(inside) >= GatePercent * Cardinality(residuals)
              /\ Cardinality(scoredDays) > 1
=============================================================================
