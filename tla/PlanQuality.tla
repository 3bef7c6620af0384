----------------------------- MODULE PlanQuality -----------------------------
(***************************************************************************)
(* The Final Quality Score of a candidate and the sizing tier it falls in  *)
(* (trading-ai/final-quality-score.ts, multi-timeframe-alignment.ts,       *)
(* historical-performance.ts), as functions.                               *)
(*                                                                         *)
(* Scores are integers in 0..100, weights integer percentages, R-multiples *)
(* tenths; inside the historical score a point is counted in hundredths.   *)
(* A decided outcome of the plan's symbol and direction is a record        *)
(* [loss, r, net]; a history is the sequence of them, newest last.         *)
(***************************************************************************)
EXTENDS Integers, Sequences, SequencesExt, FiniteSetsExt

LOCAL Bound(x, low, high) == IF x < low THEN low ELSE IF x > high THEN high ELSE x

\* Math.round(num / den) of a non-negative value
rounded(num, den) == (2 * num + den) \div (2 * den)

Weights == [H4 |-> 25, H1 |-> 30, M15 |-> 25, M5 |-> 20]

\* In halves: an unclear or missing timeframe counts for one half.
agreement(trend, direction) ==
  CASE trend = "BULLISH" -> IF direction = "BUY" THEN 2 ELSE 0
    [] trend = "BEARISH" -> IF direction = "SELL" THEN 2 ELSE 0
    [] OTHER -> 1

computeMultiTimeframeAlignmentScore(trends, direction) ==
  rounded(Weights.H4 * agreement(trends.H4, direction) + Weights.H1 * agreement(trends.H1, direction)
          + Weights.M15 * agreement(trends.M15, direction) + Weights.M5 * agreement(trends.M5, direction), 2)

LOCAL Total(history, value(_)) == FoldSeq(LAMBDA o, sum : sum + value(o), 0, history)

wins(history) == Total(history, LAMBDA o : IF o.loss THEN 0 ELSE 1)
grossProfit(history) == Total(history, LAMBDA o : IF o.net > 0 THEN o.net ELSE 0)
grossLoss(history) == Total(history, LAMBDA o : IF o.net < 0 THEN -o.net ELSE 0)

\* 50 without evidence; expectancy weighs more than the win rate.
historicalPerformanceScoreFor(history) ==
  IF history = <<>> THEN 50
  ELSE LET n == Len(history)
           rScore == Bound(5000 + (500 * Total(history, LAMBDA o : o.r)) \div n, 0, 10000)
           factor == IF grossLoss(history) = 0 THEN 500
                     ELSE Min({500, (100 * grossProfit(history)) \div grossLoss(history)})
           pfScore == Bound(5000 + (factor - 100) * 25, 0, 10000)
           wrScore == (10000 * wins(history)) \div n
       IN rounded(5 * rScore + 3 * pfScore + 2 * wrScore, 1000)

\* The influence of the history, as a fraction.
historicalInfluenceFactor(samples, quality) ==
  IF samples < quality.minSamples THEN <<0, 1>>
  ELSE IF samples >= quality.fullSamples THEN <<1, 1>>
  ELSE <<samples - quality.minSamples, quality.fullSamples - quality.minSamples>>

\* The length of the unbroken run of losses at the end of the history.
consecutiveLosses(history) ==
  FoldLeft(LAMBDA run, o : IF o.loss THEN run + 1 ELSE 0, 0, history)

getRecentLossGuard(history, quality) ==
  IF consecutiveLosses(history) >= quality.lossStreak THEN -quality.lossPenalty ELSE 0

\* What the history's weight does not use is shared out among the others.
computeFinalQualityScore(ai, trends, history, quality) ==
  LET w == quality.weights
      influence == historicalInfluenceFactor(Len(history), quality)
      others == w.profitability + w.tradeability + w.confidence + w.alignment
      parts == w.profitability * ai.profitability + w.tradeability * ai.tradeability
               + w.confidence * ai.confidence
               + w.alignment * computeMultiTimeframeAlignmentScore(trends, ai.decision)
      num == parts * (influence[2] * others + w.history * (influence[2] - influence[1]))
             + others * w.history * influence[1] * historicalPerformanceScoreFor(history)
      den == 100 * influence[2] * others
  IN Bound(rounded(num + getRecentLossGuard(history, quality) * den, den), 0, 100)

\* The cap of SHADOW_ONLY is never used.
qualityTierFor(score, quality) ==
  IF score >= quality.highScore THEN [tier |-> "HIGH", cap |-> quality.highCap]
  ELSE IF score >= quality.normalScore THEN [tier |-> "NORMAL", cap |-> quality.normalCap]
  ELSE [tier |-> "SHADOW_ONLY", cap |-> 0]

=============================================================================
