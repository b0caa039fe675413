----------------------------- MODULE MetricStore -----------------------------
(***************************************************************************)
(* What a scrape of /_status/metrics promises, with no processes, files or *)
(* locks in sight: the samples the workers have recorded, and for every    *)
(* scrape an answer that counts each sample recorded before the scrape     *)
(* began exactly once and each later sample at most once.                  *)
(* PrometheusMultiproc implements this module.                             *)
(***************************************************************************)
EXTENDS Naturals

CONSTANTS Scrapers,  \* the workers that may be asked for the metrics
          Kinds,     \* the metric families kept in a file of their own
          Samples    \* the increments, told apart so that none is lost unseen

VARIABLES recorded,  \* recorded[k]: the samples of kind k
          asking,    \* the scrapes in progress
          since,     \* since[w]: what was recorded when w's scrape began
          answer     \* answer[w][k][s]: how often the answer counts sample s

vars == <<recorded, asking, since, answer>>

\* The body of a scrape that has not been answered (or failed) counts nothing.
NoAnswer == [k \in Kinds |-> [s \in Samples |-> 0]]

NoSamples == [k \in Kinds |-> {}]

\* The answer that counts exactly the samples of body.
CountOnce(body) ==
  [k \in Kinds |-> [s \in Samples |-> IF s \in body[k] THEN 1 ELSE 0]]

Init ==
  /\ recorded = NoSamples
  /\ asking = {}
  /\ since = [w \in Scrapers |-> NoSamples]
  /\ answer = [w \in Scrapers |-> NoAnswer]

Record(k, s) ==
  /\ s \notin recorded[k]
  /\ recorded' = [recorded EXCEPT ![k] = @ \cup {s}]
  /\ UNCHANGED <<asking, since, answer>>

Ask(w) ==
  /\ w \notin asking
  /\ asking' = asking \cup {w}
  /\ since' = [since EXCEPT ![w] = recorded]
  /\ UNCHANGED <<recorded, answer>>

Answer(w) ==
  /\ w \in asking
  /\ answer[w] = NoAnswer
  /\ \E body \in [Kinds -> SUBSET Samples] :
        /\ \A k \in Kinds : since[w][k] \subseteq body[k] /\ body[k] \subseteq recorded[k]
        /\ answer' = [answer EXCEPT ![w] = CountOnce(body)]
  /\ UNCHANGED <<recorded, asking, since>>

\* The response has been sent, or the scrape failed and there is none.
Finish(w) ==
  /\ w \in asking
  /\ asking' = asking \ {w}
  /\ since' = [since EXCEPT ![w] = NoSamples]
  /\ answer' = [answer EXCEPT ![w] = NoAnswer]
  /\ UNCHANGED recorded

Next ==
  \/ \E k \in Kinds, s \in Samples : Record(k, s)
  \/ \E w \in Scrapers : Ask(w) \/ Answer(w) \/ Finish(w)

Spec == Init /\ [][Next]_vars
=============================================================================
