----------------------- MODULE MCPrometheusMultiproc -----------------------
EXTENDS PrometheusMultiproc, TLC

\* The samples are interchangeable: no step tells one from another.
SampleSymmetry == Permutations(Samples)
=============================================================================
