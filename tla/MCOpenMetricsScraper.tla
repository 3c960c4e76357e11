------------------------ MODULE MCOpenMetricsScraper ------------------------
(***************************************************************************)
(* OpenMetricsScraper for TLC: Info ahead of the counters and between      *)
(* them, with every combination of the options that makes a difference.    *)
(***************************************************************************)
EXTENDS OpenMetricsScraper

CONSTANTS c1, c2

\* With errors ignored some are still raised, and without shared labels their cache
\* makes no difference.  Info comes ahead of the counters where they would miss the
\* label otherwise; else it stands between them.
AllConfigs ==
  {f \in [order : {<<Info, Pst, c1, c2>>, <<c1, Pst, Info, c2>>},
          share : BOOLEAN, cache : BOOLEAN, start : BOOLEAN, ignore : {TRUE},
          newer : BOOLEAN] :
     /\ f.share \/ f.cache
     /\ Head(f.order) = Info => f.share /\ f.cache /\ ~f.start}
=============================================================================
