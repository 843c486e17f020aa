----------------------------- MODULE MCFairUse -----------------------------
(***************************************************************************)
(* Two customers, and plans with aggregation of downloads or of uploads or *)
(* none, with and without "-MAX", a malus and an asymmetry, one of which   *)
(* leaves no rate for uploads.                                             *)
(***************************************************************************)
EXTENDS FairUse

Plain ==
  [min |-> 4096, max |-> 16384, reserve_min |-> 8, reserve_max |-> 0,
   download_aggregation |-> 1, upload_aggregation |-> 0,
   asymetry_ratio |-> 1, asymetry_fixed |-> 0]

MCPlans == {
  Plain,
  [Plain EXCEPT !.reserve_max = 2048, !.asymetry_fixed = 64],
  [Plain EXCEPT !.download_aggregation = 0, !.upload_aggregation = 2, !.min = 8192,
                !.asymetry_ratio = 2],
  [Plain EXCEPT !.download_aggregation = 0, !.asymetry_fixed = 4096],
  [Plain EXCEPT !.max = 4096],
  [Plain EXCEPT !.max = 0] }
=============================================================================
