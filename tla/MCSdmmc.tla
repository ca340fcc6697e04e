------------------------------- MODULE MCSdmmc -------------------------------
(***************************************************************************)
(* For TLC: cards for every branch of the two initialisations.             *)
(***************************************************************************)
EXTENDS Sdmmc

Kind(hc, v1, low, widths, speeds) ==
  [hc |-> hc, v1 |-> v1, low |-> low, widths |-> widths, speeds |-> speeds]

\* SD 1.0; SDSC 2.0 without high speed; SDHC; SDXC with SDR25 at most and with all
MCSdCards ==
  {Kind(FALSE, TRUE, FALSE, {1}, {}),
   Kind(FALSE, FALSE, FALSE, {1, 4}, {0}),
   Kind(TRUE, FALSE, FALSE, {1, 4}, {0, 1}),
   Kind(TRUE, FALSE, TRUE, {1, 4}, {0, 1}),
   Kind(TRUE, FALSE, TRUE, {1, 4}, {0, 1, 2, 3})}

\* Before 4.0; HS only; HS200; HS400
MCMmcCards ==
  {Kind(FALSE, TRUE, TRUE, {1}, {0}),
   Kind(TRUE, FALSE, TRUE, {1, 4, 8}, {0, 1}),
   Kind(TRUE, FALSE, TRUE, {1, 4, 8}, {0, 1, 2}),
   Kind(TRUE, FALSE, TRUE, {1, 4, 8}, {0, 1, 2, 3})}
=============================================================================
