-------------------------- MODULE MC_WazuhVersion --------------------------
(* Instances of WazuhVersion for TLC.                                     *)
EXTENDS WazuhVersion

\* Pre-release numbers of one digit: only major/minor/patch and tags vary.
MC_OneDigitDev == {<<>>, <<1>>, <<2>>}

\* Pre-release numbers "2" and "10", which order differently as strings.
MC_TwoDigitDev == {<<>>, <<2>>, <<1, 0>>}
=============================================================================
