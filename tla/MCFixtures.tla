------------------------------ MODULE MCFixtures ------------------------------
EXTENDS Fixtures, TLC

D == <<"b", "_default", "_default">>
N == <<"b", "s", "c">>
MCKeyspaces == {D, N}
MCKeys == 1..2
MCSources == {(D :> <<1, 0>>) @@ (N :> <<1, 1>>)}
MCExportCalls == {<<TRUE, {}>>, <<TRUE, {N}>>, <<FALSE, {N}>>}
ToT == (D :> <<"t", "_default", "_default">>) @@ (N :> <<"t", "s", "c">>)
MCImportCalls == {<<<<>>, TRUE>>, <<ToT, FALSE>>}
MCTargetStarts == {{"b"}, {"t"}}
MCPrefixed == {"t"}

\* Bounds: once an export has overtaken an import, requests of that behaviour do
\* not fail any more; and an export still running when an import ends is not
\* followed further.  Three calls in all.
Bounds ==
  /\ exports + imports <= 3
  /\ raced => faults = 0
  /\ import.pc \in Ended \ {"idle"} => export.pc \in {"idle", "failed", "done"}
================================================================================
