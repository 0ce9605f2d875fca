--------------------------- MODULE MCLedgerIntake ---------------------------
(* Instance of LedgerIntake for TLC.                                       *)
EXTENDS LedgerIntake

CONSTANTS a1, noAlias, v1, v2

MCContents == {[value |-> v1, from |-> 0, to |-> 0, related |-> noAlias]}

MCRow(value, status, count) ==
  [legacy |-> a1, value |-> value, status |-> status, count |-> count]

(* One row; the same with more evidence and another one after it; two rows *)
(* with one identifier, the second of an open pull request.                *)
MCListings ==
  {<<MCRow(v1, "active", 1)>>,
   <<MCRow(v1, "active", 2), MCRow(v2, "open", 1)>>,
   <<MCRow(v1, "active", 1), MCRow(v2, "open", 1)>>}
=============================================================================
