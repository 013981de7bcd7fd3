------------------------------ MODULE MCIngest ------------------------------
(* The small stations of the Ingest runs: what their POS exports.          *)
EXTENDS Ingest

R(key, lane, day, product, total) ==
  [key |-> key, lane |-> lane, day |-> day, product |-> product, total |-> total]

\* One sale at an old and one at a recent day, on two lanes, and their
\* corrections: of the amount, of the product and of the day.
Old    == R("s1", 1, 0, "HSD", 10)
New    == R("s2", 2, 1, "HSD", 20)
OldFix == R("s1", 1, 0, "HSD", 12)
NewFix == R("s2", 2, 1, "HSD", 22)
NewFixed == R("s2", 2, 1, "HSD", 25)
Moved  == R("s2", 2, 0, "HSD", 20)
Other  == R("s2", 2, 1, "PMG", 20)
Loose  == R(NoKey, 1, 1, "HSD", 5)
Bad    == R("s3", 1, 1, "HSD", 0)
Late   == R("s4", 1, 1, "PMG", 7)

NoneGarbled == {}
BadGarbled  == {Bad}

TwoDays    == {Old, New, NewFix}
TwoDaysExport == {{Old, New}, {NewFix}}
TwiceCorrected == {New, NewFix, NewFixed, Late, Bad}
TwiceCorrectedExport == {{New, Bad}, {NewFix, Late}, {NewFixed}, {Bad}}
OneSale    == {New, NewFix}
OneSaleExport == {{New}, {NewFix}}
OneMoved   == {New, Moved}
OneMovedExport == {{New}, {Moved}}
OneOther   == {New, Other}
OneOtherExport == {{New}, {Other}}
OneOld     == {Old}
OneOldExport == {{Old}}
OldSale    == {Old, OldFix}
OldSaleExport == {{Old}, {OldFix}}
OneBad     == {New, Bad}
OneBadExport == {{New, Bad}}
=============================================================================
