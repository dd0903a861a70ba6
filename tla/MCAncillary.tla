----------------------------- MODULE MCAncillary ----------------------------
(* A leap year, the year after it and a year without data; a day that is a *)
(* leap day in one and March 1st in the other, and the last day of the     *)
(* leap year.  The directory may lack the elevation model, water vapour or *)
(* read permission, and may hold a copy of an ozone file.                  *)
EXTENDS Ancillary

Full == [dem |-> TRUE, ncep |-> Days, copies |-> {}, unreadable |-> {}]
MCDirectories ==
    {Full, [Full EXCEPT !.dem = FALSE], [Full EXCEPT !.ncep = {<<1992, 60>>}],
     [Full EXCEPT !.copies = {<<1992, 60>>}], [Full EXCEPT !.unreadable = {"EP_TOMS"}]}
MCSpans == {<<1992, 1992>>, <<1995, 1995>>}

(* One run of updatetoms.py beside the odd directories and scenes, two     *)
(* beside a scene of the leap day in a complete directory.                 *)
Bound == runs <= 1 \/ (aux = Full /\ scene = <<1992, 60>>)
=============================================================================
