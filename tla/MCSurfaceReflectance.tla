------------------------ MODULE MCSurfaceReflectance ------------------------
(* Two scenes of one day, of neighbouring rows; five lines are two regions *)
(* and a half.  The first scene's metadata and files vary, the second's    *)
(* are in order.                                                           *)
EXTENDS SurfaceReflectance

MCBands == <<"1", "7">>
MCAots == <<10, 50, 100>>
\* Below the table once brought to 550 nm, not retrieved, and beyond the table.
MCRetrieved == [b \in 0 .. 2 |-> CASE b = 0 -> 5 [] b = 1 -> -9999 [] b = 2 -> 120]
MCAerosolFill == -9999
MCGapFilled == [b \in 0 .. 2 |-> 60]

Good == [satellite |-> "LANDSAT_5", instrument |-> "TM", zenith |-> 40, azimuth |-> 130,
         wrs |-> 2, path |-> 15, row |-> 33, year |-> 2004, doy |-> 366, dated |-> TRUE,
         lat |-> -79, lines |-> 5, prwv |-> 1, ncep |-> 0, ozon |-> 1, argv0HasDir |-> TRUE]
OnDisk(present, lines) == [f \in Files |-> IF f \in present THEN lines ELSE Absent]
Scene(m, listed, lost) == [m |-> m, listed |-> listed, disk |-> OnDisk(listed \ lost, m.lines)]

Raw == {Level1("1"), Level1("7"), Level1("6")}
Second == Scene([Good EXCEPT !.row = 34, !.ozon = 0], Raw \union ToaFiles, {})
Toa(m, lost) == Scene(m, Raw \union ToaFiles, lost)

\* Still to be calibrated: whole, or unusable in one way or another.
Uncalibrated ==
    {Scene(Good, Raw, {}), Scene(Good, Raw, {Level1("7")}), Scene(Good, Raw, {Level1("6")}),
     Scene(Good, Raw \ {Level1("1")}, {}), Scene([Good EXCEPT !.satellite = "LANDSAT_8"], Raw, {}),
     Scene([Good EXCEPT !.instrument = "ETM"], Raw \union {Level1("61")}, {}),
     [Scene(Good, Raw, {}) EXCEPT !.disk[Level1("6")] = 4]}

\* With TOA products, of which some are missing or short, and odd metadata.
Calibrated ==
    {Toa(Good, {}), Toa(Good, {ToaBt("6")}), Toa(Good, {ToaRefl("7")}), Toa(Good, {ToaRefl("qa")}),
     Toa([Good EXCEPT !.path = 234, !.ozon = 0], {}), Toa([Good EXCEPT !.dated = FALSE], {}),
     Toa([Good EXCEPT !.ozon = 0, !.lat = 80], {}), Toa([Good EXCEPT !.ncep = 4], {}),
     Toa([Good EXCEPT !.prwv = 0], {}), Toa([Good EXCEPT !.argv0HasDir = FALSE], {}),
     Scene(Good, Raw \union (ToaFiles \ {ToaBt("6")}), {}),
     [Toa(Good, {}) EXCEPT !.disk[ToaRefl("7")] = 3]}

Both(first) == [s \in {"first", "second"} |-> IF s = "first" THEN first ELSE Second]
MCInputs == {Both(x) : x \in Uncalibrated \union Calibrated}
NoThermal == {Both(Toa(Good, {ToaBt("6")}))}

\* Three runs when the first scene is in order, two otherwise.
Bound == runs <= 2 \/ files["first"] = Toa(Good, {})

-----------------------------------------------------------------------------
(* calcuoz for every day and latitude: consecutive months whose middles    *)
(* have the day between them, neighbouring bands of latitude around the    *)
(* place, and indices inside the table.                                    *)
ASSUME CalcuozAssumption ==
    \A jday \in 1 .. 366, lat \in -79 .. 79 :
        LET o == calcuoz(jday, lat)
            sinceMiddle == 2 * (jday - 15) - 61 * o.months[1]
        IN  /\ o.months[1] \in 0 .. 11 /\ o.months[2] = (o.months[1] + 1) % 12
            /\ sinceMiddle \in 0 .. 60 \/ (o.months[1] = 11 /\ jday < 15)
            /\ o.lats[1] \in 0 .. 15 /\ o.lats[2] = o.lats[1] + 1
            /\ 10 * (o.lats[1] - 8) <= lat /\ lat <= 10 * (o.lats[2] - 8)
=============================================================================
