---------------------------- MODULE LandsatInput ----------------------------
(***************************************************************************)
(* The input files of lndcal and lndsr: src/patches/ledaps/ledapsSrc/src/  *)
(* lndcal/input.c and lndsr/input.c.  A scene is its metadata m, the set   *)
(* of bands its XML file lists, and what is on the disk: how many lines    *)
(* each file holds, or Absent.                                             *)
(***************************************************************************)
EXTENDS Integers, Sequences, FiniteSets

CONSTANT Bands      \* the reflective bands in order; six in the code

ASSUME BandsAssumption == Bands \in Seq(STRING) /\ Len(Bands) >= 1

Absent == -1
NULL == <<"null", "null">>
Level1(band) == <<"L1", band>>
ToaRefl(band) == <<"toa_refl", band>>
ToaBt(band) == <<"toa_bt", band>>
Level1Files == {Level1(Bands[i]) : i \in DOMAIN Bands} \union {Level1("6"), Level1("61")}
ToaFiles == {ToaRefl(Bands[i]) : i \in DOMAIN Bands}
              \union {ToaRefl("qa"), ToaBt("6"), ToaBt("6_qa")}
Files == Level1Files \union ToaFiles

(* Input_t: names[i] is file_name[i-1] and nband their number; other is    *)
(* the QA file of lndsr and the thermal file of lndcal; dated says that    *)
(* acq_date was set.                                                       *)
Unread == [names |-> << >>, other |-> NULL, lines |-> -1, dated |-> FALSE,
           open |-> {}, openOther |-> FALSE]

-----------------------------------------------------------------------------
(* GetXMLInput.  Its first part looks at the scene as a whole. *)
Satellites == {"LANDSAT_1", "LANDSAT_2", "LANDSAT_3", "LANDSAT_4", "LANDSAT_5", "LANDSAT_7"}
Identified(m) ==
    /\ m.satellite \in Satellites
    /\ m.instrument \in {"TM", "ETM"}
    /\ m.zenith \in -90 .. 90 /\ m.azimuth \in -360 .. 360
    /\ m.wrs \in {1, 2}

PathRowInRange(m) ==
    /\ m.path <= (IF m.wrs = 1 THEN 251 ELSE 233)
    /\ m.row <= 248

Combination(m) ==
    \/ m.instrument = "TM"  /\ m.satellite \in {"LANDSAT_4", "LANDSAT_5"}
    \/ m.instrument = "ETM" /\ m.satellite = "LANDSAT_7"

Listed(x, file) == IF file \in x.listed THEN file ELSE NULL

(* Every error but that of the dates returns true, with what was filled in *)
(* up to there.                                                            *)
Checked(x, this, dates) ==
    IF ~PathRowInRange(x.m) \/ ~Combination(x.m)
    THEN [ok |-> TRUE, this |-> this]
    ELSE [ok |-> dates, this |-> [this EXCEPT !.dated = dates]]

LndsrNames(x, thermal) ==
    IF thermal
    THEN [Unread EXCEPT !.names = <<Listed(x, ToaBt("6"))>>,
                        !.other = Listed(x, ToaBt("6_qa"))]
    ELSE [Unread EXCEPT !.names = [i \in DOMAIN Bands |-> Listed(x, ToaRefl(Bands[i]))],
                        !.other = Listed(x, ToaRefl("qa"))]

(* The size is taken from the first band, without which nothing else is    *)
(* looked at.                                                              *)
LndsrXML(x, thermal) ==
    LET named == LndsrNames(x, thermal)
    IN  IF ~Identified(x.m) THEN [ok |-> TRUE, this |-> Unread]
        ELSE IF named.names[1] = NULL THEN [ok |-> TRUE, this |-> named]
        ELSE Checked(x, [named EXCEPT !.lines = x.m.lines], x.m.dated)

LndcalNames(x) ==
    [Unread EXCEPT
        !.names = [i \in DOMAIN Bands |-> Listed(x, Level1(Bands[i]))],
        !.other = Listed(x, Level1(IF x.m.instrument = "TM" THEN "6" ELSE "61")),
        !.lines = x.m.lines]

(* The production date comes with band 1. *)
LndcalDates(x) == x.m.dated /\ Level1(Bands[1]) \in x.listed

LndcalXML(x) ==
    IF ~Identified(x.m) THEN [ok |-> TRUE, this |-> Unread]
    ELSE Checked(x, LndcalNames(x), LndcalDates(x))

-----------------------------------------------------------------------------
(* OpenInput: the set of its outcomes.  left is what it leaves open when   *)
(* it returns NULL.                                                        *)
Returned(this) == [ret |-> "input", this |-> this, left |-> {}]
ReturnedNull(left) == [ret |-> "NULL", this |-> Unread, left |-> left]
Crashed == [ret |-> "crash", this |-> Unread, left |-> {}]

Opens(disk, file) == file # NULL /\ disk[file] # Absent

(* Bands are opened in order up to the first that fails; the other file is *)
(* tried all the same when it is wanted.                                   *)
OpenBands(this, disk) ==
    {i \in DOMAIN this.names : \A j \in 1 .. i : Opens(disk, this.names[j])}

(* On an error the loop over the bands closes those that are open.         *)
X_Closed(this) == this.open \intersect 2 .. Len(this.names)
Closed(this) == this.open \intersect 1 .. Len(this.names)

(* The other file is closed too, whether it is open or not: fclose of      *)
(* NULL.  On some platforms fopen of NULL crashes as well.                 *)
OpenFiles(this, disk, wanted) ==
    LET tried == [this EXCEPT !.open = OpenBands(this, disk),
                              !.openOther = wanted /\ Opens(disk, this.other)]
        failed == tried.open # DOMAIN this.names \/ (wanted /\ ~tried.openOther)
        names == {this.names[i] : i \in {j \in DOMAIN this.names : j - 1 \in tried.open \union {0}}}
                   \union (IF wanted THEN {this.other} ELSE {})
    IN  {IF ~failed THEN Returned(tried)
         ELSE IF ~tried.openOther THEN Crashed
         ELSE ReturnedNull({this.names[i] : i \in tried.open \ Closed(tried)})}
        \union (IF NULL \in names THEN {Crashed} ELSE {})

LndsrOpenInput(x, thermal) ==
    LET xml == LndsrXML(x, thermal)
    IN  IF xml.ok THEN OpenFiles(xml.this, x.disk, TRUE) ELSE {ReturnedNull({})}

(* A structure without bands has no thermal band either, and is returned.  *)
LndcalOpenInput(x) ==
    LET xml == LndcalXML(x)
    IN  IF xml.ok THEN OpenFiles(xml.this, x.disk, xml.this.names # << >>)
        ELSE {ReturnedNull({})}

(* What makes OpenInput crash, given the names it goes by: the other file  *)
(* cannot be opened, or a band has no name.                                *)
Unopened(this, disk) ==
    ~Opens(disk, this.other) \/ \E i \in DOMAIN this.names : this.names[i] = NULL

(* GetInputLine of both, as long as the file goes. *)
GetInputLine(this, disk, iband, iline) ==
    /\ iband \in DOMAIN this.names
    /\ iline >= 0 /\ iline < this.lines
    /\ iband \in this.open
    /\ iline < disk[this.names[iband]]

(* GetInputQALine of lndsr and GetInputLineTh of lndcal. *)
GetOtherLine(this, disk, iline) ==
    /\ iline >= 0 /\ iline < this.lines
    /\ this.openOther
    /\ iline < disk[this.other]

(* CloseInput; it is an error to have had no band open. *)
LndsrCloseInput(this) ==
    [ok |-> this.open # {}, this |-> [this EXCEPT !.open = {}, !.openOther = FALSE]]
LndcalCloseInput(this) == LndsrCloseInput(this)
=============================================================================
