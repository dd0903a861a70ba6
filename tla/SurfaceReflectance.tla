------------------------- MODULE SurfaceReflectance -------------------------
(***************************************************************************)
(* lndsr (src/patches/ledaps/ledapsSrc/src/lndsr/lndsr.c and sixs_runs.c), *)
(* several of it in one directory, on scenes whose TOA products lndcal has *)
(* written.  lndsr runs 6S through files named after the scene, then goes  *)
(* over the image four times; masks travel from one pass to the next       *)
(* through three rotating buffers and a temporary file.                    *)
(***************************************************************************)
EXTENDS LandsatInput

CONSTANTS Procs, Scenes,
          Inputs,          \* what the scenes' metadata, XML and disk may be at first
          Region,          \* lines of an aerosol region, lut->ar_region_size.l
          SixsBands, Aots, \* number of bands 6S is run for; sixs_tables->aot, in thousandths
          Retrieved,       \* Retrieved[b]: what Ar makes of the regions of row b
          AerosolFill,     \* lut->aerosol_fill
          GapFilled,       \* GapFilled[b]: what Fill_Ar_Gaps makes of a row Ar left unfilled
          MayFail,         \* whether calls outside of the model may fail
          MaxRuns          \* bound on the runs of lndsr

ASSUME SurfaceAssumption ==
    /\ Region \in Nat \ {0} /\ SixsBands \in Nat \ {0} /\ MaxRuns \in Nat
    /\ Len(Aots) >= 2 /\ \A k \in 2 .. Len(Aots) : Aots[k - 1] < Aots[k]
    /\ MayFail \in BOOLEAN /\ {"none", "cut"} \intersect Scenes = {}
    /\ Aots \in Seq(Int) /\ AerosolFill \in Int

(* A scene: what GetXMLInput and main read about it, and its files.        *)
Metadatas == [satellite : STRING, instrument : STRING, zenith : Int, azimuth : Int, wrs : Int,
              path : Int, row : Int, year : Int, doy : Int, dated : BOOLEAN, lat : Int,
              lines : Nat, prwv : Nat, ncep : Nat, ozon : Nat, argv0HasDir : BOOLEAN]
SceneFiles == [m : Metadatas, listed : SUBSET Files, disk : [Files -> Nat \union {Absent}]]

(* What the names of the 6S files are made of; no two scenes agree on it.  *)
(* GetXMLInput sets the date only when path, row, satellite and instrument *)
(* go together; otherwise it is what memory held, taken here to be no      *)
(* scene's date.                                                           *)
Dated(m) == PathRowInRange(m) /\ Combination(m)
Date(m) == IF Dated(m) THEN <<m.year, m.doy>> ELSE << >>
NameOf(m) == <<m.satellite, m.instrument, Date(m), m.wrs, m.path, m.row>>
ASSUME InputsAssumption ==
    \A x \in Inputs :
        /\ x \in [Scenes -> SceneFiles]
        /\ \A s, t \in Scenes : s # t => NameOf(x[s].m) # NameOf(x[t].m)
        /\ \A s \in Scenes : \A b \in 0 .. (x[s].m.lines - 1) \div Region :
              Retrieved[b] \in Int /\ GapFilled[b] \in Int

VARIABLES
    files,      \* files[s]: the scene's metadata, XML and disk
    lndcal,     \* lndcal[s]: the run of lndcal on the scene
    pr,         \* pr[p]: the run of lndsr in process p
    runs,       \* number of runs of lndsr so far
    sixsCmd,    \* sixsCmd[name]: the command file of that name, or NoFile
    sixsOut,    \* sixsOut[name]: the output file of that name, or NoFile
    temps,      \* the runs whose temporary dark target file exists
    out,        \* out[s]: the lines written to the scene's output bands
    headers,    \* the scenes whose ENVI headers are written
    published,  \* the scenes to whose XML file the output bands are appended
    unfinished  \* history: the scenes whose output was opened and not appended since

vars == <<files, lndcal, pr, runs, sixsCmd, sixsOut, temps, out, headers, published, unfinished>>
dirVars == <<sixsCmd, sixsOut, temps, out, headers, published, unfinished>>

Metadata(s) == files[s].m
NoFile == [scene |-> "none"]
Cut == [scene |-> "cut"]    \* an output file 6S did not write to its end
Unwritten == [line |-> Absent]
Blank == [line |-> -1, casts |-> {}, dark |-> -1]
BlankBlock == [r \in 1 .. Region |-> Blank]

(* The run of a process, before it has begun. *)
Idle == [at |-> "idle", scene |-> "none", run |-> 0,
         input |-> Unread, b6 |-> Unread, left |-> {}, thermal |-> FALSE, warned |-> FALSE,
         sixs |-> TRUE, climatology |-> FALSE, band |-> 1, aot |-> 1,
         bandTable |-> [i \in 1 .. SixsBands |-> NoFile],
         aotTable |-> [i \in 1 .. SixsBands |-> [j \in 1 .. Len(Aots) |-> NoFile]],
         il |-> 0, rotCld |-> <<BlankBlock, BlankBlock, BlankBlock>>, tmp |-> << >>,
         aerosol |-> << >>, coefs |-> << >>]

Stopped == {"idle", "failed", "crashed", "done"}
SceneOf(p) == pr[p].scene
Lines(p) == pr[p].input.lines

(* A process that exits holds nothing any more; its files stay. *)
Exited(p, how) == [Idle EXCEPT !.at = how, !.scene = pr[p].scene, !.run = pr[p].run,
                               !.warned = pr[p].warned]
Exit(p, how) == pr' = [pr EXCEPT ![p] = Exited(p, how)]
Becomes(p, run) == pr' = [pr EXCEPT ![p] = run]

-----------------------------------------------------------------------------
(* lndcal on a scene, as far as input.c shows it: it opens the Level 1     *)
(* files, reads every line of every band, closes them and writes the TOA   *)
(* products.                                                               *)
CalibrateOpen(s) ==
    /\ lndcal[s].at = "level1"
    /\ \E r \in LndcalOpenInput(files[s]) :
          lndcal' = [lndcal EXCEPT ![s] =
              [at |-> CASE r.ret = "input" -> "open" [] r.ret = "NULL" -> "failed"
                        [] OTHER -> "crashed",
               this |-> r.this, il |-> 0, left |-> r.left]]
    /\ UNCHANGED <<files, pr, runs, dirVars>>

CalibrateLine(s) ==
    LET this == lndcal[s].this
        il == lndcal[s].il
    IN  /\ lndcal[s].at = "open" /\ il < this.lines
        /\ IF /\ \A i \in DOMAIN this.names : GetInputLine(this, files[s].disk, i, il)
              /\ GetOtherLine(this, files[s].disk, il)
           THEN lndcal' = [lndcal EXCEPT ![s].il = il + 1]
           ELSE lndcal' = [lndcal EXCEPT ![s].at = "failed", ![s].this = Unread]
        /\ UNCHANGED <<files, pr, runs, dirVars>>

CalibrateClose(s) ==
    LET closed == LndcalCloseInput(lndcal[s].this)
    IN  /\ lndcal[s].at = "open" /\ lndcal[s].il >= lndcal[s].this.lines
        /\ lndcal' = [lndcal EXCEPT ![s].at = IF closed.ok THEN "toa" ELSE "failed",
                                    ![s].this = closed.this]
        /\ files' = IF closed.ok
                    THEN [files EXCEPT ![s].listed = @ \union ToaFiles,
                                       ![s].disk = [f \in Files |-> IF f \in ToaFiles
                                            THEN lndcal[s].this.lines ELSE @[f]]]
                    ELSE files
        /\ UNCHANGED <<pr, runs, dirVars>>

-----------------------------------------------------------------------------
(* set_sixs_path_from: 6S is looked for beside lndsr.  Without a directory *)
(* in argv[0] its own path need not exist in the working directory, and    *)
(* whether it then passes for one is in uninitialized memory.              *)
SixsPathRight(m) == IF m.argv0HasDir THEN {TRUE} ELSE {TRUE, FALSE}

(* Nothing in lndsr keeps a second process from a scene; whoever starts it *)
(* does.                                                                   *)
Free(s) == \A q \in Procs : SceneOf(q) = s => pr[q].at \in Stopped

(* main up to the reflective bands, on a scene processed before or not.    *)
Start(p, s) ==
    /\ pr[p].at \in Stopped /\ runs < MaxRuns
    /\ lndcal[s].at = "toa" /\ Free(s)
    /\ runs' = runs + 1
    /\ \E r \in LndsrOpenInput(files[s], FALSE), right \in SixsPathRight(Metadata(s)) :
          Becomes(p, [Idle EXCEPT
              !.at = CASE r.ret = "input" -> "thermal" [] r.ret = "NULL" -> "failed"
                       [] OTHER -> "crashed",
              !.scene = s, !.run = runs + 1, !.input = r.this, !.left = r.left, !.sixs = right])
    /\ UNCHANGED <<files, lndcal, dirVars>>

(* The thermal band is optional: "WARNING: ... Processing without." *)
OpenThermal(p) ==
    /\ pr[p].at = "thermal"
    /\ \E r \in LndsrOpenInput(files[SceneOf(p)], TRUE) :
          IF r.ret = "crash" THEN Exit(p, "crashed")
          ELSE Becomes(p, [pr[p] EXCEPT !.at = "ancillary", !.b6 = r.this,
                                        !.left = r.left, !.thermal = (r.ret = "input"),
                                        !.warned = (r.ret = "NULL")])
    /\ UNCHANGED <<files, lndcal, runs, dirVars>>

(* Reanalysis (PRWV) or NCEP files, not both; ozone comes with the former, *)
(* or from climatology.                                                    *)
OpenAncillary(p) ==
    LET m == Metadata(SceneOf(p))
    IN  /\ pr[p].at = "ancillary"
        /\ IF m.prwv > 0 /\ m.ncep > 0 THEN Exit(p, "failed")
           ELSE Becomes(p, [pr[p] EXCEPT !.at = "output",
                                         !.climatology = m.prwv > 0 /\ m.ozon < 1])
        /\ UNCHANGED <<files, lndcal, runs, dirVars>>

(* Lookup table, map projection, and the output files, which are opened    *)
(* anew, also those the XML file lists already.                            *)
OpenOutput(p) ==
    /\ pr[p].at = "output"
    /\ Becomes(p, [pr[p] EXCEPT !.at = "allocate"])
    /\ out' = [out EXCEPT ![SceneOf(p)] = [il \in 0 .. Lines(p) - 1 |-> Unwritten]]
    /\ unfinished' = unfinished \union {SceneOf(p)}
    /\ UNCHANGED <<files, lndcal, runs, sixsCmd, sixsOut, temps, headers, published>>

(* The line buffers; the rotating mask buffers are cleared. *)
Allocate(p) ==
    /\ pr[p].at = "allocate"
    /\ Becomes(p, [pr[p] EXCEPT !.at = "anc",
                                !.rotCld = <<BlankBlock, BlankBlock, BlankBlock>>])
    /\ UNCHANGED <<files, lndcal, runs, dirVars>>

(* The ancillary data are read, and the elevation model. *)
ReadAncillary(p) ==
    /\ pr[p].at = "anc"
    /\ IF Metadata(SceneOf(p)).prwv = 0 /\ Metadata(SceneOf(p)).ncep = 0
       THEN Exit(p, "failed")
       ELSE Becomes(p, [pr[p] EXCEPT !.at = "command"])
    /\ UNCHANGED <<files, lndcal, runs, dirVars>>

-----------------------------------------------------------------------------
(* calcuoz: the months and the bands of 10 degrees of latitude whose       *)
(* entries in the climatology are interpolated, as indices of oz.  From    *)
(* 80 degrees on it returns -1, and that is taken for the amount of ozone. *)
Minf(jday) == IF jday < 15 THEN -1 ELSE (2 * (jday - 15)) \div 61
Latinf(lat) == IF lat < 0 THEN -((-lat) \div 10) - 1 ELSE lat \div 10
calcuoz(jday, lat) ==
    IF lat <= -80 \/ lat >= 80 THEN [ozone |-> "-1"]
    ELSE [ozone |-> "climatology",
          months |-> <<(Minf(jday) + 12) % 12, (((Minf(jday) + 12) % 12) + 13) % 12>>,
          lats |-> <<Latinf(lat) + 8, Latinf(lat) + 9>>]

(* The amount of ozone 6S is given; without a date the day is whatever     *)
(* memory held.                                                            *)
Ozone(p) ==
    IF ~pr[p].climatology THEN [ozone |-> "file"]
    ELSE IF ~pr[p].input.dated THEN [ozone |-> "unknown"]
    ELSE calcuoz(Metadata(SceneOf(p)).doy, Metadata(SceneOf(p)).lat)

(* The name both files of a scene share, from what the input says. *)
X_SixsName(s) ==
    LET m == Metadata(s) IN <<m.satellite, m.instrument, Date(m), m.wrs, m.path>>
SixsName(s) == NameOf(Metadata(s))
SixsNames == {SixsName(s) : s \in Scenes}
Name(p) == SixsName(SceneOf(p))

(* What a command file asks 6S for, and so what its output is about. *)
Command(p, band, aot) ==
    [scene |-> SceneOf(p), band |-> band, aot |-> aot, ozone |-> Ozone(p)]

WriteCommand(p) ==
    /\ pr[p].at = "command"
    /\ sixsCmd' = [sixsCmd EXCEPT ![Name(p)] = Command(p, pr[p].band, pr[p].aot)]
    /\ Becomes(p, [pr[p] EXCEPT !.at = "bash"])
    /\ UNCHANGED <<files, lndcal, runs, sixsOut, temps, out, headers, published, unfinished>>

(* bash runs the command file, which redirects into the output file before *)
(* 6S starts, whether it can be started or not.                            *)
RunSixs(p) ==
    /\ pr[p].at = "bash"
    /\ \/ /\ pr[p].sixs /\ sixsCmd[Name(p)] # NoFile
          /\ sixsOut' = [sixsOut EXCEPT ![Name(p)] = sixsCmd[Name(p)]]
          /\ Becomes(p, [pr[p] EXCEPT !.at = "read"])
       \/ /\ ~pr[p].sixs \/ sixsCmd[Name(p)] = NoFile \/ MayFail
          /\ sixsOut' = [sixsOut EXCEPT ![Name(p)] = IF sixsCmd[Name(p)] = NoFile THEN @ ELSE Cut]
          /\ Exit(p, "failed")
    /\ UNCHANGED <<files, lndcal, runs, sixsCmd, temps, out, headers, published, unfinished>>

(* Rayleigh scattering, gases, and what else does not depend on the        *)
(* aerosols are taken from the first output of a band only.                *)
BandEntries(p, output) ==
    IF pr[p].aot = 1 THEN [pr[p].bandTable EXCEPT ![pr[p].band] = output]
    ELSE pr[p].bandTable

AotEntries(p, output) == [pr[p].aotTable EXCEPT ![pr[p].band][pr[p].aot] = output]

(* The next optical thickness, the next band, or the end of the loops. *)
Advanced(run) ==
    IF run.aot < Len(Aots) THEN [run EXCEPT !.at = "command", !.aot = @ + 1]
    ELSE IF run.band < SixsBands THEN [run EXCEPT !.at = "command", !.band = @ + 1, !.aot = 1]
    ELSE [run EXCEPT !.at = "unlink"]

ReadSixs(p) ==
    /\ pr[p].at = "read"
    /\ IF sixsOut[Name(p)] = NoFile THEN Exit(p, "failed")
       ELSE Becomes(p, Advanced([pr[p] EXCEPT !.bandTable = BandEntries(p, sixsOut[Name(p)]),
                                              !.aotTable = AotEntries(p, sixsOut[Name(p)])]))
    /\ UNCHANGED <<files, lndcal, runs, dirVars>>

X_UnlinkSixs(p) ==
    /\ pr[p].at = "unlink"
    /\ sixsCmd' = [sixsCmd EXCEPT ![Name(p)] = NoFile]
    /\ Becomes(p, [pr[p] EXCEPT !.at = "grid"])
    /\ UNCHANGED <<files, lndcal, runs, sixsOut, temps, out, headers, published, unfinished>>
UnlinkSixs(p) ==
    /\ pr[p].at = "unlink"
    /\ sixsCmd' = [sixsCmd EXCEPT ![Name(p)] = NoFile]
    /\ sixsOut' = [sixsOut EXCEPT ![Name(p)] = NoFile]
    /\ Becomes(p, [pr[p] EXCEPT !.at = "grid"])
    /\ UNCHANGED <<files, lndcal, runs, temps, out, headers, published, unfinished>>

-----------------------------------------------------------------------------
(* update_gridcell_atmos_coefs: the optical thickness of a cell is that of *)
(* the background, 0.01, or the retrieved one brought from 486 to 550 nm;  *)
(* both sides of the comparison are multiplied by 550.                     *)
Aot550(aerosol) == IF aerosol = AerosolFill THEN 10 * 550 ELSE aerosol * 486

(* The entry k of the tables, counted from 0, to interpolate from. *)
X_AotIndex(aot550) == Cardinality({k \in 1 .. Len(Aots) - 1 : aot550 >= 550 * Aots[k + 1]})
AotIndex(aot550) ==
    LET above == {k \in 1 .. Len(Aots) - 1 : aot550 < 550 * Aots[k + 1]}
        k == IF above = {} THEN Len(Aots) - 1
             ELSE (CHOOSE j \in above : \A l \in above : j <= l) - 1
    IN  IF k >= Len(Aots) - 1 THEN Len(Aots) - 2 ELSE k

update_atmos_coefs(aerosols) == [b \in DOMAIN aerosols |-> AotIndex(Aot550(aerosols[b]))]

(* The rows of aerosol regions, counted from 0. *)
Blocks(p) == 0 .. (Lines(p) - 1) \div Region
BlockLines(p, b) == {il \in 0 .. Lines(p) - 1 : il \div Region = b}

(* Ancillary data at the grid cells, and coefficients for the background.  *)
GridCells(p) ==
    /\ pr[p].at = "grid"
    /\ Becomes(p, [pr[p] EXCEPT !.at = "pass1", !.il = 0,
          !.coefs = update_atmos_coefs([b \in Blocks(p) |-> AerosolFill])])
    /\ UNCHANGED <<files, lndcal, runs, dirVars>>

ReadsBands(p, il) ==
    \A i \in DOMAIN pr[p].input.names :
        GetInputLine(pr[p].input, files[SceneOf(p)].disk, i, il)
ReadsMasks(p, il) ==
    /\ GetOtherLine(pr[p].input, files[SceneOf(p)].disk, il)
    /\ pr[p].thermal => GetInputLine(pr[p].b6, files[SceneOf(p)].disk, 1, il)

(* First pass: statistics of the clear pixels, from the thermal band. *)
Pass1Line(p) ==
    /\ pr[p].at = "pass1" /\ pr[p].il < Lines(p)
    /\ IF ReadsBands(p, pr[p].il) /\ ReadsMasks(p, pr[p].il)
       THEN Becomes(p, [pr[p] EXCEPT !.il = @ + 1])
       ELSE Exit(p, "failed")
    /\ UNCHANGED <<files, lndcal, runs, dirVars>>

(* mkstemp finds a name no one has. *)
CreateTemp(p) ==
    /\ pr[p].at = "pass1" /\ pr[p].il >= Lines(p)
    /\ temps' = temps \union {pr[p].run}
    /\ Becomes(p, [pr[p] EXCEPT !.at = "pass2", !.il = 0])
    /\ UNCHANGED <<files, lndcal, runs, sixsCmd, sixsOut, out, headers, published, unfinished>>

(* Second pass, by rows of regions.  cloud_detection_pass2 marks the lines *)
(* of the block in the middle buffer; clouds and the shadows they cast     *)
(* reach into all three when there is a thermal band.                      *)
Detect(p, buffer) ==
    [r \in 1 .. Region |->
        IF pr[p].il + r - 1 < Lines(p) THEN [buffer[r] EXCEPT !.line = pr[p].il + r - 1]
        ELSE buffer[r]]
Cast(p, buffer) ==
    IF pr[p].thermal
    THEN [r \in 1 .. Region |-> [buffer[r] EXCEPT !.casts = @ \union {pr[p].il \div Region}]]
    ELSE buffer

(* The block behind is complete: it is saved, unless there is none, and    *)
(* its buffer is cleared for the block after next.                         *)
X_Rotate(buffers) == <<buffers[2], buffers[3], buffers[1]>>
Rotate(buffers) == <<buffers[2], buffers[3], BlankBlock>>
Saved(p, buffers) == IF pr[p].il > 0 THEN pr[p].tmp \o buffers[1] ELSE pr[p].tmp
MaskBlock(p) ==
    LET old == pr[p].rotCld
        marked == <<Cast(p, old[1]), Cast(p, Detect(p, old[2])), Cast(p, old[3])>>
    IN  /\ pr[p].at = "pass2" /\ pr[p].il < Lines(p)
        /\ IF \A il \in BlockLines(p, pr[p].il \div Region) : ReadsBands(p, il) /\ ReadsMasks(p, il)
           THEN Becomes(p, [pr[p] EXCEPT !.rotCld = Rotate(marked), !.il = @ + Region,
                                         !.tmp = Saved(p, marked)])
           ELSE Exit(p, "failed")
        /\ UNCHANGED <<files, lndcal, runs, dirVars>>

LastBlock(p) ==
    /\ pr[p].at = "pass2" /\ pr[p].il >= Lines(p)
    /\ Becomes(p, [pr[p] EXCEPT !.at = "pass3", !.il = 0, !.tmp = @ \o pr[p].rotCld[1],
                                !.rotCld = <<BlankBlock, BlankBlock, BlankBlock>>])
    /\ UNCHANGED <<files, lndcal, runs, dirVars>>

(* Third pass: the aerosols of each row of regions, whose dark targets are *)
(* written back to where the masks were read.                              *)
Ar(b, rows) == [r \in DOMAIN rows |-> [rows[r] EXCEPT !.dark = b]]
AerosolBlock(p) ==
    LET b == pr[p].il \div Region
        ddv == SubSeq(pr[p].tmp, b * Region + 1, (b + 1) * Region)
    IN  /\ pr[p].at = "pass3" /\ pr[p].il < Lines(p)
        /\ IF /\ (b + 1) * Region <= Len(pr[p].tmp)
              /\ \A il \in BlockLines(p, b) : ReadsBands(p, il)
           THEN Becomes(p, [pr[p] EXCEPT
                    !.il = @ + Region,
                    !.aerosol = Append(@, Retrieved[b]),
                    !.tmp = [k \in DOMAIN @ |->
                        IF (k - 1) \div Region = b THEN Ar(b, ddv)[k - b * Region] ELSE @[k]]])
           ELSE Exit(p, "failed")
        /\ UNCHANGED <<files, lndcal, runs, dirVars>>

(* Fill_Ar_Gaps, and the coefficients from what is then known of each row. *)
NoGap(b, aerosol) == IF aerosol = AerosolFill THEN GapFilled[b] ELSE aerosol
Coefficients(p) ==
    /\ pr[p].at = "pass3" /\ pr[p].il >= Lines(p)
    /\ Becomes(p, [pr[p] EXCEPT !.at = "pass4", !.il = 0,
          !.coefs = update_atmos_coefs([b \in Blocks(p) |-> NoGap(b, pr[p].aerosol[b + 1])])])
    /\ UNCHANGED <<files, lndcal, runs, dirVars>>

(* Fourth pass: surface reflectance, and the mask line by line.  A line of *)
(* the thermal band is read whether there is one or not: without one       *)
(* b6_line was never allocated.  Of the mask the dark targets, snow and    *)
(* water go to the output; the shadows and the adjacent clouds are reset,  *)
(* and the clouds are found anew from the line's own reflectance and       *)
(* temperature.                                                            *)
Qa(mask) == [line |-> mask.line, dark |-> mask.dark]
ReflectanceLine(p) ==
    LET il == pr[p].il
        s == SceneOf(p)
    IN  /\ pr[p].at = "pass4" /\ il < Lines(p)
        /\ CASE ReadsBands(p, il) /\ ~pr[p].thermal -> Exit(p, "crashed") /\ UNCHANGED out
             [] /\ ReadsBands(p, il) /\ pr[p].thermal
                /\ GetInputLine(pr[p].b6, files[s].disk, 1, il)
                /\ il < Len(pr[p].tmp) ->
                  /\ out' = [out EXCEPT ![s][il] = Qa(pr[p].tmp[il + 1])]
                  /\ Becomes(p, [pr[p] EXCEPT !.il = @ + 1])
             [] OTHER -> Exit(p, "failed") /\ UNCHANGED out
        /\ UNCHANGED <<files, lndcal, runs, sixsCmd, sixsOut, temps, headers, published, unfinished>>

UnlinkTemp(p) ==
    /\ pr[p].at = "pass4" /\ pr[p].il >= Lines(p)
    /\ temps' = temps \ {pr[p].run}
    /\ Becomes(p, [pr[p] EXCEPT !.at = "close", !.tmp = << >>])
    /\ UNCHANGED <<files, lndcal, runs, sixsCmd, sixsOut, out, headers, published, unfinished>>

(* The reflective bands and the output are closed; input_b6 is not. *)
CloseFiles(p) ==
    LET closed == LndsrCloseInput(pr[p].input)
    IN  /\ pr[p].at = "close"
        /\ IF closed.ok THEN Becomes(p, [pr[p] EXCEPT !.at = "headers", !.input = closed.this])
           ELSE Exit(p, "failed")
        /\ UNCHANGED <<files, lndcal, runs, dirVars>>

WriteHeaders(p) ==
    /\ pr[p].at = "headers"
    /\ headers' = headers \union {SceneOf(p)}
    /\ Becomes(p, [pr[p] EXCEPT !.at = "append"])
    /\ UNCHANGED <<files, lndcal, runs, sixsCmd, sixsOut, temps, out, published, unfinished>>

AppendMetadata(p) ==
    /\ pr[p].at = "append"
    /\ published' = published \union {SceneOf(p)}
    /\ unfinished' = unfinished \ {SceneOf(p)}
    /\ Exit(p, "done")
    /\ UNCHANGED <<files, lndcal, runs, sixsCmd, sixsOut, temps, out, headers>>

(* EXIT_ERROR, exit(-1) or a kill: calls the model does not look into fail *)
(* at any point of a run, and nothing is cleaned up.                       *)
ExitError(p) ==
    /\ MayFail /\ pr[p].at \notin Stopped
    /\ Exit(p, "failed")
    /\ UNCHANGED <<files, lndcal, runs, dirVars>>

-----------------------------------------------------------------------------
Init ==
    /\ files \in Inputs
    /\ lndcal = [s \in Scenes |-> [at |-> IF ToaRefl(Bands[1]) \in files[s].listed
                                          THEN "toa" ELSE "level1",
                                   this |-> Unread, il |-> 0, left |-> {}]]
    /\ pr = [p \in Procs |-> Idle]
    /\ runs = 0
    /\ sixsCmd = [name \in SixsNames |-> NoFile]
    /\ sixsOut = [name \in SixsNames |-> NoFile]
    /\ temps = {}
    /\ out = [s \in Scenes |-> [il \in {} |-> Unwritten]]
    /\ headers = {} /\ published = {} /\ unfinished = {}

Setup(p) ==
    OpenThermal(p) \/ OpenAncillary(p) \/ OpenOutput(p) \/ Allocate(p) \/ ReadAncillary(p)
Sixs(p) == WriteCommand(p) \/ RunSixs(p) \/ ReadSixs(p) \/ UnlinkSixs(p)
Passes(p) ==
    \/ GridCells(p) \/ Pass1Line(p) \/ CreateTemp(p) \/ MaskBlock(p) \/ LastBlock(p)
    \/ AerosolBlock(p) \/ Coefficients(p) \/ ReflectanceLine(p)
Finish(p) == UnlinkTemp(p) \/ CloseFiles(p) \/ WriteHeaders(p) \/ AppendMetadata(p)

Next ==
    \/ \E s \in Scenes : CalibrateOpen(s) \/ CalibrateLine(s) \/ CalibrateClose(s)
    \/ \E p \in Procs, s \in Scenes : Start(p, s)
    \/ \E p \in Procs : Setup(p) \/ Sixs(p) \/ Passes(p) \/ Finish(p) \/ ExitError(p)

Spec == Init /\ [][Next]_vars

-----------------------------------------------------------------------------
(* Type correctness; a process holds an image only of a size it knows.     *)
TypeOK ==
    /\ \A s \in Scenes :
          /\ files[s].listed \subseteq Files /\ DOMAIN files[s].disk = Files
          /\ lndcal[s].at \in {"level1", "open", "toa", "failed", "crashed"}
          /\ DOMAIN out[s] = {} \/ DOMAIN out[s] = 0 .. Metadata(s).lines - 1
    /\ \A p \in Procs :
          /\ SceneOf(p) \in Scenes \union {"none"}
          /\ pr[p].band \in 1 .. SixsBands /\ pr[p].aot \in 1 .. Len(Aots)
          /\ pr[p].il \in Nat /\ Len(pr[p].tmp) % Region = 0
          /\ \A b \in DOMAIN pr[p].coefs : pr[p].coefs[b] \in 0 .. Len(Aots) - 2
    /\ temps \subseteq 1 .. MaxRuns /\ runs \in 0 .. MaxRuns
    /\ headers \subseteq Scenes /\ published \subseteq Scenes /\ unfinished \subseteq Scenes

(* "OpenInput sets up the 'input' data structure, opens the input raw      *)
(* binary files for read access", and returns "'input' data structure or   *)
(* NULL when an error occurs": which of it is so.  When it returns NULL    *)
(* nothing stays open.  In lndcal the structure has all its bands and the  *)
(* thermal file open, or no bands at all, and that for metadata it cannot  *)
(* identify; in lndsr it has all its bands and the QA file open as long as *)
(* lines are read.  The program dies instead only if a name or the other   *)
(* file is missing, or identification; later on, only if the thermal band  *)
(* could not be opened.                                                    *)
InputsAccounted ==
    /\ \A s \in Scenes :
          LET x == files[s]
              this == lndcal[s].this
          IN  /\ lndcal[s].left = {}
              /\ lndcal[s].at = "open" =>
                    IF Identified(x.m)
                    THEN /\ Len(this.names) = Len(Bands) /\ this.openOther
                         /\ this.open = DOMAIN this.names
                    ELSE this.names = << >> /\ this.lines < 0
              /\ lndcal[s].at = "crashed" => Unopened(LndcalNames(x), x.disk)
    /\ \A p \in Procs :
          LET x == files[SceneOf(p)]
          IN  /\ pr[p].left = {}
              /\ pr[p].at \notin Stopped \union {"headers", "append"} =>
                    /\ pr[p].input.names # << >> /\ pr[p].input.open = DOMAIN pr[p].input.names
                    /\ pr[p].input.openOther
              /\ pr[p].thermal <=> pr[p].b6.open # {}
              /\ pr[p].at = "crashed" =>
                    IF pr[p].warned THEN ~Opens(x.disk, Listed(x, ToaBt("6")))
                    ELSE \/ ~Identified(x.m)
                         \/ \E thermal \in BOOLEAN : Unopened(LndsrNames(x, thermal), x.disk)

(* Whatever other runs do in the directory, the entries of the 6S tables   *)
(* are about this scene, this band and this optical thickness, and a grid  *)
(* cell interpolates from the entry its optical thickness is not below to  *)
(* the one above it, unless it is outside of the table.                    *)
Brackets(aot550, k) ==
    /\ aot550 >= 550 * Aots[k + 1] \/ k = 0
    /\ aot550 < 550 * Aots[k + 2] \/ k = Len(Aots) - 2
OwnTables ==
    \A p \in Procs :
        /\ \A i \in 1 .. SixsBands, j \in 1 .. Len(Aots) :
              /\ pr[p].aotTable[i][j] \in {NoFile, Command(p, i, j)}
              /\ pr[p].bandTable[i] \in {NoFile, Command(p, i, 1)}
              /\ pr[p].coefs # << >> => NoFile \notin {pr[p].bandTable[i], pr[p].aotTable[i][j]}
        /\ pr[p].at = "pass4" =>
              \A b \in Blocks(p) : Brackets(Aot550(NoGap(b, Retrieved[b])), pr[p].coefs[b])

(* Masks stay with their lines through the rotating buffers, the temporary *)
(* file and its rewriting in place.  The third pass looks for dark targets *)
(* under masks that the clouds and shadows of the row of regions and of    *)
(* the two beside it, and no others, were cast into.  An output line has   *)
(* the dark targets, snow and water found for that line with its own row;  *)
(* of what was cast into its mask it has nothing.                          *)
MasksInPlace ==
    \A p \in Procs :
        /\ pr[p].at \in {"pass3", "pass4"} =>
              /\ Lines(p) <= Len(pr[p].tmp)
              /\ pr[p].thermal => \A il \in 0 .. Lines(p) - 1 :
                    /\ pr[p].tmp[il + 1].line = il
                    /\ pr[p].tmp[il + 1].casts =
                          {il \div Region - 1, il \div Region, il \div Region + 1}
                              \intersect Blocks(p)
        /\ pr[p].at = "pass4" =>
              \A il \in 0 .. pr[p].il - 1 :
                  out[SceneOf(p)][il] = [line |-> il, dark |-> il \div Region]

(* What a scene's XML file lists is whole: every line of the bands and     *)
(* every header is written, and no 6S file of the scene is left, those of  *)
(* earlier failed runs included.  It stays so through runs on other scenes *)
(* and through a further run on the scene that ends before it opens its    *)
(* output.  From there on, until that run appends the bands anew, it is    *)
(* not.                                                                    *)
PublishedWhole ==
    \A s \in published \ unfinished :
        /\ DOMAIN out[s] = 0 .. Metadata(s).lines - 1
        /\ \A il \in DOMAIN out[s] : out[s][il] # Unwritten
        /\ s \in headers
        /\ Dated(Metadata(s)) => sixsCmd[SixsName(s)] = NoFile /\ sixsOut[SixsName(s)] = NoFile
        /\ \A p \in Procs : SceneOf(p) = s /\ pr[p].at = "done" => pr[p].run \notin temps

(* "WARNING: no thermal brightness temp band available. Processing         *)
(* without.": a run that says so is not stopped by the lack of the band.   *)
ProcessesWithoutThermal ==
    \A p \in Procs : pr[p].warned => pr[p].at \notin {"failed", "crashed"}
=============================================================================
