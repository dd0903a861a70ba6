------------------------------ MODULE Ancillary -----------------------------
(***************************************************************************)
(* src/patches/ledaps/ledapsSrc/src/lndpm/lndpm.c, for one scene at a      *)
(* time, beside runs of updatetoms.py on the same ancillary directory      *)
(* (LEDAPS_AUX_DIR), and what lndsr does with the parameter file.          *)
(***************************************************************************)
EXTENDS UpdateToms

CONSTANTS Directories,       \* what the ancillary directory may hold beside ozone
          MaxScenes          \* bound on the runs of lndpm

ASSUME AncillaryAssumption ==
    /\ Directories \subseteq [dem : BOOLEAN, ncep : SUBSET Days, copies : SUBSET Days,
                              unreadable : SUBSET STRING]
    /\ MaxScenes \in Nat /\ Days # {}

VARIABLES
    aux,      \* the files other than updatetoms.py's
    scene,    \* the day of the scene lndpm is working on
    at,       \* where lndpm is
    scenes,   \* number of runs of lndpm so far
    day,      \* the day of the year conv_date gives for the scene's date
    missing,  \* anc_missing
    ozone,    \* the path of the ozone file, when it was found
    lndsr,    \* lndsr.<scene>.txt: what its OZON_FIL line says, or "unwritten"
    vanished  \* history: the ozone file went away after it was found

pmVars == <<aux, scene, at, scenes, day, missing, ozone, lndsr, vanished>>
vars == <<updateVars, pmVars>>

(* File names as the programs print them.  A file is found by the end of   *)
(* its name, so a copy "old_TOMS..." is found as well.                     *)
CMGDEM == <<"CMGDEM", 0, 0>>
Toms(year, n) == <<"TOMS", year, n>>
Reanalysis(year, n) == <<"REANALYSIS", year, n>>
Path(dir, name) == [dir |-> dir, name |-> name]
NotFound == Path("none", CMGDEM)

(* The files under LEDAPS_AUX_DIR. *)
Tree ==
       {Path("EP_TOMS", Toms(d[1], d[2])) : d \in {e \in Days : hdf[e] # NoFile}}
  \union {Path("EP_TOMS", <<"old_">> \o Toms(d[1], d[2])) : d \in aux.copies}
  \union {Path("REANALYSIS", Reanalysis(d[1], d[2])) : d \in aux.ncep}
  \union {Path(".", CMGDEM) : i \in IF aux.dem THEN {1} ELSE {}}

Init ==
    /\ UpdateInit
    /\ aux \in Directories
    /\ scene = CHOOSE d \in Days : TRUE
    /\ at = "idle" /\ scenes = 0 /\ day = 0 /\ missing = FALSE
    /\ ozone = NotFound /\ lndsr = "unwritten" /\ vanished = FALSE

(* find_file and scan_dir: the first match in the order of readdir, that   *)
(* is, any.  A directory that cannot be read, or whose path is too long,   *)
(* is skipped with a message.                                              *)
find_file(name) ==
    {path \in Tree : IsSuffix(name, path.name) /\ path.dir \notin aux.unreadable}

(* main up to the search: log, metadata, lndcal.<scene>.txt (written       *)
(* whatever the search finds), and the scene's day of the year.            *)
PmStart(d) ==
    /\ at \in {"idle", "failed", "processed"} /\ scenes < MaxScenes
    /\ scenes' = scenes + 1 /\ scene' = d
    /\ day' = conv_date(DateOf(d)[1], DateOf(d)[2], d[1]).dd
    /\ at' = "dem"
    /\ missing' = FALSE /\ ozone' = NotFound /\ lndsr' = "unwritten" /\ vanished' = FALSE
    /\ UNCHANGED <<updateVars, aux>>

(* The log, the metadata or lndcal.<scene>.txt cannot be opened. *)
PmFails(d) ==
    /\ at \in {"idle", "failed", "processed"} /\ scenes < MaxScenes
    /\ scenes' = scenes + 1 /\ scene' = d
    /\ at' = "failed" /\ lndsr' = "unwritten"
    /\ UNCHANGED <<updateVars, aux, day, missing, ozone, vanished>>

Search(name) == missing' = (missing \/ find_file(name) = {})

FindDem ==
    /\ at = "dem" /\ Search(CMGDEM)
    /\ at' = "ozone"
    /\ UNCHANGED <<updateVars, aux, scene, scenes, day, ozone, lndsr, vanished>>

Ozone == Toms(scene[1], day)
FindOzone ==
    /\ at = "ozone" /\ Search(Ozone)
    /\ ozone' \in IF find_file(Ozone) = {} THEN {NotFound} ELSE find_file(Ozone)
    /\ at' = "ncep"
    /\ UNCHANGED <<updateVars, aux, scene, scenes, day, lndsr, vanished>>

FindNcep ==
    /\ at = "ncep" /\ Search(Reanalysis(scene[1], day))
    /\ at' = "write"
    /\ UNCHANGED <<updateVars, aux, scene, scenes, day, ozone, lndsr, vanished>>

X_GivesUp == missing /\ ozone # NotFound
GivesUp == missing

GiveUp ==
    /\ at = "write" /\ GivesUp
    /\ at' = "failed"
    /\ UNCHANGED <<updateVars, aux, scene, scenes, day, missing, ozone, lndsr, vanished>>

(* lndsr.<scene>.txt, if it can be opened, with an OZON_FIL line if the    *)
(* ozone file opens now.                                                   *)
Write ==
    /\ at = "write" /\ ~GivesUp
    /\ \/ /\ lndsr' = IF ozone \in Tree THEN "ozone" ELSE "climatology"
          /\ at' = "written"
       \/ at' = "failed" /\ UNCHANGED lndsr
    /\ UNCHANGED <<updateVars, aux, scene, scenes, day, missing, ozone, vanished>>

(* lndsr takes climatology without an OZON_FIL line; a file that does not  *)
(* open is an error.                                                       *)
LndsrOpens ==
    /\ at = "written"
    /\ at' = IF lndsr = "ozone" /\ ozone \notin Tree THEN "failed" ELSE "processed"
    /\ UNCHANGED <<updateVars, aux, scene, scenes, day, missing, ozone, lndsr, vanished>>

Update ==
    /\ UpdateStep
    /\ UNCHANGED <<aux, scene, at, scenes, day, missing, ozone, lndsr>>
    /\ vanished' = (vanished \/ (ozone \in Tree /\ ozone \notin Tree'))

Next ==
    \/ Update
    \/ \E d \in Days : PmStart(d) \/ PmFails(d)
    \/ FindDem \/ FindOzone \/ FindNcep \/ GiveUp \/ Write \/ LndsrOpens

Spec == Init /\ [][Next]_vars

-----------------------------------------------------------------------------
(* Type correctness of both programs; a scene's day of the year is one.    *)
TypeOK ==
    /\ UpdateTypeOK
    /\ aux \in Directories /\ scene \in Days /\ scenes \in 0 .. MaxScenes
    /\ at \in {"idle", "dem", "ozone", "ncep", "write", "written", "failed", "processed"}
    /\ day \in 0 .. 366
    /\ ozone.dir \in {"none", "EP_TOMS"}
    /\ lndsr \in {"unwritten", "ozone", "climatology"}
    /\ missing \in BOOLEAN /\ vanished \in BOOLEAN

(* The two programs name a day alike: the ozone file lndpm looks for is    *)
(* the one updatetoms.py writes for the scene's date, after a leap day and *)
(* at the end of a leap year too, and conv_date undoes itself.             *)
SameDay ==
    at = "dem" =>
        /\ Ozone = Toms(scene[1], scene[2])
        /\ conv_date(0, day, scene[1]) = [mm |-> DateOf(scene)[1], dd |-> DateOf(scene)[2]]

(* lndsr processes a scene only with an elevation model, water vapour and  *)
(* ozone found for its day.  It falls back on climatology, or fails on the *)
(* parameter file, only when updatetoms.py removed the ozone file after    *)
(* lndpm had found it.                                                     *)
OzoneUnlessRemoved ==
    /\ at \in {"written", "processed"} => IsSuffix(Toms(scene[1], scene[2]), ozone.name)
    /\ lndsr = "climatology" => vanished
    /\ (at = "failed" /\ lndsr = "ozone") => vanished
=============================================================================
