----------------------------- MODULE UpdateToms -----------------------------
(***************************************************************************)
(* src/patches/ledaps/ledapsAncSrc/updatetoms.py: downloads the daily      *)
(* ozone files of the years asked for and converts each to the HDF file    *)
(* that scenes of that day are processed with.  Every external command may *)
(* fail, its exit status is ignored or only warned about, and a run may be *)
(* cut short anywhere; the files it leaves are what the next one finds.    *)
(***************************************************************************)
EXTENDS Calendar

CONSTANTS Years, Doys,       \* the years and days of the year looked at
          ThisYear, Today,   \* the clock: the year, the days of it that may be today
          Spans,             \* pairs of --start_year and --end_year
          MaxRuns            \* bound on the runs of the script

ASSUME UpdateAssumption ==
    /\ Years \subseteq Nat /\ Doys \subseteq 1 .. 366
    /\ ThisYear \in Nat /\ Today \subseteq 1 .. 366 /\ MaxRuns \in Nat

VARIABLES
    today,     \* the day of ThisYear it is
    pc,        \* where the script is
    runs,      \* number of runs so far; tags what a run downloads
    years,     \* the years the run has still to do; it takes the first of them
    sources,   \* the URLs it has still to retrieve from
    doy,       \* day_of_year of the loop
    lastDoy,   \* where the loop over the days ends
    dload,     \* files in tmp/ep_toms/<year>
    tomsfile,  \* the file that convert_ozone is at
    hdf        \* hdf[day]: what TOMS_<year><doy>.hdf holds, or NoFile

updateVars == <<today, pc, runs, years, sources, doy, lastDoy, dload, tomsfile, hdf>>

Sources == {"OMI", "EARTHPROBE", "METEOR3", "NIMBUS"}
NoFile == "none"

(* The days there are, and the date datetime gives for each. *)
Days == {d \in Years \X Doys : d[2] <= Cardinality(DatesOf(d[1]))}
DateTable == {<<d, CHOOSE date \in DatesOf(d[1]) : DayOfYear(date, d[1]) = d[2]>> : d \in Days}
DateOf(d) == (CHOOSE entry \in DateTable : entry[1] = d)[2]
DateStr(d) == <<d[1], DateOf(d)>>
DateStrs == {DateStr(d) : d \in Days}

(* A downloaded file is named by its instrument and date; run is history.  *)
File == [source : Sources, date : DateStrs, run : 1 .. MaxRuns]
NoToms == [source |-> "none"]

(* DatasourceResolver.resolve. *)
resolve(year) ==
    CASE year \in 1978 .. 1990 -> <<"NIMBUS">>
      [] year \in 1991 .. 1993 -> <<"METEOR3", "NIMBUS">>
      [] year = 1994           -> <<"METEOR3">>
      [] year \in 1996 .. 2003 -> <<"EARTHPROBE">>
      [] year \in 2004 .. 2005 -> <<"OMI", "EARTHPROBE">>
      [] year >= 2006          -> <<"OMI">>
      [] OTHER                 -> << >>      \* None

(* getOzoneSource: the name convert_ozone is given for the instrument. *)
getOzoneSource(f) == IF f.source = "NIMBUS" THEN "NIMBUS7" ELSE f.source

(* resolveFile: OMI, EARTHPROBE, METEOR3, NIMBUS7, in that order. *)
X_Priority == <<"OMI", "EARTHPROBE", "NIMBUS", "METEOR3">>
Priority == <<"OMI", "EARTHPROBE", "METEOR3", "NIMBUS">>
Rank(source) == CHOOSE i \in 1 .. 4 : Priority[i] = source
resolveFile(fileList) ==
    CHOOSE f \in fileList : \A g \in fileList : Rank(f.source) <= Rank(g.source)

UpdateInit ==
    /\ today \in Today
    /\ pc = "idle" /\ runs = 0
    /\ years = {} /\ sources = << >> /\ doy = 1 /\ lastDoy = 0
    /\ dload = [y \in Years |-> {}]
    /\ tomsfile = NoToms
    /\ hdf = [d \in Days |-> NoFile]

(* main: the range of years for the options, as far as the model has them. *)
(* Without options, or without LEDAPS_AUX_DIR, it ends at once.            *)
YearRange(first, last) == {y \in Years : first <= y /\ y <= last}
STARTYEAR == 1978
Options == {"today", "quarterly", "years"}
Main(opt, span) ==
    CASE opt = "today"     -> YearRange(IF today <= 31 THEN ThisYear - 1 ELSE ThisYear, ThisYear)
      [] opt = "quarterly" -> YearRange(STARTYEAR, ThisYear)
      [] OTHER             -> YearRange(span[1], span[2])

Start(opt, span) ==
    /\ pc = "idle" /\ runs < MaxRuns
    /\ runs' = runs + 1
    /\ years' = Main(opt, span)
    /\ pc' = "year"
    /\ UNCHANGED <<today, sources, doy, lastDoy, dload, tomsfile, hdf>>

DaysPass ==
    /\ pc = "idle"
    /\ \E t \in Today : t > today /\ today' = t
    /\ UNCHANGED <<pc, runs, years, sources, doy, lastDoy, dload, tomsfile, hdf>>

(* The loop over the range of years, which goes up. *)
Year == CHOOSE y \in years : \A z \in years : y <= z

(* getTomsData up to the end of the downloadToms preliminaries: the        *)
(* download directory is cleaned and the sources of the year resolved.     *)
X_Cleaned(files) == files
Cleaned(files) == {}
BeginYear ==
    /\ pc = "year" /\ years # {}
    /\ dload' = [dload EXCEPT ![Year] = Cleaned(@)]
    /\ \/ /\ resolve(Year) = << >>             \* ERROR, and main goes on
          /\ years' = years \ {Year}
          /\ UNCHANGED <<pc, sources>>
       \/ /\ resolve(Year) # << >>
          /\ sources' = resolve(Year) /\ pc' = "wget"
          /\ UNCHANGED years
    /\ UNCHANGED <<today, runs, doy, lastDoy, tomsfile, hdf>>

EndRun ==
    /\ pc = "year" /\ years = {}
    /\ pc' = "idle"
    /\ UNCHANGED <<today, runs, years, sources, doy, lastDoy, dload, tomsfile, hdf>>

(* One wget.  It retrieves what the server has, or less; nobody looks at   *)
(* its status.  A file that is there already is not written over.          *)
Arrived(some) == {[source |-> Head(sources), date |-> s, run |-> runs] : s \in some}
Fresh(f) == ~\E g \in dload[Year] : g.source = f.source /\ g.date = f.date
Wget(some) ==
    /\ pc = "wget" /\ sources # << >>
    /\ dload' = [dload EXCEPT ![Year] = @ \union {f \in Arrived(some) : Fresh(f)}]
    /\ sources' = Tail(sources)
    /\ UNCHANGED <<today, pc, runs, years, doy, lastDoy, tomsfile, hdf>>

(* Up to today in the current year, else to the end of the year. *)
LastDay(year) ==
    IF year = ThisYear THEN today ELSE IF isLeapYear(year) THEN 366 ELSE 365

DoyAfter(n) == IF \E d \in Doys : d > n
               THEN CHOOSE d \in Doys : d > n /\ \A e \in Doys : e > n => d <= e
               ELSE 367

BeginDays ==
    /\ pc = "wget" /\ sources = << >>
    /\ lastDoy' = LastDay(Year)
    /\ doy' = DoyAfter(0)
    /\ pc' = "day"
    /\ UNCHANGED <<today, runs, years, sources, dload, tomsfile, hdf>>

fileList == {f \in dload[Year] : f.date = DateStr(<<Year, doy>>)}

NoData ==
    /\ pc = "day" /\ doy <= lastDoy /\ fileList = {}
    /\ doy' = DoyAfter(doy)
    /\ UNCHANGED <<today, pc, runs, years, sources, lastDoy, dload, tomsfile, hdf>>

(* The file for the day is chosen and the output removed if it exists. *)
Prepare ==
    /\ pc = "day" /\ doy <= lastDoy /\ fileList # {}
    /\ tomsfile' = resolveFile(fileList)
    /\ hdf' = [hdf EXCEPT ![<<Year, doy>>] = NoFile]
    /\ pc' = "convert"
    /\ UNCHANGED <<today, runs, years, sources, doy, lastDoy, dload>>

(* convert_ozone, whose failure is a warning: it leaves the day's file, or *)
(* none, or a part.                                                        *)
Convert ==
    /\ pc = "convert"
    /\ \E out \in {getOzoneSource(tomsfile), NoFile, "incomplete"} :
          hdf' = [hdf EXCEPT ![<<Year, doy>>] = out]
    /\ doy' = DoyAfter(doy)
    /\ pc' = "day"
    /\ tomsfile' = NoToms
    /\ UNCHANGED <<today, runs, years, sources, lastDoy, dload>>

(* Downloads are removed when the year is done. *)
EndYear ==
    /\ pc = "day" /\ doy > lastDoy
    /\ dload' = [dload EXCEPT ![Year] = {}]
    /\ years' = years \ {Year}
    /\ pc' = "year" /\ doy' = 1 /\ lastDoy' = 0
    /\ UNCHANGED <<today, runs, sources, tomsfile, hdf>>

(* The run is cut short, in the middle of a conversion or elsewhere. *)
Interrupt ==
    /\ pc # "idle"
    /\ \/ pc = "convert" /\ hdf' = [hdf EXCEPT ![<<Year, doy>>] = "incomplete"]
       \/ UNCHANGED hdf
    /\ pc' = "idle" /\ years' = {} /\ sources' = << >> /\ doy' = 1 /\ lastDoy' = 0
    /\ tomsfile' = NoToms
    /\ UNCHANGED <<today, runs, dload>>

UpdateStep ==
    \/ \E opt \in Options, span \in Spans : Start(opt, span)
    \/ DaysPass \/ BeginYear \/ EndRun
    \/ \E some \in SUBSET {s \in DateStrs : years # {} /\ s[1] = Year} : Wget(some)
    \/ BeginDays \/ NoData \/ Prepare \/ Convert \/ EndYear
    \/ Interrupt

-----------------------------------------------------------------------------
UpdateTypeOK ==
    /\ today \in Today
    /\ pc \in {"idle", "year", "wget", "day", "convert"}
    /\ runs \in 0 .. MaxRuns
    /\ years \subseteq Years /\ Range(sources) \subseteq Sources
    /\ doy \in Nat /\ lastDoy \in 0 .. 366
    /\ \A y \in Years : dload[y] \subseteq File
    /\ pc = "convert" <=> tomsfile # NoToms
    /\ hdf \in [Days -> Sources \union {"NIMBUS7", NoFile, "incomplete"}]

(* "Existing EP/TOMS HDF files are removed before processing data for that *)
(* year and DOY, but only if the downloaded ancillary data exists for that *)
(* date": what a step takes from a day, or puts in its place, it takes     *)
(* while the run under way has its own download for that date.             *)
RemovedOnlyWithData ==
    [][\A d \in Days : hdf'[d] # hdf[d] =>
         \E f \in dload[d[1]] : f.date = DateStr(d) /\ f.run = runs]_updateVars

(* What a run converts for a day is the file of the instrument that comes  *)
(* first in the order of resolveFile, among those this run downloaded for  *)
(* the date, and never a file an earlier run left behind.                  *)
BestOfThisRun ==
    \A d \in Days : (pc = "convert" /\ d = <<Year, doy>>) =>
        /\ tomsfile.run = runs /\ tomsfile.date = DateStr(d)
        /\ \A f \in dload[Year] : f.date = DateStr(d) =>
              \/ f.source = tomsfile.source
              \/ <<tomsfile.source, f.source>> \in
                   {<<"OMI", "EARTHPROBE">>, <<"METEOR3", "NIMBUS">>}
=============================================================================
