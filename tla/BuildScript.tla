---------------------------- MODULE BuildScript ----------------------------
(***************************************************************************)
(* One run of scripts/deps_auto_build/build.sh: the options, the shell     *)
(* variables that the .build files assign, the install directories it      *)
(* exports, and the phases of e() for each package of the command line.    *)
(*                                                                         *)
(* A shell variable is abstracted to its PROVENANCE: the set of the .build *)
(* files whose assignments make up its value ({} when it is unset, several *)
(* files when an array was appended to by several).  A directory is        *)
(* identified by the variable that names it and the file that assigned it. *)
(* What an external command does beyond that is left out; each may fail,   *)
(* which ends the run (set -e, line 4).                                    *)
(***************************************************************************)
EXTENDS Naturals, Sequences, FiniteSets

CONSTANTS
  Files,        \* the .build files of the script's directory
  Words,        \* what may stand on the command line: Files and other words
  Osg,          \* osg.build, the arbitrary package of -g
  Defs,         \* Defs[f]: the variables f assigns on this platform
  Appends,      \* Appends[f]: those, arrays, that it appends to
  Clears,       \* Clears[f]: the variables it unsets
  InBase,       \* <<v, f>>: f makes v the directory BASE_DIR, or one that
                \* comes with it
  Names, Name,  \* Name[f]: the PACKAGE_NAME f assigns
  Retrieval,    \* Retrieval[f]: the SOURCE_RETRIEVAL_METHOD f assigns
  WorksIn,      \* WorksIn[f][ph]: where f's method for phase ph is run
  Configures,   \* files whose PREBUILD_METHOD is configure
  Overrides,    \* what BUILD_FILES_PATH may hold: sets of files of whose
                \* name there is one in that directory too
  Ves,          \* VES_PACKAGES: the sequence that -g installs
  Platform,
  OptionSets,   \* the combinations of options considered
  Lines,        \* the command lines considered, sequences of Words
  MaxFaults     \* bound on the external commands that fail in a run

Default == "default"            \* assigned by build.sh itself

\* What unsetvars() clears, and what it does not.
ResetVars == {"SOURCE_URL", "POST_RETRIEVAL_METHOD", "PREBUILD_METHOD",
              "BUILD_METHOD", "BUILD_DIR", "SKIP_PREBUILD",
              "SKIP_FPC_INSTALL", "POST_BUILD_METHOD", "ISS_FILENAME",
              "INNO_PARAMS", "VES_INSTALL_PARAMS"}
KeptVars  == {"PACKAGE_NAME", "BASE_DIR", "SOURCE_DIR", "INSTALL_DIR",
              "SOURCE_RETRIEVAL_METHOD", "SOURCE_FORMAT", "CONFIGURE"}
Vars      == ResetVars \cup KeptVars
\* Those that some .build file appends to.
Arrays    == {"SOURCE_URL", "POST_RETRIEVAL_METHOD", "POST_BUILD_METHOD",
              "INNO_PARAMS", "VES_INSTALL_PARAMS"}
\* Directories that a .build file names starting from ${BASE_DIR}.
Derived == {"SOURCE_DIR", "BUILD_DIR", "INSTALL_DIR"}
Options == {"k", "u", "p", "b", "c", "t", "d", "g", "F"}
WorkPhases == {"prebuild", "build", "clean"}
Places == {"SOURCE_DIR", "BUILD_DIR", "unsupported"}

ASSUME FilesAssumption ==
  /\ Files \subseteq Words /\ Osg \in Files /\ Default \notin Files
  /\ IsFiniteSet(Files)
  /\ Defs \in [Files -> SUBSET Vars]
  /\ Appends \in [Files -> SUBSET Arrays] /\ Clears \in [Files -> SUBSET Vars]
  /\ InBase \subseteq Derived \X Files
  /\ Name \in [Files -> Names]
  /\ Retrieval \in [Files -> {"wget", "git", "hg", "svn", "other"}]
  /\ WorksIn \in [Files -> [WorkPhases -> Places]]
  /\ Configures \subseteq Files /\ Overrides \subseteq SUBSET Files
\* True of each of the 94 files on each platform: it has a name, and what it
\* builds or installs goes to a BASE_DIR of its own.
ASSUME DescriptionAssumption ==
  \A f \in Files :
    /\ "PACKAGE_NAME" \in Defs[f]
    /\ {"BUILD_DIR", "INSTALL_DIR"} \cap Defs[f] # {} => "BASE_DIR" \in Defs[f]
ASSUME RunAssumption ==
  /\ Platform \in {"Linux", "Darwin", "Windows"}
  /\ OptionSets \subseteq SUBSET Options
  /\ Lines \subseteq Seq(Words)
  /\ Ves \in Seq(Words)
  /\ MaxFaults \in Nat

VARIABLES
  opts,      \* the options given
  line,      \* the words after them
  overridden, \* what BUILD_FILES_PATH holds
  pc,        \* where the run is
  todo,      \* build files a loop over BUILD_FILES has still to visit
  outcome,   \* how each word of work so far ended, in order
  env,       \* the provenance of each shell variable
  cwd,       \* PRESENT_DIR or somewhere else
  exists,    \* the directories that exist
  exports,   \* exports[n]: the files behind n_INSTALL_DIR
  ves,       \* the number of Ves that the -g loop has installed
  deps,      \* what was copied to DEPS_INSTALL_DIR, and on behalf of whom
  tags,      \* packages with a tag file in TAGS_DIR
  touched,   \* <<word, variable, file>>: a command for word used file's value
  faults,    \* external commands that failed
  status     \* exit status

vars == <<opts, line, overridden, pc, todo, outcome, env, cwd, exists, exports, ves, deps,
          tags, touched, faults, status>>
world == <<exists, exports, ves, deps, tags, touched>>
input == <<opts, line, overridden>>

Phases == {"checkout", "update", "prebuild", "build", "clean", "ctags",
           "installer", "auto", "autoloop"}

DirVars == {"BASE_DIR", "BUILD_DIR", "INSTALL_DIR"}
At(v, f) == <<IF <<v, f>> \in InBase THEN "BASE_DIR" ELSE v, f>>

Init ==
  /\ opts \in OptionSets /\ line \in Lines /\ overridden \in Overrides
  /\ pc = "validate" /\ todo = Files /\ outcome = << >>
  /\ env = [v \in Vars |-> {}]
  /\ cwd = "present"
  \* What earlier runs have left: nothing, or packages built and installed.
  /\ \E built \in SUBSET Files :
       exists = {At(x[1], x[2]) : x \in {y \in DirVars \X built : y[1] \in Defs[y[2]]}}
  /\ exports = [n \in Names |-> {}]
  /\ ves = 0 /\ deps = {} /\ touched = {}
  /\ tags \in {{}, Files}           \* the script itself never creates one
  /\ faults = 0 /\ status = 0

(***************************************************************************)
(* The words the loop of line 1157 runs e() on; -g runs it on osg.build.   *)
(***************************************************************************)
Work == IF "g" \in opts THEN <<Osg>> ELSE line
Pos  == Len(outcome) + 1
Word == Work[Pos]

(***************************************************************************)
(* Shell variables.                                                        *)
(***************************************************************************)
Unset(e) ==
  [v \in Vars |-> IF v \in {"SKIP_PREBUILD", "SKIP_FPC_INSTALL"} THEN {Default}
                  ELSE IF v \in ResetVars THEN {} ELSE e[v]]
\* Mutant: the .build files assign with ${v:=...}.
Source_IfUnset(e, f) ==
  [v \in Vars |-> IF v \notin Defs[f] \/ e[v] # {} THEN e[v] ELSE {f}]
Source(e, f) ==
  [v \in Vars |->
     IF v \notin Defs[f] THEN IF v \in Clears[f] THEN {} ELSE e[v]
     ELSE IF v \in Appends[f] THEN e[v] \cup {f}
     ELSE IF v \in Derived /\ "BASE_DIR" \notin Defs[f] THEN e["BASE_DIR"]
     ELSE {f}]
\* Mutant: INSTALL_DIR is given a default too.
Defaults_Install(e) == [e EXCEPT !["BUILD_METHOD"] = {Default},
                                 !["INSTALL_DIR"] = {Default}]
Defaults(e) == [e EXCEPT !["BUILD_METHOD"] = {Default}]

IsSet(v)   == env[v] # {}
Owner(v)   == CHOOSE f \in env[v] : TRUE
Dir(v)     == At(v, Owner(v))
There(v)   == IsSet(v) /\ Dir(v) \in exists
Uses(v)    == {<<Word, v, f>> : f \in env[v]}

\* The paths of a name found in both directories run together (line 435).
Readable(w) == w \in Files \ overridden

(***************************************************************************)
(* How a step ends: go on; die of a command that failed; return from e().  *)
(***************************************************************************)
Goto(l)   == pc' = l /\ UNCHANGED <<outcome, faults, status>>
Exit(s)   == pc' = "exited" /\ status' = s
Dies      == Exit(1) /\ UNCHANGED <<outcome, faults>>
\* Mutant: without set -e a failure ends the package, not the run.
Fails_GoesOn == /\ faults < MaxFaults /\ faults' = faults + 1
                /\ pc' = "next" /\ outcome' = Append(outcome, "skipped")
                /\ UNCHANGED status
Fails     == /\ faults < MaxFaults /\ faults' = faults + 1
             /\ Exit(1) /\ UNCHANGED outcome
\* Mutant: the loop does not move on to the next word.
Returns_Again(o) == pc' = "next" /\ UNCHANGED <<outcome, faults, status>>
Returns(o) == /\ pc' = "next" /\ outcome' = Append(outcome, o)
              /\ UNCHANGED <<faults, status>>

(***************************************************************************)
(* -F: findvaliddeps, one file of the loop at a time, no unsetvars.        *)
(***************************************************************************)
ValidateOne(f) ==
  LET e == Source(env, f)
      installed == e["INSTALL_DIR"] # {}
                   /\ \E g \in e["INSTALL_DIR"] : At("INSTALL_DIR", g) \in exists
      item == IF Platform = "Windows" THEN "ISS_FILENAME" ELSE "INSTALL_DIR"
  IN
  /\ pc = "validate" /\ "F" \in opts /\ f \in todo
  /\ todo' = todo \ {f}
  /\ \/ ~Readable(f) /\ Dies /\ UNCHANGED <<env, deps>>
     \/ Readable(f) /\ env' = e /\ ~installed
        /\ Goto("validate") /\ UNCHANGED deps
     \/ Readable(f) /\ env' = e /\ installed /\ e[item] = {}
        /\ Goto("args") /\ UNCHANGED deps           \* ISS_FILENAME undefined
     \/ Readable(f) /\ env' = e /\ installed /\ e[item] # {}
        /\ \/ Goto("validate") /\ deps' = deps \cup {<<f, g>> : g \in e[item]}
           \/ Fails /\ UNCHANGED deps
  /\ UNCHANGED <<input, cwd, exists, exports, ves, tags, touched>>

Validate == \E f \in todo : ValidateOne(f)

EndValidate ==
  /\ pc = "validate" /\ ("F" \in opts => todo = {})
  /\ Goto("args")
  /\ UNCHANGED <<input, todo, env, cwd, world>>

\* bye without a package, unless -g gives one.
CheckArguments ==
  /\ pc = "args"
  /\ \/ line = << >> /\ "g" \notin opts /\ Dies
     \/ line # << >> /\ "g" \notin opts /\ Goto("exports")
     \/ "g" \in opts /\ Goto("next")
  /\ todo' = Files
  /\ UNCHANGED <<input, env, cwd, world>>

(***************************************************************************)
(* export_config_vars: every build file, in the order of a hash table.     *)
(***************************************************************************)
\* Mutant: the line is written before the file is sourced.
ExportOne_Late(f) ==
  LET e == Source(Unset(env), f) IN
  /\ pc = "exports" /\ f \in todo
  /\ todo' = todo \ {f}
  /\ \/ ~Readable(f) /\ Dies /\ UNCHANGED <<env, exports>>
     \/ /\ Readable(f) /\ Goto("exports") /\ env' = e
        /\ exports' = [n \in Names |-> IF \E g \in e["PACKAGE_NAME"] : Name[g] = n
                                       THEN env["INSTALL_DIR"] ELSE exports[n]]
  /\ UNCHANGED <<input, cwd, exists, ves, deps, tags, touched>>

ExportOne(f) ==
  LET e == Source(Unset(env), f) IN
  /\ pc = "exports" /\ f \in todo
  /\ todo' = todo \ {f}
  /\ \/ ~Readable(f) /\ Dies /\ UNCHANGED <<env, exports>>
     \/ /\ Readable(f) /\ Goto("exports") /\ env' = e
        /\ exports' = [n \in Names |-> IF \E g \in e["PACKAGE_NAME"] : Name[g] = n
                                       THEN e["INSTALL_DIR"] ELSE exports[n]]
  /\ UNCHANGED <<input, cwd, exists, ves, deps, tags, touched>>

Export == \E f \in todo : ExportOne(f)

EndExports ==
  /\ pc = "exports" /\ todo = {}
  /\ Goto("next")
  /\ UNCHANGED <<input, todo, env, cwd, world>>

(***************************************************************************)
(* The main loop and the head of e().                                      *)
(***************************************************************************)
\* Mutant: e() without unsetvars.
NextWord_NoUnset ==
  /\ pc = "next" /\ Pos <= Len(Work)
  /\ cwd' = IF "g" \in opts THEN cwd ELSE "present"
  /\ \/ /\ ~(Readable(Word) /\ cwd' = "present")
        /\ Returns("not a package") /\ UNCHANGED env
     \/ /\ Readable(Word) /\ cwd' = "present"
        /\ env' = Source(Defaults(env), Word)
        /\ IF env'["BASE_DIR"] = {} THEN Returns("skipped") ELSE Goto("checkout")
  /\ UNCHANGED <<input, todo, world>>

\* Mutant: the loop without cd "${PRESENT_DIR}".
NextWord_NoCd ==
  /\ pc = "next" /\ Pos <= Len(Work)
  /\ UNCHANGED cwd
  /\ \/ /\ ~(Readable(Word) /\ cwd = "present")
        /\ Returns("not a package") /\ UNCHANGED env
     \/ /\ Readable(Word) /\ cwd = "present"
        /\ env' = Source(Defaults(Unset(env)), Word)
        /\ IF env'["BASE_DIR"] = {} THEN Returns("skipped") ELSE Goto("checkout")
  /\ UNCHANGED <<input, todo, world>>

NextWord ==
  /\ pc = "next" /\ Pos <= Len(Work)
  /\ cwd' = IF "g" \in opts THEN cwd ELSE "present"
  /\ \/ /\ ~(Readable(Word) /\ cwd' = "present")
        /\ Returns("not a package") /\ UNCHANGED env
     \/ /\ Readable(Word) /\ cwd' = "present"
        /\ env' = Source(Defaults(Unset(env)), Word)
        /\ IF env'["BASE_DIR"] = {} THEN Returns("skipped") ELSE Goto("checkout")
  /\ UNCHANGED <<input, todo, world>>

Finish ==
  /\ pc = "next" /\ Pos > Len(Work)
  /\ Exit(0) /\ UNCHANGED <<outcome, faults>>
  /\ UNCHANGED <<input, todo, env, cwd, world>>

(***************************************************************************)
(* source_retrieval as its caller sees it: what becomes of BASE_DIR.       *)
(* "refused" is a failure that is certain: the destination of a clone      *)
(* exists, or there is no URL.                                             *)
(***************************************************************************)
Retrieved(method, there, url) ==
  IF method = "other" THEN {"unchanged"}
  ELSE IF method = "wget" /\ there THEN {"unchanged"}
  ELSE IF ~url \/ (there /\ method \in {"git", "hg"}) THEN {"refused"}
  ELSE IF method = "wget" THEN {"there", "unchanged", "fails"}
  ELSE {"there", "fails"}

\* Only what is downloaded has to be unpacked.
UsesFormat(method) ==
  IF method = "wget" /\ ~There("BASE_DIR") THEN Uses("SOURCE_FORMAT") ELSE {}

Retrieve(next) ==
  LET method == Retrieval[Owner("SOURCE_RETRIEVAL_METHOD")] IN
  \E r \in Retrieved(method, There("BASE_DIR"), IsSet("SOURCE_URL")) :
    /\ \/ r \in {"there", "unchanged"} /\ Goto(next)
       \/ r = "refused" /\ Dies
       \/ r = "fails" /\ Fails
    /\ exists' = IF r = "there" THEN exists \cup {Dir("BASE_DIR")} ELSE exists
    /\ touched' = touched \cup Uses("BASE_DIR") \cup UsesFormat(method)
    /\ cwd' = "away"

Checkout ==
  /\ pc = "checkout"
  /\ \/ /\ "k" \notin opts /\ Goto("update")
        /\ UNCHANGED <<cwd, exists, touched>>
     \/ /\ "k" \in opts /\ ~(IsSet("SOURCE_URL") /\ IsSet("SOURCE_RETRIEVAL_METHOD"))
        /\ Returns("skipped") /\ UNCHANGED <<cwd, exists, touched>>
     \/ /\ "k" \in opts /\ IsSet("SOURCE_URL") /\ IsSet("SOURCE_RETRIEVAL_METHOD")
        /\ Retrieve("post")
  /\ UNCHANGED <<input, todo, env, exports, ves, deps, tags>>

PostRetrieval ==
  /\ pc = "post"
  /\ \/ /\ ~IsSet("POST_RETRIEVAL_METHOD") /\ Goto("update")
        /\ UNCHANGED touched
     \/ /\ IsSet("POST_RETRIEVAL_METHOD")
        /\ IsSet("SOURCE_DIR") /\ ~There("SOURCE_DIR") /\ Dies
        /\ UNCHANGED touched
     \/ /\ IsSet("POST_RETRIEVAL_METHOD")
        /\ IsSet("SOURCE_DIR") => There("SOURCE_DIR")
        /\ touched' = touched \cup Uses("SOURCE_DIR")
                              \cup Uses("POST_RETRIEVAL_METHOD")
        /\ Goto("update") \/ Fails
  /\ UNCHANGED <<input, todo, env, cwd, exists, exports, ves, deps, tags>>

\* An empty SOURCE_URL is reported but does not stop the branch: the return
\* of lines 710, 723 and 735 leaves a subshell, not e().
Update ==
  LET m == Retrieval[Owner("SOURCE_RETRIEVAL_METHOD")] IN
  /\ pc = "update"
  /\ \/ /\ "u" \notin opts /\ Goto("prebuild")
        /\ UNCHANGED <<cwd, exists, touched>>
     \/ /\ "u" \in opts /\ ~IsSet("SOURCE_RETRIEVAL_METHOD")
        /\ Returns("skipped") /\ UNCHANGED <<cwd, exists, touched>>
     \/ /\ "u" \in opts /\ IsSet("SOURCE_RETRIEVAL_METHOD")
        /\ m \in {"wget", "other"} /\ Goto("prebuild")
        /\ UNCHANGED <<cwd, exists, touched>>
     \/ /\ "u" \in opts /\ IsSet("SOURCE_RETRIEVAL_METHOD")
        /\ m \in {"svn", "hg", "git"} /\ There("BASE_DIR")
        /\ Goto("prebuild") \/ Fails
        /\ touched' = touched \cup Uses("BASE_DIR")
        /\ cwd' = "away" /\ UNCHANGED exists
     \/ /\ "u" \in opts /\ IsSet("SOURCE_RETRIEVAL_METHOD")
        /\ m \in {"svn", "hg", "git"} /\ ~There("BASE_DIR")
        /\ Retrieve("prebuild")
  /\ UNCHANGED <<input, todo, env, exports, ves, deps, tags>>

(***************************************************************************)
(* The working phases.  Place is where the method of a phase is run: the   *)
(* defaults for BUILD_METHOD, make and cmake, work in BUILD_DIR.           *)
(***************************************************************************)
Place(v, ph) == IF ~IsSet(v) THEN "unsupported"
                ELSE IF Owner(v) = Default THEN "BUILD_DIR" ELSE WorksIn[Owner(v)][ph]
Runs(v, ph)  == IF Place(v, ph) = "unsupported" THEN {}
                ELSE Uses(v) \cup Uses(Place(v, ph))

SkipPrebuild == env["SKIP_PREBUILD"] # {Default}
Buildable(v) == /\ IsSet("BUILD_DIR") /\ IsSet(v) /\ IsSet("SOURCE_DIR")
                /\ There("SOURCE_DIR")

Prebuild ==
  /\ pc = "prebuild"
  /\ \/ /\ "p" \notin opts \/ SkipPrebuild
        /\ Goto("build") /\ UNCHANGED <<cwd, exists, touched>>
     \/ /\ "p" \in opts /\ ~SkipPrebuild /\ ~Buildable("PREBUILD_METHOD")
        /\ Returns("skipped") /\ UNCHANGED <<cwd, exists, touched>>
     \/ /\ "p" \in opts /\ ~SkipPrebuild /\ Buildable("PREBUILD_METHOD")
        /\ exists' = exists \cup {Dir("BUILD_DIR")}       \* mkdir -p
        /\ touched' = touched \cup Runs("PREBUILD_METHOD", "prebuild")
             \cup IF Owner("PREBUILD_METHOD") \in Configures
                  THEN Uses("CONFIGURE") ELSE {}
        /\ \/ Goto("build")
           \/ Place("PREBUILD_METHOD", "prebuild") # "unsupported" /\ Fails
        /\ cwd' = "away"
  /\ UNCHANGED <<input, todo, env, exports, ves, deps, tags>>

\* The method, the fpc file, POST_BUILD_METHOD.
InstallsFpc == env["SKIP_FPC_INSTALL"] # {Default}

Build ==
  /\ pc = "build"
  /\ \/ /\ "b" \notin opts
        /\ Goto("clean") /\ UNCHANGED <<cwd, exists, touched>>
     \/ /\ "b" \in opts /\ ~Buildable("BUILD_METHOD")
        /\ Returns("skipped") /\ UNCHANGED <<cwd, exists, touched>>
     \/ /\ "b" \in opts /\ Buildable("BUILD_METHOD")
        /\ \E installs \in BOOLEAN :     \* the target created INSTALL_DIR
             /\ installs => Place("BUILD_METHOD", "build") # "unsupported"
             /\ \/ Goto("clean")
                \/ /\ Fails
                   /\ \/ Place("BUILD_METHOD", "build") # "unsupported"
                      \/ InstallsFpc \/ IsSet("POST_BUILD_METHOD")
             /\ exists' = exists \cup {Dir("BUILD_DIR")} \cup
                  IF (installs \/ InstallsFpc) /\ IsSet("INSTALL_DIR")
                  THEN {Dir("INSTALL_DIR")} ELSE {}
             /\ touched' = touched \cup Runs("BUILD_METHOD", "build")
                  \cup (IF installs \/ InstallsFpc THEN Uses("INSTALL_DIR") ELSE {})
                  \cup Uses("POST_BUILD_METHOD")
        /\ cwd' = "away"
  /\ UNCHANGED <<input, todo, env, exports, ves, deps, tags>>

Clean ==
  /\ pc = "clean"
  /\ \/ /\ "c" \notin opts /\ Goto("ctags") /\ UNCHANGED <<cwd, touched>>
     \/ /\ "c" \in opts /\ ~There("BUILD_DIR")
        /\ Returns("skipped") /\ UNCHANGED <<cwd, touched>>
     \/ /\ "c" \in opts /\ There("BUILD_DIR")
        /\ touched' = touched \cup Runs("BUILD_METHOD", "clean")
        /\ \/ Goto("ctags")
           \/ Place("BUILD_METHOD", "clean") # "unsupported" /\ Fails
        /\ cwd' = "away"
  /\ UNCHANGED <<input, todo, env, exists, exports, ves, deps, tags>>

\* rm without -f: no tag file from an earlier time ends the run.
Ctags ==
  /\ pc = "ctags"
  /\ \/ "t" \notin opts /\ Goto("installer") /\ UNCHANGED <<cwd, touched>>
     \/ /\ "t" \in opts /\ ~There("INSTALL_DIR")
        /\ Dies /\ UNCHANGED <<cwd, touched>>
     \/ /\ "t" \in opts /\ There("INSTALL_DIR")
        /\ \/ Fails
           \/ Word \in tags /\ Goto("installer")
           \/ Word \notin tags /\ Dies
        /\ touched' = touched \cup Uses("INSTALL_DIR")
        /\ cwd' = "away"
  /\ UNCHANGED <<input, todo, env, exists, exports, ves, deps, tags>>

\* Mutant: a package without an INSTALL_DIR ends the run.
Installer_Exits ==
  /\ pc = "installer"
  /\ \/ "d" \notin opts /\ Goto("auto") /\ UNCHANGED <<cwd, touched>>
     \/ /\ "d" \in opts /\ ~There("INSTALL_DIR")
        /\ Dies /\ UNCHANGED <<cwd, touched>>
     \/ /\ "d" \in opts /\ There("INSTALL_DIR")
        /\ Goto("auto") \/ Fails
        /\ touched' = touched \cup Uses("INSTALL_DIR") \cup Uses("BASE_DIR")
        /\ cwd' = "away"
  /\ UNCHANGED <<input, todo, env, exists, exports, ves, deps, tags>>

\* -d, -z: tar or zip of INSTALL_DIR, named after BASE_DIR.
Installer ==
  /\ pc = "installer"
  /\ \/ "d" \notin opts /\ Goto("auto") /\ UNCHANGED <<cwd, touched>>
     \/ /\ "d" \in opts /\ ~There("INSTALL_DIR")
        /\ Returns("skipped") /\ UNCHANGED <<cwd, touched>>
     \/ /\ "d" \in opts /\ There("INSTALL_DIR")
        /\ Goto("auto") \/ Fails
        /\ touched' = touched \cup Uses("INSTALL_DIR") \cup Uses("BASE_DIR")
        /\ cwd' = "away"
  /\ UNCHANGED <<input, todo, env, exists, exports, ves, deps, tags>>

AutoInstaller ==
  /\ pc = "auto"
  /\ \/ "g" \notin opts /\ Returns("done") /\ UNCHANGED deps
     \/ /\ "g" \in opts /\ ~There("INSTALL_DIR")
        /\ Returns("skipped") /\ UNCHANGED deps
     \/ /\ "g" \in opts /\ There("INSTALL_DIR")
        /\ Platform = "Windows"
        /\ \/ ~IsSet("ISS_FILENAME") /\ Returns("skipped") /\ UNCHANGED deps
           \/ /\ IsSet("ISS_FILENAME") /\ Returns("done")
              /\ deps' = deps \cup {<<Word, f>> : f \in env["ISS_FILENAME"]}
           \/ IsSet("ISS_FILENAME") /\ Fails /\ UNCHANGED deps
     \/ /\ "g" \in opts /\ There("INSTALL_DIR")
        /\ Platform # "Windows" /\ Goto("autoloop") /\ UNCHANGED deps
  /\ UNCHANGED <<input, todo, env, cwd, exists, exports, ves, tags, touched>>

\* One package of VES_PACKAGES; the last iteration returns from e().
AutoLoop ==
  LET f == Ves[ves + 1]
      e == Source(Unset(env), f)
      dir == e["INSTALL_DIR"]
  IN
  /\ pc = "autoloop" /\ cwd' = "present"
  /\ \/ /\ ves = Len(Ves) /\ Returns("done") /\ UNCHANGED <<env, ves, deps>>
     \/ /\ ves < Len(Ves) /\ f \notin Files        \* no such .build file
        /\ Dies /\ UNCHANGED <<env, ves, deps>>
     \/ /\ ves < Len(Ves) /\ f \in Files /\ env' = e
        /\ e["VES_INSTALL_PARAMS"] = {}
        /\ Goto("autoloop") /\ ves' = ves + 1 /\ UNCHANGED deps
     \/ /\ ves < Len(Ves) /\ f \in Files /\ env' = e
        /\ e["VES_INSTALL_PARAMS"] # {}
        /\ \/ /\ \A g \in dir : At("INSTALL_DIR", g) \notin exists
              /\ Dies /\ UNCHANGED <<ves, deps>>     \* cd fails
           \/ /\ dir = {}            \* cd "" stays, and rsync fails or finds
              /\ Goto("autoloop")    \* something else there
              /\ ves' = ves + 1 /\ UNCHANGED deps
           \/ /\ \E g \in dir : At("INSTALL_DIR", g) \in exists
              /\ \/ /\ Goto("autoloop") /\ ves' = ves + 1
                    /\ deps' = deps \cup {<<f, g>> : g \in dir}
                 \/ Fails /\ UNCHANGED <<ves, deps>>
  /\ UNCHANGED <<input, todo, exists, exports, tags, touched>>

Next ==
  \/ Validate \/ EndValidate \/ CheckArguments \/ Export \/ EndExports
  \/ NextWord \/ Finish \/ Checkout \/ PostRetrieval \/ Update \/ Prebuild
  \/ Build \/ Clean \/ Ctags \/ Installer \/ AutoInstaller \/ AutoLoop

Spec == Init /\ [][Next]_vars
\* The shell goes on while its commands return.
FairSpec == Spec /\ WF_vars(Next)

----------------------------------------------------------------------------
TypeOK ==
  /\ opts \in OptionSets /\ line \in Lines /\ overridden \in Overrides
  /\ pc \in Phases \cup {"validate", "args", "exports", "next", "post", "exited"}
  /\ todo \subseteq Files
  /\ outcome \in Seq({"done", "skipped", "not a package"})
  /\ env \in [Vars -> SUBSET (Files \cup {Default})]
  /\ cwd \in {"present", "away"}
  /\ exists \subseteq DirVars \X Files
  /\ exports \in [Names -> SUBSET Files]
  /\ ves \in 0 .. Len(Ves)
  /\ deps \subseteq Words \X Files
  /\ tags \subseteq Files
  /\ touched \subseteq Words \X Vars \X (Files \cup {Default})
  /\ faults \in 0 .. MaxFaults
  /\ status \in {0, 1}

(***************************************************************************)
(* Files that assign every variable unsetvars() leaves alone and that      *)
(* their package's commands use.                                           *)
(***************************************************************************)
KeptByAll == KeptVars \ {"CONFIGURE", "SOURCE_FORMAT"}
Specified(w) ==
  /\ w \in Files
  /\ KeptByAll \subseteq Defs[w]
  /\ w \in Configures => "CONFIGURE" \in Defs[w]
  /\ Retrieval[w] = "wget" => "SOURCE_FORMAT" \in Defs[w]

(* While a package is worked on, no variable that unsetvars() clears       *)
(* carries anything from another build file, though -F and the export loop *)
(* have sourced all of them, in any order, and earlier packages too.       *)
Current == IF pc = "autoloop" /\ ves > 0 THEN Ves[ves] ELSE Word
ResetIsolation ==
  pc \in Phases \cup {"post"} =>
    \A v \in ResetVars : env[v] \subseteq {Current, Default}

(* A command run for a fully specified package works with that package's   *)
(* own directories and values only; a file that names what is installed    *)
(* gets its own installed.                                                 *)
Item == IF Platform = "Windows" THEN "ISS_FILENAME" ELSE "INSTALL_DIR"
OwnValues ==
  /\ \A t \in touched : Specified(t[1]) => t[3] \in {t[1], Default}
  /\ \A d \in deps : d[1] \in Files /\ Item \in Defs[d[1]] => d[2] = d[1]

(* Line 1131: after the loop over all build files, in whatever order,      *)
(* n_INSTALL_DIR is the directory of the package of that name, for the     *)
(* files that assign both and share the name with no other.                *)
OwnName(f) == \A g \in Files : Name[g] = Name[f] => g = f
ExportedAll == pc \in Phases \cup {"post", "next"} /\ "g" \notin opts
ExportsOwn ==
  ExportedAll =>
    \A f \in Files : {"PACKAGE_NAME", "INSTALL_DIR"} \subseteq Defs[f] /\ OwnName(f)
                       => exports[Name[f]] = {f}

(* A word is passed over as "not a package" only if it is none, or if its  *)
(* two build files hide each other; never because of what the packages     *)
(* before it did to the working directory.                                 *)
NoPackageMissed ==
  \A i \in 1 .. Len(outcome) : outcome[i] = "not a package" => ~Readable(Work[i])

(* Exit status 0 means that no command failed and every word was dealt     *)
(* with, and of -g that everything to be installed was, from its own       *)
(* directory.                                                              *)
HonestStatus ==
  pc = "exited" /\ status = 0 =>
    /\ faults = 0
    /\ Len(outcome) = Len(Work)
    /\ "g" \in opts /\ outcome = <<"done">> /\ Platform # "Windows" =>
         \A i \in 1 .. Len(Ves) :
           {"VES_INSTALL_PARAMS", "INSTALL_DIR"} \subseteq Defs[Ves[i]]
             => <<Ves[i], Ves[i]>> \in deps

(* With -p, -b, -c and -d, and words to work on, only a command that fails *)
(* ends the run early: what is missing skips its package and no more.      *)
OnlyFaultsEndRun ==
  pc = "exited" /\ faults = 0 /\ opts \subseteq {"p", "b", "c", "d"}
  /\ line # << >> /\ overridden = {} => status = 0

(* Every run ends, if the commands it calls do.                            *)
Termination == <>(pc = "exited")

----------------------------------------------------------------------------
(* What a comment says without the conditions above.                       *)

(* Line 1133: "Export the install directories for build dependencies".     *)
ExportsAlwaysOwn == ExportedAll => \A f \in Files : exports[Name[f]] \subseteq {f}
=============================================================================
