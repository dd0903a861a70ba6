------------------------- MODULE BuildScript_proofs -------------------------
(***************************************************************************)
(* Proofs about BuildScript, for any build files that satisfy the          *)
(* assumptions, any command line, options and number of faults: whose      *)
(* values commands use and what is exported, in whatever order the loops   *)
(* visit the files, and what the exit status means.                        *)
(***************************************************************************)
EXTENDS BuildScript, TLAPS

Running   == Phases \cup {"post"}
InPackage == Running \ {"autoloop"}
Before    == {"validate", "args", "exports"}
\* What build.sh itself assigns, and so a Default can be in.
DefaultVars == {"SKIP_PREBUILD", "SKIP_FPC_INSTALL", "BUILD_METHOD"}

\* Words dealt with, and words there are.
Done  == Len(outcome)
Total == Len(Work)
Outcomes == {"done", "skipped", "not a package"}

(***************************************************************************)
(* The invariant.  Place in the run: what pc, outcome, cwd, ves and status *)
(* say of one another.                                                     *)
(***************************************************************************)
Control ==
  /\ pc # "exited" => status = 0
  /\ status = 0 => faults = 0
  /\ pc \in Running => Done < Total /\ Readable(Word)
  /\ Done <= Total
  /\ pc = "exited" /\ status = 0 => Done = Total
  /\ pc \in Before => Done = 0
  /\ pc \in Before \/ (pc = "next" /\ Done = 0) => cwd = "present"
  /\ pc = "exports" => "g" \notin opts
  /\ pc = "post" => "k" \in opts
  /\ pc = "autoloop" => "g" \in opts /\ Platform # "Windows"
  /\ "g" \notin opts => ves = 0
  /\ ves > 0 => pc \in {"autoloop", "exited"} \/ Done > 0

\* Values of the shell e of f alone.
Pure(e, f) ==
  /\ \A v \in ResetVars : e[v] \subseteq {f, Default}
  /\ Specified(f) => \A v \in KeptByAll : e[v] = {f}
  /\ Specified(f) /\ Retrieval[f] = "wget" => e["SOURCE_FORMAT"] = {f}
  /\ Specified(f) /\ f \in Configures => e["CONFIGURE"] = {f}
Undefaulted(e) == \A v \in Vars \ DefaultVars : Default \notin e[v]
Shell ==
  /\ Undefaulted(env)
  /\ pc \in InPackage => IsSet("BASE_DIR") /\ Pure(env, Word)
  /\ pc = "autoloop" /\ ves = 0 => Pure(env, Word)
  /\ pc = "autoloop" /\ ves > 0 => Pure(env, Ves[ves])

\* What the export loop has done so far, once it is past f.
Exported ==
  (pc = "exports" \/ ExportedAll) =>
    \A f \in Files :
      /\ {"PACKAGE_NAME", "INSTALL_DIR"} \subseteq Defs[f] /\ OwnName(f)
      /\ pc = "exports" => f \notin todo
      => exports[Name[f]] = {f}

\* What the -g loop has done so far.
VesDone(i) == {"VES_INSTALL_PARAMS", "INSTALL_DIR"} \subseteq Defs[Ves[i]]
                => <<Ves[i], Ves[i]>> \in deps
AllVes == ves = Len(Ves)
Gathered ==
  /\ \A i \in 1 .. ves : VesDone(i)
  /\ "g" \in opts /\ Done = 1 /\ outcome[1] = "done" /\ Platform # "Windows"
       => AllVes

IInv == /\ TypeOK /\ Control /\ Shell /\ Exported /\ Gathered
        /\ OwnValues /\ NoPackageMissed /\ OnlyFaultsEndRun

----------------------------------------------------------------------------
(***************************************************************************)
(* What sourcing a build file leaves in the shell.                         *)
(***************************************************************************)
Shells == [Vars -> SUBSET (Files \cup {Default})]

LEMMA SourceTypes ==
  ASSUME NEW e \in Shells, NEW f \in Files
  PROVE  Source(e, f) \in Shells /\ (Undefaulted(e) => Undefaulted(Source(e, f)))
<1>1. f # Default BY FilesAssumption
<1>2. "BASE_DIR" \in Vars \ DefaultVars BY DEF Vars, KeptVars, DefaultVars
<1>3. Source(e, f) \in Shells
  BY <1>2 DEF Source, Shells
<1>4. ASSUME Undefaulted(e), NEW v \in Vars \ DefaultVars
      PROVE  Default \notin Source(e, f)[v]
  BY <1>1, <1>2, <1>4 DEF Source, Undefaulted
<1> QED BY <1>3, <1>4 DEF Undefaulted

LEMMA UnsetTypes ==
  ASSUME NEW e \in Shells, Undefaulted(e)
  PROVE  /\ Unset(e) \in Shells /\ Defaults(Unset(e)) \in Shells
         /\ Undefaulted(Unset(e)) /\ Undefaulted(Defaults(Unset(e)))
         /\ \A v \in ResetVars : Unset(e)[v] \subseteq {Default}
         /\ \A v \in ResetVars : Defaults(Unset(e))[v] \subseteq {Default}
<1>1. ResetVars \subseteq Vars /\ DefaultVars \subseteq ResetVars
  BY DEF Vars, ResetVars, DefaultVars
<1>2. Unset(e) \in Shells BY DEF Unset, Shells
<1>3. Undefaulted(Unset(e)) BY <1>1 DEF Unset, Undefaulted, DefaultVars
<1>4. \A v \in ResetVars : Unset(e)[v] \subseteq {Default} BY <1>1 DEF Unset
<1>5. /\ Defaults(Unset(e)) \in Shells
      /\ \A v \in Vars : Defaults(Unset(e))[v] =
           IF v = "BUILD_METHOD" THEN {Default} ELSE Unset(e)[v]
  BY <1>2 DEF Defaults, Shells
<1> QED BY <1>1, <1>2, <1>3, <1>4, <1>5 DEF Undefaulted, DefaultVars

\* Single values that no file appends to and that need no directory.
LEMMA SourceOwn ==
  ASSUME NEW e \in Shells, NEW f \in Files
  PROVE  /\ Source(e, f)["PACKAGE_NAME"] = {f}
         /\ "INSTALL_DIR" \in Defs[f] => Source(e, f)["INSTALL_DIR"] = {f}
         /\ "ISS_FILENAME" \in Defs[f] => Source(e, f)["ISS_FILENAME"] = {f}
         /\ "VES_INSTALL_PARAMS" \in Defs[f] => Source(e, f)["VES_INSTALL_PARAMS"] # {}
<1>1. {"PACKAGE_NAME", "INSTALL_DIR", "ISS_FILENAME", "VES_INSTALL_PARAMS"} \subseteq Vars
  BY DEF Vars, KeptVars, ResetVars
<1>2. Appends[f] \subseteq Arrays BY FilesAssumption
<1>3. /\ "PACKAGE_NAME" \in Defs[f]
      /\ "INSTALL_DIR" \in Defs[f] => "BASE_DIR" \in Defs[f]
  BY DescriptionAssumption
<1> QED BY <1>1, <1>2, <1>3 DEF Source, Arrays, Derived

LEMMA SourcePure ==
  ASSUME NEW e \in Shells, NEW f \in Files,
         \A v \in ResetVars : e[v] \subseteq {Default}
  PROVE  Pure(Source(e, f), f)
<1>1. ResetVars \subseteq Vars /\ KeptVars \subseteq Vars BY DEF Vars
<1>2. Appends[f] \subseteq Arrays BY FilesAssumption
<1>3. "BUILD_DIR" \in Defs[f] => "BASE_DIR" \in Defs[f] BY DescriptionAssumption
<1>4. ASSUME NEW v \in ResetVars PROVE Source(e, f)[v] \subseteq {f, Default}
  <2>1. v \in Derived => v = "BUILD_DIR" BY DEF ResetVars, Derived
  <2> QED BY <1>1, <1>3, <2>1 DEF Source
<1>5. KeptVars \cap Arrays = {} BY DEF KeptVars, Arrays
<1>6. ASSUME Specified(f), NEW v \in KeptByAll
      PROVE  Source(e, f)[v] = {f}
  <2>1. v \in KeptVars /\ v \in Defs[f] /\ "BASE_DIR" \in Defs[f]
    BY <1>6 DEF Specified, KeptByAll, KeptVars
  <2> QED BY <1>1, <1>2, <1>5, <2>1 DEF Source
<1>7. ASSUME Specified(f), f \in Configures PROVE Source(e, f)["CONFIGURE"] = {f}
  <2>1. "CONFIGURE" \in Defs[f] /\ "CONFIGURE" \in KeptVars \ Derived
    BY <1>7 DEF Specified, KeptVars, Derived
  <2> QED BY <1>1, <1>2, <1>5, <2>1 DEF Source
<1>8. ASSUME Specified(f), Retrieval[f] = "wget"
      PROVE  Source(e, f)["SOURCE_FORMAT"] = {f}
  <2>1. "SOURCE_FORMAT" \in Defs[f] /\ "SOURCE_FORMAT" \in KeptVars \ Derived
    BY <1>8 DEF Specified, KeptVars, Derived
  <2> QED BY <1>1, <1>2, <1>5, <2>1 DEF Source
<1> QED BY <1>4, <1>6, <1>7, <1>8 DEF Pure

(***************************************************************************)
(* The words to work on.                                                   *)
(***************************************************************************)
LEMMA LenNat ==
  ASSUME NEW S, NEW s \in Seq(S)
  PROVE  Len(s) \in Nat
OBVIOUS

LEMMA WorkTypes ==
  ASSUME TypeOK
  PROVE  /\ Work \in Seq(Words) /\ Total \in Nat /\ Done \in Nat
         /\ Pos = Done + 1
         /\ Done < Total => Word \in Words
         /\ "g" \in opts => Work = <<Osg>> /\ Total = 1
<1>1. Work \in Seq(Words)
  <2>1. line \in Seq(Words) BY RunAssumption DEF TypeOK
  <2>2. <<Osg>> \in Seq(Words) BY FilesAssumption
  <2> QED BY <2>1, <2>2 DEF Work
<1>2. outcome \in Seq({"done", "skipped", "not a package"}) BY DEF TypeOK
<1>3. Total \in Nat /\ Done \in Nat BY <1>1, <1>2, LenNat DEF Total, Done
<1>4. Pos = Done + 1 BY DEF Pos, Done
<1>5. ASSUME Done < Total PROVE Word \in Words
  <2>1. Pos \in 1 .. Total BY <1>3, <1>4, <1>5
  <2> QED BY <1>1, <2>1 DEF Word, Total
<1>6. Len(<<Osg>>) = 1 OBVIOUS
<1>7. "g" \in opts => Work = <<Osg>> /\ Total = 1 BY <1>6 DEF Work, Total
<1> QED BY <1>1, <1>3, <1>4, <1>5, <1>7

LEMMA AppendFacts ==
  ASSUME NEW S, NEW s \in Seq(S), NEW o \in S
  PROVE  /\ Append(s, o) \in Seq(S) /\ Len(Append(s, o)) = Len(s) + 1
         /\ \A i \in 1 .. Len(s) : Append(s, o)[i] = s[i]
         /\ Append(s, o)[Len(s) + 1] = o
OBVIOUS

LEMMA AppendOutcome ==
  ASSUME TypeOK, NEW o \in {"done", "skipped", "not a package"},
         outcome' = Append(outcome, o)
  PROVE  /\ outcome' \in Seq({"done", "skipped", "not a package"})
         /\ Done' = Done + 1
         /\ \A j \in 1 .. Done : outcome'[j] = outcome[j]
         /\ outcome'[Done + 1] = o
<1> DEFINE O == {"done", "skipped", "not a package"}
<1>1. outcome \in Seq(O) /\ o \in O BY DEF TypeOK
<1> HIDE DEF O
<1>2. /\ outcome' \in Seq(O) /\ Len(outcome') = Len(outcome) + 1
      /\ \A j \in 1 .. Len(outcome) : outcome'[j] = outcome[j]
      /\ outcome'[Len(outcome) + 1] = o
  <2>1. /\ Append(outcome, o) \in Seq(O) /\ Len(Append(outcome, o)) = Len(outcome) + 1
        /\ \A j \in 1 .. Len(outcome) : Append(outcome, o)[j] = outcome[j]
        /\ Append(outcome, o)[Len(outcome) + 1] = o
    BY <1>1, AppendFacts
  <2> QED
    BY <2>1
<1> QED BY <1>2 DEF Done, O

(***************************************************************************)
(* A step of a phase, by the ways in which it can end.                     *)
(***************************************************************************)
OwnUses(T) == /\ T \subseteq Words \X Vars \X (Files \cup {Default})
              /\ \A t \in T : Specified(t[1]) => t[3] \in {t[1], Default}
OwnDeps(D) == /\ D \subseteq Words \X Files
              /\ \A d \in D : d[1] \in Files /\ Item \in Defs[d[1]] => d[2] = d[1]

GoesOn   == /\ pc' \in InPackage /\ (pc' = "post" => "k" \in opts)
            /\ UNCHANGED <<outcome, faults, status>>
EndsWord == \E o \in {"done", "skipped"} :
              /\ o = "done" /\ "g" \in opts => Platform = "Windows"
              /\ Returns(o)
EndsRun  == /\ pc' = "exited" /\ status' = 1 /\ UNCHANGED outcome
            /\ faults' \in 0 .. MaxFaults
            /\ faults' > 0 \/ ~(opts \subseteq {"p", "b", "c", "d"})

Ends == GoesOn \/ EndsWord \/ EndsRun

\* What a phase leaves on disk, and whose values it used.
Leaves == /\ cwd' \in {"present", "away"} /\ exists' \subseteq DirVars \X Files
          /\ OwnUses(touched')
Kept == UNCHANGED <<input, todo, env, exports, ves, tags>>

PhaseStep ==
  /\ pc \in InPackage /\ Kept /\ Ends /\ Leaves
  /\ OwnDeps(deps') /\ deps \subseteq deps'

(***************************************************************************)
(* The three ways in which a step of a package or of -g can go on.         *)
(***************************************************************************)
\* What all three keep.
Same == /\ UNCHANGED <<input, tags>> /\ todo' \subseteq Files
        /\ env' \in Shells /\ Undefaulted(env')
        /\ Leaves /\ OwnDeps(deps') /\ deps \subseteq deps'

LEMMA SameFacts ==
  ASSUME IInv, Same
  PROVE  /\ opts' = opts /\ line' = line /\ overridden' = overridden
         /\ Work' = Work /\ Total' = Total /\ OwnValues'
         /\ ves' = ves => (\A i \in 1 .. ves : VesDone(i))'
<1>1. opts' = opts /\ line' = line /\ overridden' = overridden BY DEF Same, input
<1>2. Work' = Work /\ Total' = Total BY <1>1 DEF Work, Total
<1>3. OwnValues' BY DEF Same, Leaves, OwnUses, OwnDeps, OwnValues
<1>4. ves' = ves => (\A i \in 1 .. ves : VesDone(i))'
  BY DEF Same, IInv, Gathered, VesDone
<1> QED BY <1>1, <1>2, <1>3, <1>4

LEMMA SameTypes ==
  ASSUME IInv, Same, ves' \in 0 .. Len(Ves),
         exports' \in [Names -> SUBSET Files],
         pc' \in Phases \cup {"validate", "args", "exports", "next", "post", "exited"},
         outcome' \in Seq({"done", "skipped", "not a package"}),
         faults' \in 0 .. MaxFaults, status' \in {0, 1}
  PROVE  TypeOK'
<1>1. TypeOK BY DEF IInv
<1>2. /\ opts' \in OptionSets /\ line' \in Lines /\ overridden' \in Overrides
      /\ tags' \subseteq Files
  BY <1>1, SameFacts DEF TypeOK, Same
<1>3. /\ todo' \subseteq Files /\ env' \in [Vars -> SUBSET (Files \cup {Default})]
      /\ cwd' \in {"present", "away"} /\ exists' \subseteq DirVars \X Files
      /\ deps' \subseteq Words \X Files
      /\ touched' \subseteq Words \X Vars \X (Files \cup {Default})
  BY DEF Same, Leaves, OwnUses, OwnDeps, Shells
<1> QED BY <1>2, <1>3 DEF TypeOK

\* The run ends with status 1.
EndsEarly == /\ pc' = "exited" /\ status' = 1 /\ UNCHANGED outcome
             /\ faults' \in 0 .. MaxFaults
             /\ \/ faults' > 0 \/ line = << >> \/ overridden # {}
                \/ ~(opts \subseteq {"p", "b", "c", "d"})

LEMMA ExitKeeps ==
  ASSUME IInv, Same, ves' = ves, exports' \in [Names -> SUBSET Files], EndsEarly
  PROVE  IInv'
<1>1. TypeOK /\ Control /\ Gathered /\ NoPackageMissed BY DEF IInv
<1>2. /\ pc' = "exited" /\ status' = 1 /\ status' # 0 /\ outcome' = outcome
      /\ faults' \in 0 .. MaxFaults
  BY DEF EndsEarly
<1>3. /\ opts' = opts /\ line' = line /\ overridden' = overridden
      /\ Work' = Work /\ Total' = Total /\ OwnValues'
      /\ (\A i \in 1 .. ves : VesDone(i))'
  BY SameFacts
<1>4. Done' = Done BY <1>2 DEF Done
<1>5. TypeOK'
  <2>1. ves' \in 0 .. Len(Ves) /\ outcome' \in Seq({"done", "skipped", "not a package"})
    BY <1>1, <1>2 DEF TypeOK
  <2> QED BY <1>2, <2>1, SameTypes
<1>6. Control'
  <2>1. pc' \notin Running \cup Before \cup {"next", "exports", "post", "autoloop"}
    BY <1>2 DEF Running, Phases, Before
  <2>2. "g" \notin opts => ves = 0 BY <1>1 DEF Control
  <2>3. Done' <= Total' BY <1>1, <1>3, <1>4 DEF Control
  <2>4. pc' = "exited" /\ status' # 0 BY <1>2
  <2> QED BY <1>3, <2>1, <2>2, <2>3, <2>4 DEF Control
<1>7. Shell' BY <1>2 DEF Same, Shell, InPackage, Running, Phases
<1>8. Exported' BY <1>2 DEF Exported, ExportedAll, Phases
<1>9. Gathered' BY <1>1, <1>2, <1>3, <1>4 DEF Gathered, AllVes
<1>10. NoPackageMissed' BY <1>1, <1>2, <1>3 DEF NoPackageMissed, Readable
<1>11. OnlyFaultsEndRun'
  <2>1. \/ faults' # 0 \/ line = << >> \/ overridden # {}
        \/ ~(opts \subseteq {"p", "b", "c", "d"})
    BY RunAssumption DEF EndsEarly
  <2> QED BY <1>3, <2>1 DEF OnlyFaultsEndRun
<1> QED BY <1>3, <1>5, <1>6, <1>7, <1>8, <1>9, <1>10, <1>11 DEF IInv

LEMMA Counting ==
  ASSUME NEW d \in Nat, NEW n \in Nat, d < n
  PROVE  /\ d + 1 > 0 /\ d + 1 # 0 /\ d + 1 <= n
         /\ n = 1 => d = 0 /\ d + 1 = 1
         /\ \A i \in 1 .. d + 1 : i # d + 1 => i \in 1 .. d
OBVIOUS

\* The package is done with.
LEMMA WordKeeps ==
  ASSUME IInv, Same, ves' = ves, exports' = exports, pc \in Running \cup {"next"}, Done < Total,
         NEW o \in Outcomes, Returns(o),
         o = "not a package" => ~Readable(Word),
         o = "done" /\ "g" \in opts /\ Platform # "Windows" => AllVes
  PROVE  IInv'
<1>1. TypeOK /\ Control /\ Exported /\ NoPackageMissed BY DEF IInv
<1>2. /\ opts' = opts /\ line' = line /\ overridden' = overridden
      /\ Work' = Work /\ Total' = Total /\ OwnValues'
      /\ (\A i \in 1 .. ves : VesDone(i))'
  BY SameFacts
<1>3. Done \in Nat /\ Total \in Nat /\ ("g" \in opts => Total = 1) /\ Pos = Done + 1
  BY <1>1, WorkTypes
<1>4. pc \notin {"exited", "exports"} /\ status = 0 /\ faults = 0
  BY <1>1 DEF Control, Running, Phases
<1>5. /\ Done + 1 > 0 /\ Done + 1 # 0 /\ Done + 1 <= Total
      /\ "g" \in opts => Done = 0 /\ Done + 1 = 1
      /\ \A i \in 1 .. Done + 1 : i # Done + 1 => i \in 1 .. Done
  BY <1>3, Counting
<1>6. outcome' = Append(outcome, o) /\ pc' = "next" /\ faults' = faults /\ status' = status
  BY DEF Returns
<1>7. /\ outcome' \in Seq({"done", "skipped", "not a package"})
      /\ \A j \in 1 .. Done : outcome'[j] = outcome[j]
      /\ outcome'[Done + 1] = o
  BY <1>1, <1>6, AppendOutcome DEF Outcomes
<1>8. Done' = Done + 1 BY <1>1, <1>6, AppendOutcome DEF Outcomes
<1>9. TypeOK'
  <2>1. /\ ves' \in 0 .. Len(Ves) /\ faults' \in 0 .. MaxFaults /\ status' \in {0, 1}
        /\ exports' \in [Names -> SUBSET Files]
    BY <1>1, <1>6 DEF TypeOK
  <2> QED BY <1>6, <1>7, <2>1, SameTypes
<1>10. Control'
  <2>1. "g" \notin opts => ves = 0 BY <1>1 DEF Control
  <2>2. Done' > 0 /\ Done' # 0 /\ Done' <= Total' BY <1>2, <1>5, <1>8
  <2>3. pc' = "next" /\ status' = 0 /\ faults' = 0 BY <1>4, <1>6
  <2> QED BY <1>2, <2>1, <2>2, <2>3 DEF Control, Running, Phases, Before
<1>11. Shell' BY <1>6 DEF Same, Shell, InPackage, Running, Phases
<1>12. Exported'
  <2>1. ExportedAll' => ExportedAll BY <1>2 DEF ExportedAll, Running
  <2> QED BY <1>1, <1>4, <1>6, <2>1 DEF Exported
<1>13. Gathered'
  <2>1. "g" \in opts => Done + 1 = 1 BY <1>5
  <2>2. "g" \in opts => outcome'[1] = o BY <1>7, <2>1
  <2>3. AllVes => AllVes' BY DEF AllVes
  <2> QED BY <1>2, <2>2, <2>3 DEF Gathered
<1>14. NoPackageMissed'
  <2>1. ASSUME NEW i \in 1 .. Done', outcome'[i] = "not a package"
        PROVE  ~Readable(Work[i])
    <3>1. i \in 1 .. Done + 1 BY <1>8, <2>1
    <3>2. CASE i = Done + 1
      <4>1. o = "not a package" BY <1>7, <2>1, <3>2
      <4> QED BY <1>3, <3>2, <4>1 DEF Word
    <3>3. CASE i # Done + 1
      <4>1. i \in 1 .. Done BY <1>5, <3>1, <3>3
      <4>2. outcome[i] = "not a package" BY <1>7, <2>1, <4>1
      <4> QED BY <1>1, <4>1, <4>2 DEF NoPackageMissed, Done
    <3> QED BY <3>2, <3>3
  <2> QED BY <1>2, <2>1 DEF NoPackageMissed, Readable, Done
<1>15. OnlyFaultsEndRun' BY <1>6 DEF OnlyFaultsEndRun
<1> QED BY <1>2, <1>9, <1>10, <1>11, <1>12, <1>13, <1>14, <1>15 DEF IInv

\* The package, or the -g loop, goes on.
LEMMA GoKeeps ==
  ASSUME IInv, Same, exports' = exports, pc \in Running \cup {"next"}, Done < Total,
         Readable(Word),
         outcome' = outcome, faults' = faults, status' = status, pc' \in Running,
         pc' = "post" => "k" \in opts,
         pc' = "autoloop" => "g" \in opts /\ Platform # "Windows",
         ves' \in 0 .. Len(Ves), ves' = 0 \/ pc' = "autoloop",
         ves' = 0 => Pure(env', Word), ves' > 0 => Pure(env', Ves[ves']),
         pc' # "autoloop" => env'["BASE_DIR"] # {},
         (\A i \in 1 .. ves : VesDone(i))'
  PROVE  IInv'
<1>1. TypeOK /\ Control /\ Exported /\ NoPackageMissed BY DEF IInv
<1>2. /\ opts' = opts /\ line' = line /\ overridden' = overridden
      /\ Work' = Work /\ Total' = Total /\ OwnValues'
  BY SameFacts
<1>3. Done \in Nat /\ Total \in Nat /\ ("g" \in opts => Total = 1)
  BY <1>1, WorkTypes
<1>4. pc \notin {"exited", "exports"} /\ status = 0 /\ faults = 0
  BY <1>1 DEF Control, Running, Phases
<1>5. Done' = Done /\ Word' = Word /\ Readable(Word)'
  BY <1>2 DEF Done, Pos, Word, Readable
<1>6. pc' \notin Before \cup {"next", "exited"} BY DEF Running, Phases, Before
<1>7. TypeOK'
  <2>1. /\ outcome' \in Seq({"done", "skipped", "not a package"})
        /\ faults' \in 0 .. MaxFaults /\ status' \in {0, 1}
        /\ exports' \in [Names -> SUBSET Files]
        /\ pc' \in Phases \cup {"validate", "args", "exports", "next", "post", "exited"}
    BY <1>1 DEF TypeOK, Running
  <2> QED BY <2>1, SameTypes
<1>8. ves' \in Nat
  <2>1. Len(Ves) \in Nat BY RunAssumption, LenNat
  <2> QED BY <2>1
<1>9. Control'
  <2>1. /\ ves' > 0 => pc' = "autoloop"
        /\ "g" \notin opts => ves' = 0
    BY <1>8
  <2>2. Done' < Total' /\ Done' <= Total' BY <1>2, <1>3, <1>5
  <2>3. status' = 0 /\ faults' = 0 BY <1>4
  <2> QED BY <1>2, <1>5, <1>6, <2>1, <2>2, <2>3 DEF Control, Before
<1>10. Shell'
  <2>1. Pure(env, Word)' <=> Pure(env', Word) BY <1>5 DEF Pure
  <2>2. Pure(env, Ves[ves])' <=> Pure(env', Ves[ves']) BY DEF Pure
  <2>3. ves' > 0 => pc' = "autoloop" BY <1>8
  <2>4. Undefaulted(env)' BY DEF Same, Undefaulted
  <2> QED BY <1>8, <2>1, <2>2, <2>3, <2>4 DEF Shell, InPackage, IsSet
<1>11. Exported'
  <2>1. ExportedAll' => ExportedAll BY <1>2 DEF ExportedAll, Running
  <2> QED BY <1>1, <1>4, <1>6, <2>1 DEF Exported, Before
<1>12. Gathered'
  <2>1. "g" \in opts => Done' # 1 BY <1>3, <1>5
  <2> QED BY <1>2, <2>1 DEF Gathered
<1>13. NoPackageMissed' BY <1>1, <1>2 DEF NoPackageMissed, Readable
<1>14. OnlyFaultsEndRun' BY <1>6 DEF OnlyFaultsEndRun
<1> QED BY <1>2, <1>7, <1>9, <1>10, <1>11, <1>12, <1>13, <1>14 DEF IInv

\* A package is worked on before the -g loop has begun.
LEMMA NoVes ==
  ASSUME IInv, pc \in InPackage \cup {"next"}, Done < Total
  PROVE  ves = 0
<1>1. TypeOK /\ Control BY DEF IInv
<1>2. Done \in Nat /\ Total \in Nat /\ ("g" \in opts => Total = 1)
  BY <1>1, WorkTypes
<1>3. "g" \in opts => ~(Done > 0) BY <1>2
<1>4. ves \in Nat
  <2>1. Len(Ves) \in Nat BY RunAssumption, LenNat
  <2>2. ves \in 0 .. Len(Ves) BY <1>1 DEF TypeOK
  <2> QED BY <2>1, <2>2
<1>5. pc \notin {"autoloop", "exited"} BY DEF InPackage, Running, Phases
<1>6. ~(ves > 0) BY <1>1, <1>3, <1>4, <1>5 DEF Control
<1> QED BY <1>4, <1>6

LEMMA PhaseSame ==
  ASSUME IInv, Kept, Leaves, OwnDeps(deps'), deps \subseteq deps'
  PROVE  /\ Same /\ exports' = exports /\ ves' = ves
         /\ exports' \in [Names -> SUBSET Files]
<1>1. TypeOK /\ Shell BY DEF IInv
<1>2. env' = env /\ exports' = exports /\ ves' = ves /\ todo' = todo BY DEF Kept
<1> QED BY <1>1, <1>2 DEF Same, Kept, TypeOK, Shell, Shells, Undefaulted

LEMMA PhaseKeeps ==
  ASSUME IInv, PhaseStep
  PROVE  IInv'
<1>1. TypeOK /\ Control /\ Shell BY DEF IInv
<1>2. pc \in Running /\ pc # "autoloop" BY DEF PhaseStep, InPackage, Running
<1>3. Done < Total /\ Readable(Word) BY <1>1, <1>2 DEF Control
<1>4. env' = env BY DEF PhaseStep, Kept
<1>5. /\ Same /\ exports' = exports /\ ves' = ves
      /\ exports' \in [Names -> SUBSET Files]
  BY PhaseSame DEF PhaseStep
<1>6. CASE GoesOn
  <2>1. ves \in 0 .. Len(Ves) BY <1>1 DEF TypeOK
  <2>2. ves = 0 BY <1>3, NoVes DEF PhaseStep
  <2>3. Pure(env, Word) /\ env["BASE_DIR"] # {}
    BY <1>1 DEF Shell, PhaseStep, IsSet
  <2>4. (\A i \in 1 .. ves : VesDone(i))' BY <1>5, SameFacts
  <2>5. pc' \in Running /\ pc' # "autoloop" BY <1>6 DEF GoesOn, InPackage, Running
  <2> QED BY <1>2, <1>3, <1>4, <1>5, <1>6, <2>1, <2>2, <2>3, <2>4, <2>5, GoKeeps
       DEF GoesOn
<1>7. CASE EndsWord
  <2>1. PICK o \in {"done", "skipped"} :
          (o = "done" /\ "g" \in opts => Platform = "Windows") /\ Returns(o)
    BY <1>7 DEF EndsWord
  <2>2. o \in Outcomes /\ o # "not a package" BY DEF Outcomes
  <2> QED BY <1>2, <1>3, <1>5, <2>1, <2>2, WordKeeps
<1>8. CASE EndsRun
  BY <1>5, <1>8, ExitKeeps DEF EndsRun, EndsEarly
<1> QED BY <1>6, <1>7, <1>8 DEF PhaseStep, Ends

(***************************************************************************)
(* What the phases use, and how they end.                                  *)
(***************************************************************************)
LEMMA OwnUnion ==
  ASSUME NEW A, NEW B, OwnUses(A), OwnUses(B)
  PROVE  OwnUses(A \cup B)
BY DEF OwnUses

LEMMA OwnNothing == OwnUses({})
BY DEF OwnUses

LEMMA UsesOwn ==
  ASSUME IInv, pc \in InPackage, NEW v \in Vars,
         v = "CONFIGURE" => Word \in Configures,
         v = "SOURCE_FORMAT" /\ Specified(Word) => Retrieval[Word] = "wget"
  PROVE  OwnUses(Uses(v))
<1>1. TypeOK /\ Control /\ Pure(env, Word) BY DEF IInv, Shell
<1>2. pc \in Running BY DEF InPackage
<1>3. Word \in Words /\ Word \in Files
  BY <1>1, <1>2, FilesAssumption DEF Control, Readable
<1>4. env[v] \subseteq Files \cup {Default} BY <1>1 DEF TypeOK
<1>5. ASSUME Specified(Word), NEW f \in env[v] PROVE f \in {Word, Default}
  <2>1. CASE v \in ResetVars BY <1>1, <1>5, <2>1 DEF Pure
  <2>2. CASE v \in KeptByAll BY <1>1, <1>5, <2>2 DEF Pure
  <2>3. CASE v = "CONFIGURE" BY <1>1, <1>5, <2>3 DEF Pure
  <2>4. CASE v = "SOURCE_FORMAT" BY <1>1, <1>5, <2>4 DEF Pure
  <2> QED BY <2>1, <2>2, <2>3, <2>4 DEF Vars, KeptByAll
<1> QED BY <1>3, <1>4, <1>5 DEF OwnUses, Uses

LEMMA DirTypes ==
  ASSUME TypeOK, Shell, NEW v \in DirVars, IsSet(v)
  PROVE  Owner(v) \in Files /\ Dir(v) \in DirVars \X Files
<1>1. v \in Vars \ DefaultVars /\ "BASE_DIR" \in DirVars
  BY DEF DirVars, Vars, KeptVars, ResetVars, DefaultVars
<1>2. Owner(v) \in env[v] BY DEF Owner, IsSet
<1>3. Owner(v) \in Files BY <1>1, <1>2 DEF TypeOK, Shell, Undefaulted
<1> QED BY <1>1, <1>3 DEF Dir, At

LEMMA FailsEnds ==
  ASSUME TypeOK, Fails
  PROVE  /\ pc' = "exited" /\ status' = 1 /\ outcome' = outcome
         /\ faults' \in 0 .. MaxFaults /\ faults' > 0
<1>1. faults \in 0 .. MaxFaults /\ MaxFaults \in Nat BY RunAssumption DEF TypeOK
<1>2. faults < MaxFaults /\ faults' = faults + 1 BY DEF Fails
<1>3. faults' \in 0 .. MaxFaults /\ faults' > 0 BY <1>1, <1>2
<1> QED BY <1>3 DEF Fails, Exit

LEMMA FailsEndsRun ==
  ASSUME TypeOK, Fails
  PROVE  EndsRun
BY FailsEnds DEF EndsRun

LEMMA DiesEndsRun ==
  ASSUME TypeOK, Dies, ~(opts \subseteq {"p", "b", "c", "d"})
  PROVE  EndsRun
BY DEF TypeOK, Dies, Exit, EndsRun

LEMMA GotoGoesOn ==
  ASSUME NEW l \in InPackage, l = "post" => "k" \in opts, Goto(l)
  PROVE  GoesOn
BY DEF Goto, GoesOn

\* What every phase starts from.
LEMMA InvFacts ==
  ASSUME IInv
  PROVE  /\ TypeOK /\ Control /\ Shell
         /\ cwd \in {"present", "away"} /\ exists \subseteq DirVars \X Files
         /\ OwnUses(touched) /\ OwnDeps(deps)
<1>1. TypeOK /\ Control /\ Shell /\ OwnValues BY DEF IInv
<1>2. /\ cwd \in {"present", "away"} /\ exists \subseteq DirVars \X Files
      /\ touched \subseteq Words \X Vars \X (Files \cup {Default})
      /\ deps \subseteq Words \X Files
  BY <1>1 DEF TypeOK
<1> QED BY <1>1, <1>2 DEF OwnUses, OwnDeps, OwnValues

LEMMA UsesFormatOwn ==
  ASSUME NEW m, m = "wget" => OwnUses(Uses("SOURCE_FORMAT"))
  PROVE  OwnUses(UsesFormat(m))
<1>1. CASE m = "wget" /\ ~There("BASE_DIR") BY <1>1 DEF UsesFormat
<1>2. CASE ~(m = "wget" /\ ~There("BASE_DIR")) BY <1>2 DEF UsesFormat, OwnUses
<1> QED BY <1>1, <1>2

LEMMA RetrieveStep ==
  ASSUME IInv, pc \in InPackage, NEW l \in InPackage, l = "post" => "k" \in opts,
         opts \cap {"k", "u"} # {}, Retrieve(l)
  PROVE  Ends /\ Leaves
<1>1. TypeOK /\ Shell /\ exists \subseteq DirVars \X Files /\ OwnUses(touched)
  BY InvFacts
<1>2. "BASE_DIR" \in DirVars /\ "BASE_DIR" \in Vars /\ "BASE_DIR" # "CONFIGURE"
  BY DEF DirVars, Vars, KeptVars
<1>3. Dir("BASE_DIR") \in DirVars \X Files BY <1>1, <1>2, DirTypes DEF Shell
<1> DEFINE method == Retrieval[Owner("SOURCE_RETRIEVAL_METHOD")]
<1>4. OwnUses(Uses("BASE_DIR")) /\ OwnUses(UsesFormat(method))
  <2>1. OwnUses(Uses("BASE_DIR")) BY <1>2, UsesOwn
  <2>2. ASSUME method = "wget" PROVE OwnUses(Uses("SOURCE_FORMAT"))
    <3>1. ASSUME Specified(Word) PROVE Retrieval[Word] = "wget"
      <4>1. env["SOURCE_RETRIEVAL_METHOD"] = {Word}
        BY <3>1 DEF IInv, Shell, Pure, KeptByAll, KeptVars
      <4> QED BY <2>2, <4>1 DEF Owner
    <3>2. "SOURCE_FORMAT" \in Vars /\ "SOURCE_FORMAT" # "CONFIGURE"
      BY DEF Vars, KeptVars
    <3> QED BY <3>1, <3>2, UsesOwn
  <2> HIDE DEF method
  <2> QED BY <2>1, <2>2, UsesFormatOwn
<1>5. PICK r \in Retrieved(method, There("BASE_DIR"), IsSet("SOURCE_URL")) :
        /\ Goto(l) \/ Dies \/ Fails
        /\ exists' = IF r = "there" THEN exists \cup {Dir("BASE_DIR")} ELSE exists
        /\ touched' = touched \cup Uses("BASE_DIR") \cup UsesFormat(method)
        /\ cwd' = "away"
  BY DEF Retrieve
<1>6. exists' \subseteq DirVars \X Files BY <1>1, <1>3, <1>5
<1>7. OwnUses(touched')
  <2>1. OwnUses(touched \cup Uses("BASE_DIR")) BY <1>1, <1>4, OwnUnion
  <2> HIDE DEF method
  <2>2. OwnUses((touched \cup Uses("BASE_DIR")) \cup UsesFormat(method))
    BY <1>4, <2>1, OwnUnion
  <2> QED BY <1>5, <2>2, Zenon
<1>8. GoesOn \/ EndsRun
  BY <1>1, <1>5, GotoGoesOn, DiesEndsRun, FailsEndsRun
<1> QED BY <1>5, <1>6, <1>7, <1>8 DEF Ends, Leaves

(***************************************************************************)
(* The phases of e(), one lemma for each.                                  *)
(***************************************************************************)
LEMMA LeavesAll ==
  ASSUME IInv, UNCHANGED <<cwd, exists, touched>>
  PROVE  Leaves
BY InvFacts DEF Leaves

LEMMA LeavesUsed ==
  ASSUME IInv, NEW T, OwnUses(T), touched' = touched \cup T,
         cwd' \in {"away", cwd}, exists' \subseteq DirVars \X Files
  PROVE  Leaves
BY InvFacts, OwnUnion DEF Leaves

LEMMA SkipsEndsWord ==
  ASSUME Returns("skipped")
  PROVE  EndsWord
BY DEF EndsWord

\* A phase that copies nothing keeps the invariant.
LEMMA PhaseInv ==
  ASSUME IInv, pc \in InPackage, Kept, deps' = deps, Ends, Leaves
  PROVE  IInv'
BY InvFacts, PhaseKeeps DEF PhaseStep

LEMMA CheckoutKeeps ==
  ASSUME IInv, Checkout
  PROVE  IInv'
<1>1. pc \in InPackage /\ Kept /\ deps' = deps
  BY DEF Checkout, InPackage, Running, Phases, Kept
<1>2. {"update", "post"} \subseteq InPackage BY DEF InPackage, Running, Phases
<1>3. CASE "k" \notin opts /\ Goto("update") /\ UNCHANGED <<cwd, exists, touched>>
  BY <1>1, <1>2, <1>3, GotoGoesOn, LeavesAll, PhaseInv DEF Ends
<1>4. CASE Returns("skipped") /\ UNCHANGED <<cwd, exists, touched>>
  BY <1>1, <1>4, SkipsEndsWord, LeavesAll, PhaseInv DEF Ends
<1>5. CASE "k" \in opts /\ Retrieve("post")
  BY <1>1, <1>2, <1>5, RetrieveStep, PhaseInv
<1> QED BY <1>3, <1>4, <1>5 DEF Checkout

LEMMA PostRetrievalKeeps ==
  ASSUME IInv, PostRetrieval
  PROVE  IInv'
<1>1. pc = "post" /\ pc \in InPackage /\ Kept /\ deps' = deps /\ cwd' = cwd
      /\ exists' = exists
  BY DEF PostRetrieval, InPackage, Running, Phases, Kept
<1>2. TypeOK /\ "k" \in opts /\ exists \subseteq DirVars \X Files
  BY <1>1, InvFacts DEF Control
<1>3. "update" \in InPackage BY DEF InPackage, Running, Phases
<1>4. OwnUses(Uses("SOURCE_DIR") \cup Uses("POST_RETRIEVAL_METHOD"))
  BY <1>1, UsesOwn, OwnUnion DEF Vars, KeptVars, ResetVars
<1>5. CASE Goto("update") /\ UNCHANGED touched
  BY <1>1, <1>3, <1>5, GotoGoesOn, LeavesAll, PhaseInv DEF Ends
<1>6. CASE Dies /\ UNCHANGED touched
  BY <1>1, <1>2, <1>6, DiesEndsRun, LeavesAll, PhaseInv DEF Ends
<1>7. CASE /\ touched' = touched \cup Uses("SOURCE_DIR")
                              \cup Uses("POST_RETRIEVAL_METHOD")
           /\ Goto("update") \/ Fails
  <2>1. Leaves BY <1>1, <1>2, <1>4, <1>7, LeavesUsed
  <2>2. Ends BY <1>2, <1>3, <1>7, GotoGoesOn, FailsEndsRun DEF Ends
  <2> QED BY <1>1, <2>1, <2>2, PhaseInv
<1> QED BY <1>5, <1>6, <1>7 DEF PostRetrieval

LEMMA UpdateKeeps ==
  ASSUME IInv, Update
  PROVE  IInv'
<1>1. pc \in InPackage /\ Kept /\ deps' = deps
  BY DEF Update, InPackage, Running, Phases, Kept
<1>2. "prebuild" \in InPackage BY DEF InPackage, Running, Phases
<1>3. TypeOK /\ exists \subseteq DirVars \X Files BY InvFacts
<1>4. CASE Goto("prebuild") /\ UNCHANGED <<cwd, exists, touched>>
  BY <1>1, <1>2, <1>4, GotoGoesOn, LeavesAll, PhaseInv DEF Ends
<1>5. CASE Returns("skipped") /\ UNCHANGED <<cwd, exists, touched>>
  BY <1>1, <1>5, SkipsEndsWord, LeavesAll, PhaseInv DEF Ends
<1>6. CASE /\ Goto("prebuild") \/ Fails
           /\ touched' = touched \cup Uses("BASE_DIR")
           /\ cwd' = "away" /\ UNCHANGED exists
  <2>1. OwnUses(Uses("BASE_DIR")) BY <1>1, UsesOwn DEF Vars, KeptVars
  <2>2. Leaves BY <1>3, <1>6, <2>1, LeavesUsed
  <2>3. Ends BY <1>2, <1>3, <1>6, GotoGoesOn, FailsEndsRun DEF Ends
  <2> QED BY <1>1, <2>2, <2>3, PhaseInv
<1>7. CASE "u" \in opts /\ Retrieve("prebuild")
  BY <1>1, <1>2, <1>7, RetrieveStep, PhaseInv
<1> QED BY <1>4, <1>5, <1>6, <1>7 DEF Update

LEMMA RunsOwn ==
  ASSUME IInv, pc \in InPackage, NEW ph \in WorkPhases,
         NEW v \in {"PREBUILD_METHOD", "BUILD_METHOD"}
  PROVE  OwnUses(Runs(v, ph))
<1>1. CASE Place(v, ph) = "unsupported" BY <1>1, OwnNothing DEF Runs
<1>2. CASE Place(v, ph) # "unsupported"
  <2>1. v \in Vars /\ {"SOURCE_DIR", "BUILD_DIR"} \subseteq Vars
    BY DEF Vars, ResetVars, KeptVars
  <2>2. IsSet(v) BY <1>2 DEF Place
  <2>3. Owner(v) \in Files \cup {Default}
    <3>1. Owner(v) \in env[v] BY <2>2 DEF IsSet, Owner
    <3>2. env[v] \subseteq Files \cup {Default} BY <2>1, InvFacts DEF TypeOK
    <3> QED BY <3>1, <3>2
  <2>4. Place(v, ph) \in {"SOURCE_DIR", "BUILD_DIR"}
    <3>1. CASE Owner(v) = Default BY <2>2, <3>1 DEF Place
    <3>2. CASE Owner(v) # Default
      <4>1. WorksIn[Owner(v)][ph] \in Places BY <2>3, <3>2, FilesAssumption
      <4> QED BY <1>2, <2>2, <3>2, <4>1 DEF Place, Places
    <3> QED BY <3>1, <3>2
  <2>5. OwnUses(Uses(v)) /\ OwnUses(Uses(Place(v, ph)))
    BY <2>1, <2>4, UsesOwn
  <2> QED BY <1>2, <2>5, OwnUnion DEF Runs
<1> QED BY <1>1, <1>2

LEMMA PrebuildKeeps ==
  ASSUME IInv, Prebuild
  PROVE  IInv'
<1>1. pc \in InPackage /\ Kept /\ deps' = deps
  BY DEF Prebuild, InPackage, Running, Phases, Kept
<1>2. "build" \in InPackage BY DEF InPackage, Running, Phases
<1>3. TypeOK /\ Shell /\ Control /\ exists \subseteq DirVars \X Files BY InvFacts
<1>4. CASE Goto("build") /\ UNCHANGED <<cwd, exists, touched>>
  BY <1>1, <1>2, <1>4, GotoGoesOn, LeavesAll, PhaseInv DEF Ends
<1>5. CASE Returns("skipped") /\ UNCHANGED <<cwd, exists, touched>>
  BY <1>1, <1>5, SkipsEndsWord, LeavesAll, PhaseInv DEF Ends
<1>6. CASE /\ Buildable("PREBUILD_METHOD")
           /\ exists' = exists \cup {Dir("BUILD_DIR")}
           /\ touched' = touched \cup Runs("PREBUILD_METHOD", "prebuild")
                \cup IF Owner("PREBUILD_METHOD") \in Configures
                     THEN Uses("CONFIGURE") ELSE {}
           /\ \/ Goto("build")
              \/ Place("PREBUILD_METHOD", "prebuild") # "unsupported" /\ Fails
           /\ cwd' = "away"
  <2> DEFINE C == IF Owner("PREBUILD_METHOD") \in Configures
                  THEN Uses("CONFIGURE") ELSE {}
  <2>1. {"CONFIGURE", "PREBUILD_METHOD"} \subseteq Vars
        /\ "PREBUILD_METHOD" \in ResetVars /\ "BUILD_DIR" \in DirVars
        /\ "prebuild" \in WorkPhases
    BY DEF Vars, KeptVars, ResetVars, DirVars, WorkPhases
  <2>2. OwnUses(C)
    <3>1. CASE Owner("PREBUILD_METHOD") \in Configures
      <4>1. Owner("PREBUILD_METHOD") \in env["PREBUILD_METHOD"]
        BY <1>6 DEF Buildable, IsSet, Owner
      <4>2. env["PREBUILD_METHOD"] \subseteq {Word, Default}
        BY <1>1, <1>3, <2>1 DEF Shell, Pure
      <4>3. Word \in Configures BY <3>1, <4>1, <4>2, FilesAssumption
      <4> QED BY <1>1, <2>1, <3>1, <4>3, UsesOwn
    <3>2. CASE Owner("PREBUILD_METHOD") \notin Configures BY <3>2, OwnNothing
    <3> QED BY <3>1, <3>2
  <2>3. OwnUses(Runs("PREBUILD_METHOD", "prebuild")) BY <1>1, <2>1, RunsOwn
  <2>4. Dir("BUILD_DIR") \in DirVars \X Files
    BY <1>3, <1>6, <2>1, DirTypes DEF Buildable
  <2>5. exists' \subseteq DirVars \X Files BY <1>3, <1>6, <2>4
  <2> HIDE DEF C
  <2>6. OwnUses(Runs("PREBUILD_METHOD", "prebuild") \cup C)
    BY <2>2, <2>3, OwnUnion
  <2>7. touched' = touched \cup (Runs("PREBUILD_METHOD", "prebuild") \cup C)
    BY <1>6 DEF C
  <2>8. Leaves BY <1>6, <2>5, <2>6, <2>7, LeavesUsed
  <2>9. Ends BY <1>2, <1>3, <1>6, GotoGoesOn, FailsEndsRun DEF Ends
  <2> QED BY <1>1, <2>8, <2>9, PhaseInv
<1> QED BY <1>4, <1>5, <1>6 DEF Prebuild

LEMMA BuildKeeps ==
  ASSUME IInv, Build
  PROVE  IInv'
<1>1. pc \in InPackage /\ Kept /\ deps' = deps
  BY DEF Build, InPackage, Running, Phases, Kept
<1>2. "clean" \in InPackage BY DEF InPackage, Running, Phases
<1>3. TypeOK /\ Shell /\ exists \subseteq DirVars \X Files BY InvFacts
<1>4. CASE Goto("clean") /\ UNCHANGED <<cwd, exists, touched>>
  BY <1>1, <1>2, <1>4, GotoGoesOn, LeavesAll, PhaseInv DEF Ends
<1>5. CASE Returns("skipped") /\ UNCHANGED <<cwd, exists, touched>>
  BY <1>1, <1>5, SkipsEndsWord, LeavesAll, PhaseInv DEF Ends
<1>6. ASSUME Buildable("BUILD_METHOD"), cwd' = "away", NEW installs \in BOOLEAN,
             Goto("clean") \/ Fails,
             exists' = exists \cup {Dir("BUILD_DIR")} \cup
                  IF (installs \/ InstallsFpc) /\ IsSet("INSTALL_DIR")
                  THEN {Dir("INSTALL_DIR")} ELSE {},
             touched' = touched \cup Runs("BUILD_METHOD", "build")
                  \cup (IF installs \/ InstallsFpc THEN Uses("INSTALL_DIR") ELSE {})
                  \cup Uses("POST_BUILD_METHOD")
      PROVE  IInv'
  <2> DEFINE C == IF installs \/ InstallsFpc THEN Uses("INSTALL_DIR") ELSE {}
             D == IF (installs \/ InstallsFpc) /\ IsSet("INSTALL_DIR")
                  THEN {Dir("INSTALL_DIR")} ELSE {}
  <2>1. {"INSTALL_DIR", "POST_BUILD_METHOD"} \subseteq Vars
        /\ {"BUILD_DIR", "INSTALL_DIR"} \subseteq DirVars /\ "build" \in WorkPhases
    BY DEF Vars, KeptVars, ResetVars, DirVars, WorkPhases
  <2>2. OwnUses(C) BY <1>1, <2>1, UsesOwn, OwnNothing
  <2>3. OwnUses(Runs("BUILD_METHOD", "build")) BY <1>1, <2>1, RunsOwn
  <2>4. OwnUses(Uses("POST_BUILD_METHOD")) BY <1>1, <2>1, UsesOwn
  <2>5. D \subseteq DirVars \X Files BY <1>3, <2>1, DirTypes
  <2>6. Dir("BUILD_DIR") \in DirVars \X Files
    BY <1>3, <1>6, <2>1, DirTypes DEF Buildable
  <2>7. exists' = exists \cup {Dir("BUILD_DIR")} \cup D BY <1>6
  <2>8. touched' = touched \cup ((Runs("BUILD_METHOD", "build") \cup C)
                                   \cup Uses("POST_BUILD_METHOD"))
    BY <1>6
  <2> HIDE DEF C, D
  <2>9. exists' \subseteq DirVars \X Files BY <1>3, <2>5, <2>6, <2>7
  <2>10. OwnUses((Runs("BUILD_METHOD", "build") \cup C) \cup Uses("POST_BUILD_METHOD"))
    BY <2>2, <2>3, <2>4, OwnUnion
  <2>11. Leaves BY <1>6, <2>8, <2>9, <2>10, LeavesUsed
  <2>12. Ends BY <1>2, <1>3, <1>6, GotoGoesOn, FailsEndsRun DEF Ends
  <2> QED BY <1>1, <2>11, <2>12, PhaseInv
<1> QED BY <1>4, <1>5, <1>6 DEF Build

LEMMA CleanKeeps ==
  ASSUME IInv, Clean
  PROVE  IInv'
<1>1. pc \in InPackage /\ Kept /\ deps' = deps /\ exists' = exists
  BY DEF Clean, InPackage, Running, Phases, Kept
<1>2. "ctags" \in InPackage BY DEF InPackage, Running, Phases
<1>3. TypeOK /\ exists \subseteq DirVars \X Files BY InvFacts
<1>4. CASE Goto("ctags") /\ UNCHANGED <<cwd, touched>>
  BY <1>1, <1>2, <1>4, GotoGoesOn, LeavesAll, PhaseInv DEF Ends
<1>5. CASE Returns("skipped") /\ UNCHANGED <<cwd, touched>>
  BY <1>1, <1>5, SkipsEndsWord, LeavesAll, PhaseInv DEF Ends
<1>6. CASE /\ touched' = touched \cup Runs("BUILD_METHOD", "clean")
           /\ Goto("ctags") \/ Fails
           /\ cwd' = "away"
  <2>1. OwnUses(Runs("BUILD_METHOD", "clean")) BY <1>1, RunsOwn DEF WorkPhases
  <2>2. Leaves BY <1>1, <1>3, <1>6, <2>1, LeavesUsed
  <2>3. Ends BY <1>2, <1>3, <1>6, GotoGoesOn, FailsEndsRun DEF Ends
  <2> QED BY <1>1, <2>2, <2>3, PhaseInv
<1> QED BY <1>4, <1>5, <1>6 DEF Clean

LEMMA CtagsKeeps ==
  ASSUME IInv, Ctags
  PROVE  IInv'
<1>1. pc \in InPackage /\ Kept /\ deps' = deps /\ exists' = exists
  BY DEF Ctags, InPackage, Running, Phases, Kept
<1>2. "installer" \in InPackage BY DEF InPackage, Running, Phases
<1>3. TypeOK /\ exists \subseteq DirVars \X Files BY InvFacts
<1>4. CASE Goto("installer") /\ UNCHANGED <<cwd, touched>>
  BY <1>1, <1>2, <1>4, GotoGoesOn, LeavesAll, PhaseInv DEF Ends
<1>5. CASE "t" \in opts /\ Dies /\ UNCHANGED <<cwd, touched>>
  BY <1>1, <1>3, <1>5, DiesEndsRun, LeavesAll, PhaseInv DEF Ends
<1>6. CASE /\ "t" \in opts
           /\ Fails \/ Goto("installer") \/ Dies
           /\ touched' = touched \cup Uses("INSTALL_DIR")
           /\ cwd' = "away"
  <2>1. OwnUses(Uses("INSTALL_DIR")) BY <1>1, UsesOwn DEF Vars, KeptVars
  <2>2. Leaves BY <1>1, <1>3, <1>6, <2>1, LeavesUsed
  <2>3. Ends BY <1>2, <1>3, <1>6, GotoGoesOn, FailsEndsRun, DiesEndsRun DEF Ends
  <2> QED BY <1>1, <2>2, <2>3, PhaseInv
<1> QED BY <1>4, <1>5, <1>6 DEF Ctags

LEMMA InstallerKeeps ==
  ASSUME IInv, Installer
  PROVE  IInv'
<1>1. pc \in InPackage /\ Kept /\ deps' = deps /\ exists' = exists
  BY DEF Installer, InPackage, Running, Phases, Kept
<1>2. "auto" \in InPackage BY DEF InPackage, Running, Phases
<1>3. TypeOK /\ exists \subseteq DirVars \X Files BY InvFacts
<1>4. CASE Goto("auto") /\ UNCHANGED <<cwd, touched>>
  BY <1>1, <1>2, <1>4, GotoGoesOn, LeavesAll, PhaseInv DEF Ends
<1>5. CASE Returns("skipped") /\ UNCHANGED <<cwd, touched>>
  BY <1>1, <1>5, SkipsEndsWord, LeavesAll, PhaseInv DEF Ends
<1>6. CASE /\ Goto("auto") \/ Fails
           /\ touched' = touched \cup Uses("INSTALL_DIR") \cup Uses("BASE_DIR")
           /\ cwd' = "away"
  <2>1. OwnUses(Uses("INSTALL_DIR") \cup Uses("BASE_DIR"))
    BY <1>1, UsesOwn, OwnUnion DEF Vars, KeptVars
  <2>2. Leaves BY <1>1, <1>3, <1>6, <2>1, LeavesUsed
  <2>3. Ends BY <1>2, <1>3, <1>6, GotoGoesOn, FailsEndsRun DEF Ends
  <2> QED BY <1>1, <2>2, <2>3, PhaseInv
<1> QED BY <1>4, <1>5, <1>6 DEF Installer

(***************************************************************************)
(* -g: what is copied to DEPS_INSTALL_DIR.                                 *)
(***************************************************************************)
\* What the file f names as its own is copied on its behalf.
LEMMA CopiedOwn ==
  ASSUME NEW f \in Files, NEW D \in SUBSET Files,
         Item \in Defs[f] => D = {f}, OwnDeps(deps)
  PROVE  OwnDeps(deps \cup {<<f, g>> : g \in D})
<1>1. f \in Words BY FilesAssumption
<1> QED BY <1>1 DEF OwnDeps

LEMMA AutoInstallerKeeps ==
  ASSUME IInv, AutoInstaller
  PROVE  IInv'
<1>1. pc \in InPackage /\ Kept /\ UNCHANGED <<cwd, exists, touched>>
  BY DEF AutoInstaller, InPackage, Running, Phases, Kept
<1>2. Leaves BY <1>1, LeavesAll
<1>3. TypeOK /\ Control /\ Shell /\ OwnDeps(deps) BY InvFacts
<1>4. pc \in Running /\ Done < Total /\ Readable(Word) /\ Pure(env, Word)
  BY <1>1, <1>3 DEF Control, Shell, InPackage
<1>5. CASE "g" \notin opts /\ Returns("done") /\ UNCHANGED deps
  <2>1. EndsWord BY <1>5 DEF EndsWord
  <2> QED BY <1>1, <1>2, <1>5, <2>1, PhaseInv DEF Ends
<1>6. CASE Returns("skipped") /\ UNCHANGED deps
  BY <1>1, <1>2, <1>6, SkipsEndsWord, PhaseInv DEF Ends
<1>7. CASE /\ Platform = "Windows" /\ IsSet("ISS_FILENAME") /\ Returns("done")
           /\ deps' = deps \cup {<<Word, f>> : f \in env["ISS_FILENAME"]}
  <2> DEFINE D == env["ISS_FILENAME"]
  <2>1. EndsWord BY <1>7 DEF EndsWord
  <2>2. "ISS_FILENAME" \in ResetVars /\ "ISS_FILENAME" \in Vars \ DefaultVars
    BY DEF Vars, ResetVars, DefaultVars
  <2>3. D \subseteq {Word, Default} /\ Default \notin D
    BY <1>3, <1>4, <2>2 DEF Pure, Shell, Undefaulted
  <2>4. Word \in Files BY <1>4 DEF Readable
  <2>5. D = {Word} /\ D \in SUBSET Files BY <1>7, <2>3, <2>4 DEF IsSet
  <2>6. OwnDeps(deps') BY <1>3, <1>7, <2>4, <2>5, CopiedOwn
  <2>7. deps \subseteq deps' BY <1>7
  <2> QED BY <1>1, <1>2, <2>1, <2>6, <2>7, PhaseKeeps DEF PhaseStep, Ends
<1>8. CASE Fails /\ UNCHANGED deps
  BY <1>1, <1>2, <1>3, <1>8, FailsEndsRun, PhaseInv DEF Ends
<1>9. CASE "g" \in opts /\ Platform # "Windows" /\ Goto("autoloop") /\ UNCHANGED deps
  <2>1. /\ Same /\ exports' = exports /\ ves' = ves /\ env' = env
    BY <1>1, <1>2, <1>3, <1>9, PhaseSame DEF Kept
  <2>2. ves = 0 BY <1>1, <1>4, NoVes
  <2>3. ves \in 0 .. Len(Ves) BY <1>3 DEF TypeOK
  <2>4. (\A i \in 1 .. ves : VesDone(i))' BY <2>1, SameFacts
  <2>5. "autoloop" \in Running BY DEF Running, Phases
  <2>6. /\ pc' = "autoloop" /\ outcome' = outcome /\ faults' = faults
        /\ status' = status
    BY <1>9 DEF Goto
  <2>7. ves' = 0 /\ ~(ves' > 0) BY <2>1, <2>2
  <2> QED BY <1>4, <1>9, <2>1, <2>3, <2>4, <2>5, <2>6, <2>7, GoKeeps
<1> QED BY <1>5, <1>6, <1>7, <1>8, <1>9 DEF AutoInstaller

\* Loops over build files: no directory of build.sh's own is copied.
LEMMA SourceDirs ==
  ASSUME NEW e \in Shells, Undefaulted(e), NEW f \in Files
  PROVE  /\ Source(e, f)["INSTALL_DIR"] \in SUBSET Files
         /\ Source(e, f)["ISS_FILENAME"] \in SUBSET Files
<1>1. {"INSTALL_DIR", "ISS_FILENAME"} \subseteq Vars \ DefaultVars
  BY DEF Vars, KeptVars, ResetVars, DefaultVars
<1> QED BY <1>1, SourceTypes DEF Shells, Undefaulted

LEMMA AutoLoopKeeps ==
  ASSUME IInv, AutoLoop
  PROVE  IInv'
<1> DEFINE f   == Ves[ves + 1]
           e   == Source(Unset(env), f)
           dir == e["INSTALL_DIR"]
<1>1. /\ pc = "autoloop" /\ cwd' = "present" /\ UNCHANGED input
      /\ todo' = todo /\ exists' = exists /\ exports' = exports /\ tags' = tags
      /\ touched' = touched
  BY DEF AutoLoop
<1>2. TypeOK /\ Control /\ Shell /\ OwnDeps(deps) /\ OwnUses(touched)
      /\ exists \subseteq DirVars \X Files
  BY InvFacts
<1>3. /\ pc \in Running /\ Done < Total /\ Readable(Word) /\ "g" \in opts
      /\ Platform # "Windows"
  BY <1>1, <1>2 DEF Control, Running, Phases
<1>4. /\ env \in Shells /\ Undefaulted(env) /\ todo \subseteq Files
      /\ exports \in [Names -> SUBSET Files] /\ ves \in 0 .. Len(Ves)
      /\ Len(Ves) \in Nat
  BY <1>2, RunAssumption, LenNat DEF TypeOK, Shell, Shells
<1>5. Leaves BY <1>1, <1>2 DEF Leaves
<1>6. ASSUME f \in Files
      PROVE  /\ e \in Shells /\ Undefaulted(e) /\ Pure(e, f) /\ dir \in SUBSET Files
             /\ "INSTALL_DIR" \in Defs[f] => dir = {f}
             /\ "VES_INSTALL_PARAMS" \in Defs[f] => e["VES_INSTALL_PARAMS"] # {}
  <2>1. /\ Unset(env) \in Shells /\ Undefaulted(Unset(env))
        /\ \A v \in ResetVars : Unset(env)[v] \subseteq {Default}
    BY <1>4, UnsetTypes
  <2> QED BY <1>6, <2>1, SourceTypes, SourcePure, SourceOwn, SourceDirs
<1>7. ~(opts \subseteq {"p", "b", "c", "d"}) BY <1>3
<1>8. CASE ves = Len(Ves) /\ Returns("done") /\ UNCHANGED <<env, ves, deps>>
  <2>1. Same BY <1>1, <1>2, <1>4, <1>5, <1>8 DEF Same, Undefaulted
  <2>2. "done" \in Outcomes BY DEF Outcomes
  <2>3. AllVes BY <1>8 DEF AllVes
  <2> QED BY <1>1, <1>3, <1>8, <2>1, <2>2, <2>3, WordKeeps
<1>9. CASE Dies /\ UNCHANGED <<env, ves, deps>>
  <2>1. Same BY <1>1, <1>2, <1>4, <1>5, <1>9 DEF Same, Undefaulted
  <2>2. EndsEarly BY <1>2, <1>7, <1>9 DEF EndsEarly, Dies, Exit, TypeOK
  <2> QED BY <1>1, <1>4, <1>9, <2>1, <2>2, ExitKeeps
<1>10. CASE f \in Files /\ env' = e /\ UNCHANGED <<ves, deps>> /\ (Dies \/ Fails)
  <2>1. Same BY <1>1, <1>2, <1>4, <1>5, <1>6, <1>10 DEF Same, Undefaulted
  <2>2. EndsEarly
    <3>1. CASE Dies BY <1>2, <1>7, <3>1 DEF EndsEarly, Dies, Exit, TypeOK
    <3>2. CASE Fails BY <1>2, <3>2, FailsEnds DEF EndsEarly
    <3> QED BY <1>10, <3>1, <3>2
  <2> QED BY <1>1, <1>4, <1>10, <2>1, <2>2, ExitKeeps
<1>11. ASSUME ves < Len(Ves), f \in Files, env' = e, Goto("autoloop"), ves' = ves + 1,
              OwnDeps(deps'), deps \subseteq deps',
              {"VES_INSTALL_PARAMS", "INSTALL_DIR"} \subseteq Defs[f] => <<f, f>> \in deps'
       PROVE  IInv'
  <2>1. Same BY <1>1, <1>4, <1>5, <1>6, <1>11 DEF Same, Undefaulted
  <2>2. ves' \in 0 .. Len(Ves) /\ ves' # 0 BY <1>4, <1>11
  <2>3. Pure(env', Ves[ves']) BY <1>6, <1>11
  <2>4. (\A i \in 1 .. ves : VesDone(i))'
    <3>1. \A i \in 1 .. ves : VesDone(i) BY DEF IInv, Gathered
    <3>2. ASSUME NEW i \in 1 .. ves' PROVE VesDone(i)'
      <4>1. i = ves + 1 \/ i \in 1 .. ves BY <1>4, <1>11
      <4>2. CASE i = ves + 1 BY <1>11, <4>2 DEF VesDone
      <4>3. CASE i \in 1 .. ves BY <1>11, <3>1, <4>3 DEF VesDone
      <4> QED BY <4>1, <4>2, <4>3
    <3> QED BY <3>2
  <2>5. pc' = "autoloop" /\ outcome' = outcome /\ faults' = faults /\ status' = status
    BY <1>11 DEF Goto
  <2>6. "autoloop" \in Running BY DEF Running, Phases
  <2> QED BY <1>1, <1>3, <2>1, <2>2, <2>3, <2>4, <2>5, <2>6, GoKeeps
<1>12. CASE /\ ves < Len(Ves) /\ f \in Files /\ env' = e
            /\ e["VES_INSTALL_PARAMS"] = {}
            /\ Goto("autoloop") /\ ves' = ves + 1 /\ UNCHANGED deps
  <2>1. "VES_INSTALL_PARAMS" \notin Defs[f] BY <1>6, <1>12
  <2>2. OwnDeps(deps') /\ deps \subseteq deps' BY <1>2, <1>12
  <2> QED BY <1>11, <1>12, <2>1, <2>2
<1>13. CASE /\ ves < Len(Ves) /\ f \in Files /\ env' = e
            /\ Goto("autoloop") /\ ves' = ves + 1
            /\ deps' = deps \cup {<<f, g>> : g \in dir}
  <2>1. OwnDeps(deps')
    <3>1. Item \in Defs[f] => dir = {f} BY <1>3, <1>6, <1>13 DEF Item
    <3>2. f \in Files /\ dir \in SUBSET Files BY <1>6, <1>13
    <3> QED BY <1>2, <1>13, <3>1, <3>2, CopiedOwn
  <2>2. deps \subseteq deps' BY <1>13
  <2>3. "INSTALL_DIR" \in Defs[f] => <<f, f>> \in deps' BY <1>6, <1>13
  <2> QED BY <1>11, <1>13, <2>1, <2>2, <2>3
<1>14. CASE /\ ves < Len(Ves) /\ f \in Files /\ env' = e /\ dir = {}
            /\ Goto("autoloop") /\ ves' = ves + 1 /\ UNCHANGED deps
  <2>1. "INSTALL_DIR" \notin Defs[f] BY <1>6, <1>14
  <2>2. OwnDeps(deps') /\ deps \subseteq deps' BY <1>2, <1>14
  <2> QED BY <1>11, <1>14, <2>1, <2>2
<1> QED BY <1>8, <1>9, <1>10, <1>12, <1>13, <1>14 DEF AutoLoop

(***************************************************************************)
(* The main loop.                                                          *)
(***************************************************************************)
LEMMA NextWordKeeps ==
  ASSUME IInv, NextWord
  PROVE  IInv'
<1> DEFINE e == Source(Defaults(Unset(env)), Word)
<1>1. /\ pc = "next" /\ pc \in Running \cup {"next"} /\ Pos <= Len(Work)
      /\ cwd' = IF "g" \in opts THEN cwd ELSE "present"
      /\ UNCHANGED input /\ todo' = todo /\ exists' = exists /\ exports' = exports
      /\ ves' = ves /\ deps' = deps /\ tags' = tags /\ touched' = touched
  BY DEF NextWord, world
<1>2. TypeOK /\ Control /\ Shell /\ OwnDeps(deps) /\ OwnUses(touched)
      /\ cwd \in {"present", "away"} /\ exists \subseteq DirVars \X Files
  BY InvFacts
<1>3. /\ env \in Shells /\ Undefaulted(env) /\ todo \subseteq Files
      /\ ves \in 0 .. Len(Ves)
  BY <1>2 DEF TypeOK, Shell, Shells
<1>4. /\ Done < Total /\ ("g" \in opts => Done = 0)
  <2>1. Done \in Nat /\ Total \in Nat /\ Pos = Done + 1 /\ ("g" \in opts => Total = 1)
    BY <1>2, WorkTypes
  <2>2. Pos <= Total BY <1>1 DEF Total
  <2> QED BY <2>1, <2>2
<1>5. cwd' = "present" BY <1>1, <1>2, <1>4 DEF Control
<1>6. Leaves BY <1>1, <1>2, <1>5 DEF Leaves
<1>7. CASE ~Readable(Word) /\ Returns("not a package") /\ UNCHANGED env
  <2>1. Same BY <1>1, <1>2, <1>3, <1>6, <1>7 DEF Same, Undefaulted
  <2>2. "not a package" \in Outcomes BY DEF Outcomes
  <2> QED BY <1>1, <1>4, <1>7, <2>1, <2>2, WordKeeps
<1>8. CASE /\ Readable(Word) /\ env' = e
           /\ IF e["BASE_DIR"] = {} THEN Returns("skipped") ELSE Goto("checkout")
  <2>1. /\ Defaults(Unset(env)) \in Shells /\ Undefaulted(Defaults(Unset(env)))
        /\ \A v \in ResetVars : Defaults(Unset(env))[v] \subseteq {Default}
    BY <1>3, UnsetTypes
  <2>2. Word \in Files BY <1>8 DEF Readable
  <2>3. e \in Shells /\ Undefaulted(e) /\ Pure(e, Word)
    BY <2>1, <2>2, SourceTypes, SourcePure
  <2>4. Same BY <1>1, <1>2, <1>3, <1>6, <1>8, <2>3 DEF Same, Undefaulted
  <2>5. CASE Returns("skipped")
    <3>1. "skipped" \in Outcomes BY DEF Outcomes
    <3> QED BY <1>1, <1>4, <2>4, <2>5, <3>1, WordKeeps
  <2>6. CASE e["BASE_DIR"] # {} /\ Goto("checkout")
    <3>1. ves = 0 BY <1>1, <1>4, NoVes
    <3>2. ves' = 0 /\ ~(ves' > 0) BY <1>1, <3>1
    <3>3. (\A i \in 1 .. ves : VesDone(i))' BY <1>1, <2>4, SameFacts
    <3>4. /\ pc' = "checkout" /\ outcome' = outcome /\ faults' = faults
          /\ status' = status
      BY <2>6 DEF Goto
    <3>5. pc' \in Running /\ pc' \notin {"autoloop", "post"}
      BY <3>4 DEF Running, Phases
    <3>6. ves' \in 0 .. Len(Ves) BY <1>1, <1>3
    <3>7. Pure(env', Word) /\ env'["BASE_DIR"] # {} BY <1>8, <2>3, <2>6
    <3> QED BY <1>1, <1>4, <1>8, <2>4, <3>2, <3>3, <3>4, <3>5, <3>6, <3>7, GoKeeps
  <2> QED BY <1>8, <2>5, <2>6
<1> QED BY <1>5, <1>7, <1>8 DEF NextWord

LEMMA FinishKeeps ==
  ASSUME IInv, Finish
  PROVE  IInv'
<1>1. TypeOK /\ Control /\ Shell /\ Gathered /\ OwnValues /\ NoPackageMissed
  BY DEF IInv
<1>2. /\ pc = "next" /\ pc' = "exited" /\ status' = 0 /\ outcome' = outcome
      /\ faults' = faults /\ opts' = opts /\ line' = line
      /\ overridden' = overridden /\ todo' = todo /\ env' = env /\ cwd' = cwd
      /\ exists' = exists /\ exports' = exports /\ ves' = ves /\ deps' = deps
      /\ tags' = tags /\ touched' = touched
  BY DEF Finish, Exit, input, world
<1>3. Work' = Work /\ Total' = Total /\ Done' = Done BY <1>2 DEF Work, Total, Done
<1>4. Done = Total
  <2>1. Done \in Nat /\ Total \in Nat /\ Pos = Done + 1 /\ Done <= Total
    BY <1>1, WorkTypes DEF Control
  <2>2. Pos > Total BY DEF Finish, Total
  <2> QED BY <2>1, <2>2
<1>5. TypeOK' BY <1>1, <1>2 DEF TypeOK
<1>6. Control'
  <2>1. faults = 0 /\ ("g" \notin opts => ves = 0) /\ Done <= Total
    BY <1>1, <1>2 DEF Control
  <2> QED BY <1>2, <1>3, <1>4, <2>1 DEF Control, Running, Phases, Before
<1>7. Shell' BY <1>1, <1>2 DEF Shell, Undefaulted, InPackage, Running, Phases
<1>8. Exported' BY <1>2 DEF Exported, ExportedAll, Phases
<1>9. Gathered' BY <1>1, <1>2, <1>3 DEF Gathered, VesDone, AllVes
<1>10. OwnValues' BY <1>1, <1>2 DEF OwnValues
<1>11. NoPackageMissed' BY <1>1, <1>2, <1>3 DEF NoPackageMissed, Readable
<1>12. OnlyFaultsEndRun' BY <1>2 DEF OnlyFaultsEndRun
<1> QED BY <1>5, <1>6, <1>7, <1>8, <1>9, <1>10, <1>11, <1>12 DEF IInv

(***************************************************************************)
(* Before the main loop: -F, the arguments, the exports.                   *)
(***************************************************************************)
LEMMA BeforeKeeps ==
  ASSUME IInv, Same, pc \in Before, cwd' = cwd, ves' = ves, Exported',
         exports' \in [Names -> SUBSET Files],
         pc' \in Before \cup {"next"}, pc' = "exports" => "g" \notin opts,
         UNCHANGED <<outcome, faults, status>>
  PROVE  IInv'
<1>1. TypeOK /\ Control /\ NoPackageMissed BY DEF IInv
<1>2. /\ opts' = opts /\ line' = line /\ overridden' = overridden
      /\ Work' = Work /\ Total' = Total /\ OwnValues'
      /\ (\A i \in 1 .. ves : VesDone(i))'
  BY SameFacts
<1>3. /\ pc # "exited" /\ pc' # "exited" /\ pc' \notin Running
  BY DEF Before, Running, Phases
<1>4. /\ status = 0 /\ faults = 0 /\ Done = 0 /\ cwd = "present" /\ Done <= Total
      /\ "g" \notin opts => ves = 0
  BY <1>1, <1>3 DEF Control
<1>5. ~(ves > 0)
  <2>1. pc \notin {"autoloop", "exited"} BY DEF Before
  <2>2. ~(0 > 0) OBVIOUS
  <2> QED BY <1>1, <1>4, <2>1, <2>2 DEF Control
<1>6. outcome' = outcome /\ Done' = Done /\ status' = status /\ faults' = faults
  BY DEF Done
<1>7. TypeOK'
  <2>1. /\ ves' \in 0 .. Len(Ves) /\ faults' \in 0 .. MaxFaults /\ status' \in {0, 1}
        /\ outcome' \in Seq({"done", "skipped", "not a package"})
    BY <1>1, <1>6 DEF TypeOK
  <2>2. pc' \in Phases \cup {"validate", "args", "exports", "next", "post", "exited"}
    BY DEF Before
  <2> QED BY <2>1, <2>2, SameTypes
<1>8. Control'
  <2>1. pc' \notin {"post", "autoloop"} BY DEF Before
  <2> QED BY <1>2, <1>3, <1>4, <1>5, <1>6, <2>1 DEF Control
<1>9. Shell'
  <2>1. pc' \notin InPackage /\ pc' # "autoloop" BY <1>3 DEF InPackage, Running, Phases
  <2> QED BY <2>1 DEF Shell, Same, Undefaulted
<1>10. Gathered'
  <2>1. Done' # 1 BY <1>4, <1>6
  <2> QED BY <1>2, <2>1 DEF Gathered
<1>11. NoPackageMissed' BY <1>1, <1>2, <1>6 DEF NoPackageMissed, Readable
<1>12. OnlyFaultsEndRun' BY <1>3 DEF OnlyFaultsEndRun
<1> QED BY <1>2, <1>7, <1>8, <1>9, <1>10, <1>11, <1>12 DEF IInv

\* The shell of any phase keeps its types as it is.
LEMMA BeforeFacts ==
  ASSUME IInv
  PROVE  /\ env \in Shells /\ Undefaulted(env) /\ todo \subseteq Files
         /\ exports \in [Names -> SUBSET Files]
         /\ OwnDeps(deps) /\ OwnUses(touched)
         /\ cwd \in {"present", "away"} /\ exists \subseteq DirVars \X Files
<1>1. TypeOK /\ Shell BY DEF IInv
<1>2. /\ env \in Shells /\ todo \subseteq Files
      /\ exports \in [Names -> SUBSET Files]
  BY <1>1 DEF TypeOK, Shells
<1> QED BY <1>1, <1>2, InvFacts DEF Shell

LEMMA ValidateKeeps ==
  ASSUME IInv, NEW f \in todo, ValidateOne(f)
  PROVE  IInv'
<1> DEFINE e == Source(env, f)
<1>1. /\ pc = "validate" /\ pc \in Before /\ "F" \in opts /\ todo' \subseteq Files
      /\ UNCHANGED input /\ cwd' = cwd /\ exists' = exists /\ exports' = exports
      /\ ves' = ves /\ tags' = tags /\ touched' = touched
  BY BeforeFacts DEF ValidateOne, Before
<1>2. /\ env \in Shells /\ Undefaulted(env) /\ todo \subseteq Files
      /\ exports \in [Names -> SUBSET Files]
      /\ OwnDeps(deps) /\ OwnUses(touched)
      /\ cwd \in {"present", "away"} /\ exists \subseteq DirVars \X Files
  BY BeforeFacts
<1>3. Leaves BY <1>1, <1>2 DEF Leaves
<1>4. f \in Files /\ TypeOK BY <1>2 DEF IInv
<1>5. /\ e \in Shells /\ Undefaulted(e) /\ e[Item] \in SUBSET Files
      /\ Item \in Defs[f] => e[Item] = {f}
  BY <1>2, <1>4, SourceTypes, SourceOwn, SourceDirs DEF Item
<1>6. ASSUME env' = env \/ env' = e, OwnDeps(deps'), deps \subseteq deps'
      PROVE  Same
  BY <1>1, <1>2, <1>3, <1>5, <1>6 DEF Same, Undefaulted
<1>7. ~(opts \subseteq {"p", "b", "c", "d"}) BY <1>1
<1>8. CASE UNCHANGED <<env, deps>> /\ Dies
  <2>1. EndsEarly BY <1>4, <1>7, <1>8 DEF EndsEarly, Dies, Exit, TypeOK
  <2> QED BY <1>1, <1>2, <1>6, <1>8, <2>1, ExitKeeps
<1>9. CASE env' = e /\ Fails /\ UNCHANGED deps
  <2>1. EndsEarly BY <1>4, <1>9, FailsEnds DEF EndsEarly
  <2> QED BY <1>1, <1>2, <1>6, <1>9, <2>1, ExitKeeps
<1>10. ASSUME env' = e, NEW l \in {"validate", "args"}, Goto(l),
              OwnDeps(deps'), deps \subseteq deps'
       PROVE  IInv'
  <2>1. pc' \in Before \cup {"next"} /\ pc' # "exports" BY <1>10 DEF Goto, Before
  <2>2. Exported' BY <1>10 DEF Goto, Exported, ExportedAll, Phases
  <2>3. UNCHANGED <<outcome, faults, status>> BY <1>10 DEF Goto
  <2>4. Same BY <1>6, <1>10
  <2> QED BY <1>1, <1>2, <2>1, <2>2, <2>3, <2>4, BeforeKeeps
<1>11. CASE env' = e /\ (Goto("validate") \/ Goto("args")) /\ UNCHANGED deps
  BY <1>2, <1>10, <1>11
<1>12. CASE /\ env' = e /\ Goto("validate")
            /\ deps' = deps \cup {<<f, g>> : g \in e[Item]}
  <2>1. OwnDeps(deps') BY <1>2, <1>4, <1>5, <1>12, CopiedOwn
  <2>2. deps \subseteq deps' BY <1>12
  <2> QED BY <1>10, <1>12, <2>1, <2>2
<1> QED BY <1>8, <1>9, <1>11, <1>12 DEF ValidateOne, Item

\* Steps that only move on.
LEMMA MovesOn ==
  ASSUME IInv, UNCHANGED <<input, env, cwd, world>>, todo' \subseteq Files
  PROVE  /\ Same /\ cwd' = cwd /\ ves' = ves /\ exports' = exports
         /\ exports' \in [Names -> SUBSET Files]
<1>1. /\ UNCHANGED input /\ env' = env /\ cwd' = cwd /\ exists' = exists
      /\ exports' = exports /\ ves' = ves /\ deps' = deps /\ tags' = tags
      /\ touched' = touched
  BY DEF world
<1> QED BY <1>1, BeforeFacts DEF Same, Leaves, Undefaulted

LEMMA EndValidateKeeps ==
  ASSUME IInv, EndValidate
  PROVE  IInv'
<1>1. UNCHANGED <<input, env, cwd, world>> /\ todo' \subseteq Files
  BY BeforeFacts DEF EndValidate
<1>2. pc' = "args" /\ UNCHANGED <<outcome, faults, status>>
  BY DEF EndValidate, Goto
<1>3. pc \in Before /\ pc' \in Before BY <1>2 DEF EndValidate, Before
<1>4. Exported' BY <1>2 DEF Exported, ExportedAll, Phases
<1> QED BY <1>1, <1>2, <1>3, <1>4, MovesOn, BeforeKeeps

LEMMA CheckArgumentsKeeps ==
  ASSUME IInv, CheckArguments
  PROVE  IInv'
<1>1. UNCHANGED <<input, env, cwd, world>> /\ todo' = Files /\ todo' \subseteq Files
      /\ pc \in Before
  BY DEF CheckArguments, Before
<1>2. TypeOK /\ opts' = opts BY <1>1 DEF IInv, input
<1>3. CASE line = << >> /\ Dies
  <2>1. EndsEarly BY <1>2, <1>3 DEF EndsEarly, Dies, Exit, TypeOK
  <2> QED BY <1>1, <2>1, MovesOn, ExitKeeps
<1>4. CASE "g" \notin opts /\ Goto("exports")
  <2>1. pc' \in Before /\ UNCHANGED <<outcome, faults, status>>
    BY <1>4 DEF Goto, Before
  <2>2. Exported' BY <1>1, <1>4 DEF Goto, Exported, ExportedAll, Phases
  <2> QED BY <1>1, <1>4, <2>1, <2>2, MovesOn, BeforeKeeps
<1>5. CASE "g" \in opts /\ Goto("next")
  <2>1. pc' = "next" /\ UNCHANGED <<outcome, faults, status>> BY <1>5 DEF Goto
  <2>2. Exported' BY <1>2, <1>5, <2>1 DEF Exported, ExportedAll
  <2> QED BY <1>1, <2>1, <2>2, MovesOn, BeforeKeeps
<1> QED BY <1>3, <1>4, <1>5 DEF CheckArguments

LEMMA ExportKeeps ==
  ASSUME IInv, NEW f \in todo, ExportOne(f)
  PROVE  IInv'
<1> DEFINE e == Source(Unset(env), f)
<1>1. /\ pc = "exports" /\ pc \in Before /\ todo' = todo \ {f}
      /\ UNCHANGED input /\ cwd' = cwd /\ exists' = exists
      /\ ves' = ves /\ deps' = deps /\ tags' = tags /\ touched' = touched
  BY DEF ExportOne, Before
<1>2. /\ env \in Shells /\ Undefaulted(env) /\ todo \subseteq Files
      /\ exports \in [Names -> SUBSET Files]
      /\ OwnDeps(deps) /\ OwnUses(touched)
      /\ cwd \in {"present", "away"} /\ exists \subseteq DirVars \X Files
  BY BeforeFacts
<1>3. Leaves BY <1>1, <1>2 DEF Leaves
<1>4. f \in Files /\ TypeOK /\ Control /\ Exported BY <1>2 DEF IInv
<1>5. "g" \notin opts /\ opts' = opts BY <1>1, <1>4 DEF Control, input
<1>6. CASE ~Readable(f) /\ Dies /\ UNCHANGED <<env, exports>>
  <2>1. Same BY <1>1, <1>2, <1>3, <1>6 DEF Same, Undefaulted
  <2>2. overridden # {} BY <1>4, <1>6 DEF Readable
  <2>3. EndsEarly BY <1>4, <1>6, <2>2 DEF EndsEarly, Dies, Exit, TypeOK
  <2> QED BY <1>1, <1>2, <1>6, <2>1, <2>3, ExitKeeps
<1>7. CASE /\ Goto("exports") /\ env' = e
           /\ exports' = [n \in Names |->
                            IF \E g \in e["PACKAGE_NAME"] : Name[g] = n
                            THEN e["INSTALL_DIR"] ELSE exports[n]]
  <2>1. Unset(env) \in Shells /\ Undefaulted(Unset(env)) BY <1>2, UnsetTypes
  <2>2. /\ e \in Shells /\ Undefaulted(e) /\ e["INSTALL_DIR"] \in SUBSET Files
        /\ e["PACKAGE_NAME"] = {f}
        /\ "INSTALL_DIR" \in Defs[f] => e["INSTALL_DIR"] = {f}
    BY <1>4, <2>1, SourceTypes, SourceOwn, SourceDirs
  <2>3. Same BY <1>1, <1>2, <1>3, <1>7, <2>2 DEF Same, Undefaulted
  <2>4. /\ exports' \in [Names -> SUBSET Files]
        /\ \A n \in Names : exports'[n] =
             IF Name[f] = n THEN e["INSTALL_DIR"] ELSE exports[n]
    BY <1>2, <1>7, <2>2
  <2>5. pc' = "exports" /\ UNCHANGED <<outcome, faults, status>>
    BY <1>7 DEF Goto
  <2>6. Exported'
    <3>1. ASSUME NEW h \in Files, OwnName(h), h \notin todo',
                 {"PACKAGE_NAME", "INSTALL_DIR"} \subseteq Defs[h]
          PROVE  exports'[Name[h]] = {h}
      <4>1. Name[h] \in Names BY FilesAssumption
      <4>2. CASE h = f BY <2>2, <2>4, <3>1, <4>1, <4>2
      <4>3. CASE h # f
        <5>1. h \notin todo BY <1>1, <3>1, <4>3
        <5>2. Name[f] # Name[h] BY <1>4, <3>1, <4>3 DEF OwnName
        <5>3. exports[Name[h]] = {h} BY <1>1, <1>4, <3>1, <5>1 DEF Exported
        <5> QED BY <2>4, <4>1, <5>2, <5>3
      <4> QED BY <4>2, <4>3
    <3> QED BY <2>5, <3>1 DEF Exported, OwnName
  <2>7. pc' \in Before BY <2>5 DEF Before
  <2> QED BY <1>1, <1>5, <2>3, <2>4, <2>5, <2>6, <2>7, BeforeKeeps
<1> QED BY <1>6, <1>7 DEF ExportOne

LEMMA EndExportsKeeps ==
  ASSUME IInv, EndExports
  PROVE  IInv'
<1>1. /\ UNCHANGED <<input, env, cwd, world>> /\ todo' \subseteq Files
      /\ pc = "exports" /\ pc \in Before /\ todo = {}
  BY BeforeFacts DEF EndExports, Before
<1>2. pc' = "next" /\ UNCHANGED <<outcome, faults, status>>
  BY DEF EndExports, Goto
<1>3. exports' = exports BY <1>1, MovesOn
<1>4. Exported' BY <1>1, <1>2, <1>3 DEF IInv, Exported, OwnName
<1> QED BY <1>1, <1>2, <1>4, MovesOn, BeforeKeeps

----------------------------------------------------------------------------
LEMMA InitIInv ==
  ASSUME Init
  PROVE  IInv
<1>1. /\ opts \in OptionSets /\ line \in Lines /\ overridden \in Overrides
      /\ pc = "validate" /\ todo = Files /\ outcome = << >>
      /\ env = [v \in Vars |-> {}] /\ cwd = "present"
      /\ exports = [n \in Names |-> {}] /\ ves = 0 /\ deps = {} /\ touched = {}
      /\ tags \in {{}, Files} /\ faults = 0 /\ status = 0
  BY DEF Init
<1>2. exists \subseteq DirVars \X Files
  <2>1. PICK built \in SUBSET Files :
          exists = {At(x[1], x[2]) : x \in {y \in DirVars \X built : y[1] \in Defs[y[2]]}}
    BY DEF Init
  <2>2. "BASE_DIR" \in DirVars BY DEF DirVars
  <2>3. \A v \in DirVars, f \in built : At(v, f) \in DirVars \X Files
    BY <2>2 DEF At
  <2>4. ASSUME NEW d \in exists PROVE d \in DirVars \X Files
    <3>1. PICK x \in DirVars \X built : d = At(x[1], x[2]) BY <2>1
    <3>2. x[1] \in DirVars /\ x[2] \in built BY <3>1
    <3> QED BY <2>3, <3>1, <3>2
  <2> QED BY <2>4
<1>3. Done = 0
  <2>1. Len(<< >>) = 0 OBVIOUS
  <2> QED BY <1>1, <2>1 DEF Done
<1>4. TypeOK
  <2>1. ves \in 0 .. Len(Ves)
    <3>1. Len(Ves) \in Nat BY RunAssumption, LenNat
    <3> QED BY <1>1, <3>1
  <2>2. faults \in 0 .. MaxFaults /\ status \in {0, 1} BY <1>1, RunAssumption
  <2>3. outcome \in Seq({"done", "skipped", "not a package"}) BY <1>1
  <2>4. /\ env \in [Vars -> SUBSET (Files \cup {Default})]
        /\ exports \in [Names -> SUBSET Files]
        /\ tags \subseteq Files /\ todo \subseteq Files
    BY <1>1
  <2>5. deps \subseteq Words \X Files
        /\ touched \subseteq Words \X Vars \X (Files \cup {Default})
    BY <1>1
  <2>6. pc \in Phases \cup {"validate", "args", "exports", "next", "post", "exited"}
        /\ cwd \in {"present", "away"}
    BY <1>1
  <2> QED BY <1>1, <1>2, <2>1, <2>2, <2>3, <2>4, <2>5, <2>6 DEF TypeOK
<1>5. pc \notin Running /\ pc \notin {"exited", "exports", "post", "autoloop", "next"}
  BY <1>1 DEF Running, Phases
<1>6. Control
  <2>1. Done <= Total
    <3>1. Total \in Nat BY <1>4, WorkTypes
    <3> QED BY <1>3, <3>1
  <2>2. ~(ves > 0) BY <1>1
  <2> QED BY <1>1, <1>3, <1>5, <2>1, <2>2 DEF Control
<1>7. Shell
  <2>1. Undefaulted(env) BY <1>1 DEF Undefaulted
  <2> QED BY <1>5, <2>1 DEF Shell, InPackage
<1>8. Exported BY <1>1 DEF Exported, ExportedAll, Phases
<1>9. Gathered
  <2>1. 1 .. ves = {} /\ Done # 1 BY <1>1, <1>3
  <2> QED BY <2>1 DEF Gathered
<1>10. OwnValues BY <1>1 DEF OwnValues
<1>11. NoPackageMissed
  <2>1. 1 .. Len(outcome) = {} BY <1>3 DEF Done
  <2> QED BY <2>1 DEF NoPackageMissed
<1>12. OnlyFaultsEndRun BY <1>5 DEF OnlyFaultsEndRun
<1> QED BY <1>4, <1>6, <1>7, <1>8, <1>9, <1>10, <1>11, <1>12 DEF IInv

\* A step that changes nothing.
LEMMA StutterKeeps ==
  ASSUME IInv, UNCHANGED vars
  PROVE  IInv'
<1>1. /\ opts' = opts /\ line' = line /\ overridden' = overridden /\ pc' = pc
      /\ todo' = todo /\ outcome' = outcome /\ env' = env /\ cwd' = cwd
      /\ exists' = exists /\ exports' = exports /\ ves' = ves /\ deps' = deps
      /\ tags' = tags /\ touched' = touched /\ faults' = faults
      /\ status' = status
  BY DEF vars
<1>2. Work' = Work /\ Word' = Word /\ Done' = Done /\ Total' = Total
  BY <1>1 DEF Work, Word, Pos, Done, Total
<1>3. TypeOK' BY <1>1 DEF IInv, TypeOK
<1>4. Control' BY <1>1, <1>2 DEF IInv, Control, Readable
<1>5. Shell' BY <1>1, <1>2 DEF IInv, Shell, Undefaulted, Pure, IsSet
<1>6. Exported' BY <1>1 DEF IInv, Exported, ExportedAll
<1>7. Gathered' BY <1>1, <1>2 DEF IInv, Gathered, VesDone, AllVes
<1>8. OwnValues' BY <1>1 DEF IInv, OwnValues
<1>9. NoPackageMissed' BY <1>1, <1>2 DEF IInv, NoPackageMissed, Readable
<1>10. OnlyFaultsEndRun' BY <1>1 DEF IInv, OnlyFaultsEndRun
<1> QED BY <1>3, <1>4, <1>5, <1>6, <1>7, <1>8, <1>9, <1>10 DEF IInv

\* IInv is inductive: one case for each action of Next.
LEMMA Inductive ==
  IInv /\ [Next]_vars => IInv'
<1> SUFFICES ASSUME IInv, [Next]_vars PROVE IInv' OBVIOUS
<1>1. CASE Validate BY <1>1, ValidateKeeps DEF Validate
<1>2. CASE EndValidate BY <1>2, EndValidateKeeps
<1>3. CASE CheckArguments BY <1>3, CheckArgumentsKeeps
<1>4. CASE Export BY <1>4, ExportKeeps DEF Export
<1>5. CASE EndExports BY <1>5, EndExportsKeeps
<1>6. CASE NextWord BY <1>6, NextWordKeeps
<1>7. CASE Finish BY <1>7, FinishKeeps
<1>8. CASE Checkout BY <1>8, CheckoutKeeps
<1>9. CASE PostRetrieval BY <1>9, PostRetrievalKeeps
<1>10. CASE Update BY <1>10, UpdateKeeps
<1>11. CASE Prebuild BY <1>11, PrebuildKeeps
<1>12. CASE Build BY <1>12, BuildKeeps
<1>13. CASE Clean BY <1>13, CleanKeeps
<1>14. CASE Ctags BY <1>14, CtagsKeeps
<1>15. CASE Installer BY <1>15, InstallerKeeps
<1>16. CASE AutoInstaller BY <1>16, AutoInstallerKeeps
<1>17. CASE AutoLoop BY <1>17, AutoLoopKeeps
<1>18. CASE UNCHANGED vars BY <1>18, StutterKeeps
<1> QED
  BY <1>1, <1>2, <1>3, <1>4, <1>5, <1>6, <1>7, <1>8, <1>9, <1>10, <1>11,
     <1>12, <1>13, <1>14, <1>15, <1>16, <1>17, <1>18 DEF Next

LEMMA Always == Spec => []IInv
<1>1. Init => IInv BY InitIInv
<1> QED BY <1>1, Inductive, PTL DEF Spec

----------------------------------------------------------------------------
\* The state of a run is what the script's variables can hold, whatever the
\* build files, command line and failures.
THEOREM TypeCorrect == Spec => []TypeOK
<1>1. IInv => TypeOK BY DEF IInv
<1> QED BY <1>1, Always, PTL

\* unsetvars() (line 374) and the sourcing after it leave in the variables it
\* clears only values of the package being worked on, though -F and the export
\* loop have sourced all build files in any order.
THEOREM Isolation == Spec => []ResetIsolation
<1>1. IInv => ResetIsolation
  <2> SUFFICES ASSUME IInv, pc \in Running, NEW v \in ResetVars
               PROVE  env[v] \subseteq {Current, Default}
    BY DEF ResetIsolation, Running
  <2>1. Shell /\ TypeOK BY DEF IInv
  <2>2. ves \in Nat
    <3>1. Len(Ves) \in Nat BY RunAssumption, LenNat
    <3>2. ves \in 0 .. Len(Ves) BY <2>1 DEF TypeOK
    <3> QED BY <3>1, <3>2
  <2>3. CASE pc # "autoloop"
    <3>1. Current = Word BY <2>3 DEF Current
    <3>2. Pure(env, Word) BY <2>1, <2>3 DEF Shell, InPackage
    <3> QED BY <3>1, <3>2 DEF Pure
  <2>4. CASE pc = "autoloop" /\ ves > 0
    <3>1. Current = Ves[ves] BY <2>4 DEF Current
    <3>2. Pure(env, Ves[ves]) BY <2>1, <2>4 DEF Shell
    <3> QED BY <3>1, <3>2 DEF Pure
  <2>5. CASE pc = "autoloop" /\ ~(ves > 0)
    <3>1. Current = Word BY <2>5 DEF Current
    <3>2. ves = 0 BY <2>2, <2>5
    <3>3. Pure(env, Word) BY <2>1, <2>5, <3>2 DEF Shell
    <3> QED BY <3>1, <3>3 DEF Pure
  <2> QED BY <2>3, <2>4, <2>5
<1> QED BY <1>1, Always, PTL

\* The commands of e() work with values of the package they are run for, if
\* its file assigns what unsetvars() leaves alone; what -F and -g copy is what
\* the package on whose behalf they do names as its own.
THEOREM Ownership == Spec => []OwnValues
<1>1. IInv => OwnValues BY DEF IInv
<1> QED BY <1>1, Always, PTL

\* Lines 1131-1148: however the hash table orders the build files, each
\* n_INSTALL_DIR exported is the directory of the package named n.
THEOREM Exporting == Spec => []ExportsOwn
<1>1. IInv => ExportsOwn
  <2> SUFFICES ASSUME IInv, ExportedAll, NEW f \in Files,
                      {"PACKAGE_NAME", "INSTALL_DIR"} \subseteq Defs[f], OwnName(f)
               PROVE  exports[Name[f]] = {f}
    BY DEF ExportsOwn
  <2>1. pc # "exports" BY DEF ExportedAll, Phases
  <2> QED BY <2>1 DEF IInv, Exported
<1> QED BY <1>1, Always, PTL

\* The loop of line 1157 returns to PRESENT_DIR for every word: a package is
\* never taken for "not a package" because of what came before it.
THEOREM Attention == Spec => []NoPackageMissed
<1>1. IInv => NoPackageMissed BY DEF IInv
<1> QED BY <1>1, Always, PTL

\* The returns of e() end a package and not the run: of -p, -b, -c and -d only
\* a command that fails does.
THEOREM Endings == Spec => []OnlyFaultsEndRun
<1>1. IInv => OnlyFaultsEndRun BY DEF IInv
<1> QED BY <1>1, Always, PTL

\* set -e (line 4) and the loops: status 0 says that nothing failed and all
\* was dealt with, and of -g that each package of VES_PACKAGES was installed
\* from its own directory.
THEOREM Honesty == Spec => []HonestStatus
<1>1. IInv => HonestStatus
  <2> SUFFICES ASSUME IInv, pc = "exited", status = 0
               PROVE  /\ faults = 0 /\ Done = Total
                      /\ "g" \in opts /\ outcome = <<"done">> /\ Platform # "Windows" =>
                           \A i \in 1 .. Len(Ves) : VesDone(i)
    BY DEF HonestStatus, Done, Total, VesDone
  <2>1. faults = 0 /\ Done = Total BY DEF IInv, Control
  <2>2. outcome = <<"done">> => Done = 1 /\ outcome[1] = "done" BY DEF Done
  <2>3. Gathered BY DEF IInv
  <2> QED BY <2>1, <2>2, <2>3 DEF Gathered, AllVes
<1> QED BY <1>1, Always, PTL
=============================================================================
