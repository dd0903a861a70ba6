--------------------------- MODULE MCBuildScript ---------------------------
(* Instances of BuildScript for TLC: four build files of the repository    *)
(* (osg, poco, proj4rb and mingw), shortened to the variables the model    *)
(* knows, as they read on Linux and on Windows.                            *)
EXTENDS BuildScript, TLC

CONSTANTS osg, poco, proj4rb, mingw, typo

MCFiles == {osg, poco, proj4rb, mingw}
MCWords == MCFiles \cup {typo}

Common == {"PACKAGE_NAME", "BASE_DIR", "SOURCE_DIR", "BUILD_DIR",
           "SOURCE_RETRIEVAL_METHOD", "SOURCE_URL"}
OsgDefs  == Common \cup {"INSTALL_DIR", "PREBUILD_METHOD", "VES_INSTALL_PARAMS"}
PocoDefs == Common \cup {"SOURCE_FORMAT", "INSTALL_DIR", "PREBUILD_METHOD", "BUILD_METHOD",
                         "POST_RETRIEVAL_METHOD"}
LinuxDefs ==
  (osg     :> OsgDefs) @@ (poco :> PocoDefs) @@
  (proj4rb :> Common \cup {"BUILD_METHOD", "POST_RETRIEVAL_METHOD"}) @@
  (mingw   :> {"PACKAGE_NAME", "SOURCE_RETRIEVAL_METHOD", "SOURCE_DIR"})
WindowsDefs ==
  (osg     :> OsgDefs \cup {"ISS_FILENAME", "INNO_PARAMS", "SKIP_FPC_INSTALL"}) @@
  (poco    :> PocoDefs) @@
  (proj4rb :> Common) @@
  (mingw   :> Common \cup {"SOURCE_FORMAT", "INSTALL_DIR"})
MCAppends ==
  (osg :> {"VES_INSTALL_PARAMS", "INNO_PARAMS"}) @@ (poco :> {}) @@
  (proj4rb :> {"POST_RETRIEVAL_METHOD"}) @@ (mingw :> {})
MCClears ==
  (mingw :> {"BUILD_DIR", "PREBUILD_METHOD", "BUILD_METHOD"}) @@
  [f \in MCFiles |-> {}]
\* SOURCE_DIR is BASE_DIR or comes with it; two packages build in place.
MCInBase == {<<"SOURCE_DIR", f>> : f \in MCFiles} \cup
            {<<"BUILD_DIR", proj4rb>>, <<"BUILD_DIR", mingw>>, <<"INSTALL_DIR", mingw>>}
NoOverride  == {{}}
OneOverride == {{}, {poco}}
MCNames == {"OSG", "POCO", "proj4rb", "mingw"}
MCName == (osg :> "OSG") @@ (poco :> "POCO") @@ (proj4rb :> "proj4rb") @@
          (mingw :> "mingw")
MCRetrieval == (osg :> "git") @@ (poco :> "wget") @@ (proj4rb :> "git") @@
               (mingw :> "wget")
InBuildDir == [ph \in WorkPhases |-> "BUILD_DIR"]
InSource   == [ph \in WorkPhases |-> IF ph = "clean" THEN "unsupported"
                                                    ELSE "SOURCE_DIR"]
MCWorksIn == [f \in MCFiles |-> IF f = proj4rb THEN InSource ELSE InBuildDir]

AtMost(n) == {s \in SUBSET Options : Cardinality(s) <= n}
Single  == AtMost(1) \cup {{"F", "g"}, {"F", "b"}}
Few     == AtMost(2) \cup {{"k", "p", "b"}, {"F", "k", "g"}, {"k", "u", "b"}}
MCLines == {<< >>, <<poco>>, <<typo, poco>>, <<poco, proj4rb>>, <<mingw>>,
            <<proj4rb, osg>>}
MCVes30 == <<osg, poco>>
JustPack == {{"d"}}
=============================================================================
