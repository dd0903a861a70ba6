------------------------- MODULE MCSourceRetrieval -------------------------
(* Instances of SourceRetrieval for TLC.                                   *)
EXTENDS SourceRetrieval

Of(method, format, lands, urls, named, post, fixed) ==
  [method |-> method, format |-> format, landsInBase |-> lands, urls |-> urls,
   named |-> named, post |-> post, fixed |-> fixed]

\* Archives, from one or two mirrors, the second under the same name or not.
Archives ==
  { Of("wget", f, l, u, n, p, FALSE) :
      f \in Formats, l \in BOOLEAN, u \in {1, 2}, n \in {{1}, {1, 2}},
      p \in {"none", "repeatable", "once"} }
Clones ==
  { Of(m, "tgz", TRUE, 1, {1}, p, x) :
      m \in VcsMethods \cup {"other"}, p \in {"none", "repeatable", "once"},
      x \in BOOLEAN }
AllDescriptors ==
  { d \in Archives \cup Clones :
      /\ d.format = "zipdir" => d.landsInBase
      /\ d.urls = 1 => d.named = {1} }
=============================================================================
