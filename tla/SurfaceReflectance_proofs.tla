---------------------- MODULE SurfaceReflectance_proofs ----------------------
(***************************************************************************)
(* Proofs about SurfaceReflectance for any scenes, processes, bands, table *)
(* of optical thicknesses, size of a region and number of runs: what a run *)
(* holds open and what it dies of, that its tables are its own, that masks *)
(* stay with their lines, and that what is published is whole until it is  *)
(* processed again.                                                        *)
(***************************************************************************)
EXTENDS SurfaceReflectance, TLAPS, FunctionTheorems, WellFoundedInduction

-----------------------------------------------------------------------------
(* Rows of regions.                                                        *)
LEMMA RowOf ==
  ASSUME NEW n \in Nat
  PROVE  /\ n \div Region \in Nat /\ (n \div Region) * Region \in Nat
         /\ (n \div Region) * Region <= n /\ n < (n \div Region) * Region + Region
<1>1. Region \in Nat \ {0}
  BY SurfaceAssumption
<1>2. PICK q \in Nat : q = n \div Region /\ q * Region <= n /\ n < (q + 1) * Region
  BY <1>1
<1>3. q * Region \in Nat /\ (q + 1) * Region = q * Region + Region
  BY <1>1
<1> QED
  BY <1>2, <1>3

LEMMA InRow ==
  ASSUME NEW n \in Nat, NEW k \in Nat, k * Region <= n, n < k * Region + Region
  PROVE  n \div Region = k
<1>1. Region \in Nat \ {0}
  BY SurfaceAssumption
<1>2. n < (k + 1) * Region
  BY <1>1
<1> QED
  BY <1>1, <1>2

LEMMA Rows ==
  ASSUME NEW k \in Nat
  PROVE  /\ k * Region \in Nat /\ (k * Region) \div Region = k
         /\ (k + 1) * Region = k * Region + Region
         /\ (k * Region) % Region = 0
<1>1. Region \in Nat \ {0}
  BY SurfaceAssumption
<1>2. k * Region \in Nat /\ (k + 1) * Region = k * Region + Region
  BY <1>1
<1>3. (k * Region) \div Region = k
  BY <1>1, <1>2, InRow
<1>4. (k * Region) % Region = 0
  <2>1. \A n \in Nat : n = k * Region => n % Region = 0
    BY <1>1
  <2> QED
    BY <1>2, <2>1, Zenon
<1> QED
  BY <1>2, <1>3, <1>4

LEMMA Below ==
  ASSUME NEW n \in Nat, NEW k \in Nat
  PROVE  n < k * Region <=> n \div Region < k
<1>1. Region \in Nat \ {0}
  BY SurfaceAssumption
<1>2. n < k * Region => n \div Region < k
  BY <1>1
<1>3. n >= k * Region => n \div Region >= k
  <2> DEFINE q == n \div Region
  <2>1. q \in Nat /\ n < q * Region + Region
    BY RowOf
  <2> HIDE DEF q
  <2>2. ASSUME n >= k * Region, q < k PROVE FALSE
    <3>1. (q + 1) * Region <= k * Region
      BY <1>1, <2>1, <2>2
    <3>2. (q + 1) * Region = q * Region + Region
      BY <1>1, <2>1
    <3> QED
      BY <1>1, <2>1, <2>2, <3>1, <3>2
  <2> QED
    BY <2>1, <2>2 DEF q
<1> QED
  BY <1>1, <1>2, <1>3, RowOf

(* The rows of an image of some lines.                                     *)
LEMMA RowsOfImage ==
  ASSUME NEW lines \in Nat, NEW k \in Nat
  PROVE  k \in 0 .. (lines - 1) \div Region <=> k * Region < lines
<1>1. Region \in Nat \ {0} /\ k * Region \in Nat
  BY Rows, SurfaceAssumption
<1>2. CASE lines = 0
  <2>1. (-1) \div Region < 0
    BY <1>1
  <2>2. (lines - 1) \div Region < 0
    BY <1>2, <2>1
  <2> QED
    BY <1>1, <1>2, <2>2
<1>3. CASE lines # 0
  <2>1. lines - 1 \in Nat
    BY <1>3
  <2>2. lines - 1 < k * Region <=> (lines - 1) \div Region < k
    BY <2>1, Below
  <2>3. (lines - 1) \div Region \in Nat
    BY <2>1, RowOf
  <2> QED
    BY <1>1, <2>2, <2>3
<1> QED
  BY <1>2, <1>3

-----------------------------------------------------------------------------
(* The entry update_gridcell_atmos_coefs chooses.                          *)
LEMMA Least ==
  ASSUME NEW T \in SUBSET Nat, T # {}
  PROVE  (CHOOSE j \in T : \A l \in T : j <= l) \in T
         /\ \A l \in T : (CHOOSE j \in T : \A i \in T : j <= i) <= l
<1> DEFINE R == {ss \in Nat \X Nat : ss[1] < ss[2]}
<1>1. IsWellFoundedOn(R, Nat)
  BY NatLessThanWellFounded, Zenon DEF OpToRel
<1>2. \A x, y \in Nat : <<y, x>> \in R <=> y < x
  OBVIOUS
<1> HIDE DEF R
<1>3. PICK x \in T : \A y \in T : ~(<<y, x>> \in R)
  BY <1>1, WFMin, Zenon
<1>4. \A y \in T : x <= y
  <2>1. \A y \in T : y \in Nat /\ x \in Nat /\ ~(y < x)
    BY <1>2, <1>3, Zenon
  <2> QED
    BY <2>1
<1> QED
  BY <1>4, Zenon

LEMMA Chosen ==
  ASSUME NEW aot550 \in Int
  PROVE  AotIndex(aot550) \in 0 .. Len(Aots) - 2 /\ Brackets(aot550, AotIndex(aot550))
<1> DEFINE n == Len(Aots)
           above == {k \in 1 .. n - 1 : aot550 < 550 * Aots[k + 1]}
           least == CHOOSE j \in above : \A l \in above : j <= l
<1>1. n \in Nat /\ n >= 2 /\ \A k \in 1 .. n : Aots[k] \in Int
  BY SurfaceAssumption
<1>2. \A k \in 1 .. n - 1 : Aots[k] < Aots[k + 1] /\ Aots[k] \in Int /\ Aots[k + 1] \in Int
  BY <1>1, SurfaceAssumption
<1>3. CASE above = {}
  <2>1. AotIndex(aot550) = n - 2
    BY <1>1, <1>3 DEF AotIndex
  <2>2. ~(aot550 < 550 * Aots[n - 2 + 1])
    <3>1. aot550 >= 550 * Aots[n]
      <4>1. n - 1 \in 1 .. n - 1 /\ n - 1 + 1 = n /\ Aots[n] \in Int
        BY <1>1
      <4>2. ~(aot550 < 550 * Aots[n - 1 + 1])
        BY <1>3, <4>1
      <4> QED
        BY <4>1, <4>2
    <3>2. n - 1 \in 1 .. n - 1 /\ n - 2 + 1 = n - 1
      BY <1>1
    <3>3. Aots[n - 1] < Aots[n] /\ Aots[n - 1] \in Int /\ Aots[n] \in Int
      BY <1>1, SurfaceAssumption
    <3> QED
      BY <3>1, <3>2, <3>3
  <2> QED
    BY <1>1, <2>1, <2>2 DEF Brackets
<1>4. CASE above # {}
  <2>1. above \in SUBSET Nat
    BY <1>1
  <2>2. least \in above /\ \A l \in above : least <= l
    BY <1>4, <2>1, Least
  <2>3. least \in 1 .. n - 1 /\ aot550 < 550 * Aots[least + 1]
    BY <2>2
  <2>4. \A k \in 1 .. n - 1 : k < least => ~(aot550 < 550 * Aots[k + 1])
    <3> SUFFICES ASSUME NEW k \in 1 .. n - 1, k < least, aot550 < 550 * Aots[k + 1] PROVE FALSE
      OBVIOUS
    <3>1. k \in above
      OBVIOUS
    <3> HIDE DEF above, least
    <3>2. least <= k
      BY <2>2, <3>1
    <3> QED
      BY <1>1, <2>3, <3>2
  <2>5. AotIndex(aot550) = IF least - 1 >= n - 1 THEN n - 2 ELSE least - 1
    <3> HIDE DEF least
    <3>1. AotIndex(aot550) = LET k == (IF above = {} THEN n - 1 ELSE least - 1)
                             IN  IF k >= n - 1 THEN n - 2 ELSE k
      BY Zenon DEF AotIndex, least
    <3> QED
      BY <1>4, <3>1
  <2> HIDE DEF above, least
  <2>6. AotIndex(aot550) = least - 1
    BY <1>1, <2>3, <2>5
  <2>7. least - 1 = 0 \/ aot550 >= 550 * Aots[least - 1 + 1]
    <3>1. CASE least = 1
      BY <3>1
    <3>2. CASE least > 1
      <4>1. least - 1 \in 1 .. n - 1 /\ least - 1 < least /\ least - 1 + 1 = least
            /\ Aots[least] \in Int
        BY <1>1, <2>3, <3>2
      <4>2. ~(aot550 < 550 * Aots[least - 1 + 1])
        BY <2>4, <4>1
      <4> QED
        BY <4>1, <4>2
    <3> QED
      BY <2>3, <3>1, <3>2
  <2>8. least - 1 + 2 = least + 1
    BY <2>3
  <2> QED
    BY <1>1, <2>3, <2>6, <2>7, <2>8 DEF Brackets
<1> QED
  BY <1>3, <1>4
-----------------------------------------------------------------------------
(* Types.                                                                  *)
Names == Seq(Files \union {NULL})
Input == [names : Names, other : Files \union {NULL}, lines : Nat \union {Absent}, dated : BOOLEAN,
          open : SUBSET Nat, openOther : BOOLEAN]
Outcome == [ret : {"input", "NULL", "crash"}, this : Input, left : SUBSET (Files \union {NULL})]

(* What OpenInput says of what it returns.                                 *)
Usable(this) == this.open = DOMAIN this.names

LEMMA UnreadInput == Unread \in Input /\ Unread.open = {} /\ Unread.names = << >>
BY DEF Unread, Input, Names, Absent

LEMMA OpensFiles ==
  ASSUME NEW this \in Input, this.open = {}, NEW disk, NEW wanted \in BOOLEAN,
         NEW r \in OpenFiles(this, disk, wanted)
  PROVE  /\ r \in Outcome /\ r.left = {}
         /\ r.ret # "input" => r.this = Unread
         /\ r.ret = "input" =>
              /\ r.this.names = this.names /\ r.this.lines = this.lines
              /\ Usable(r.this) /\ r.this.openOther = wanted
              /\ \A i \in DOMAIN this.names : Opens(disk, this.names[i])
         /\ r.ret = "NULL" => \E i \in DOMAIN this.names : ~Opens(disk, this.names[i])
         /\ r.ret = "crash" => Unopened(this, disk) \/ (~wanted /\ this.names # << >>)
<1> DEFINE opened == OpenBands(this, disk)
           openOther == wanted /\ Opens(disk, this.other)
           full == [this EXCEPT !.open = opened, !.openOther = openOther]
           given == {this.names[i] : i \in {j \in DOMAIN this.names : j - 1 \in opened \union {0}}}
                      \union (IF wanted THEN {this.other} ELSE {})
<1>1. openOther \in BOOLEAN /\ opened \subseteq DOMAIN this.names
  BY DEF Opens, OpenBands
<1>2. DOMAIN this.names \subseteq Nat \ {0} /\ DOMAIN this.names = 1 .. Len(this.names)
      /\ Len(this.names) \in Nat
  <2>1. this.names \in Seq(Files \union {NULL})
    BY DEF Input, Names
  <2> QED
    BY <2>1
<1>3. /\ full \in Input /\ full.names = this.names /\ full.lines = this.lines
      /\ full.open = opened /\ full.openOther = openOther
  BY <1>1, <1>2 DEF Input
<1>4. opened = DOMAIN this.names <=> \A i \in DOMAIN this.names : Opens(disk, this.names[i])
  <2>1. ASSUME opened = DOMAIN this.names, NEW i \in DOMAIN this.names
        PROVE  Opens(disk, this.names[i])
    <3>1. i \in 1 .. i
      BY <1>2
    <3> QED
      BY <2>1, <3>1 DEF OpenBands
  <2>2. ASSUME \A i \in DOMAIN this.names : Opens(disk, this.names[i]), NEW i \in DOMAIN this.names
        PROVE  i \in opened
    <3>1. \A j \in 1 .. i : j \in DOMAIN this.names
      BY <1>2
    <3> QED
      BY <2>2, <3>1 DEF OpenBands
  <2> QED
    BY <1>1, <2>1, <2>2
<1>5. Closed(full) = opened
  BY <1>1, <1>2, <1>3 DEF Closed
<1>6. NULL \in given => Unopened(this, disk)
  <2>1. this.other = NULL => Unopened(this, disk)
    BY DEF Unopened, Opens
  <2>2. (\E i \in DOMAIN this.names : this.names[i] = NULL) => Unopened(this, disk)
    BY DEF Unopened
  <2> QED
    BY <2>1, <2>2
<1>7. \/ r = Crashed /\ NULL \in given
      \/ r = Crashed /\ ~openOther /\ (opened # DOMAIN this.names \/ wanted)
      \/ r = ReturnedNull({}) /\ openOther /\ opened # DOMAIN this.names
      \/ r = Returned(full) /\ opened = DOMAIN this.names /\ openOther = wanted
  <2> DEFINE failed == full.open # DOMAIN this.names \/ (wanted /\ ~full.openOther)
             fullGiven == {this.names[i] : i \in {j \in DOMAIN this.names : j - 1 \in full.open \union {0}}}
                            \union (IF wanted THEN {this.other} ELSE {})
             left == {this.names[i] : i \in full.open \ Closed(full)}
  <2>1. fullGiven = given /\ left = {} /\ (full.openOther <=> openOther)
        /\ (failed <=> opened # DOMAIN this.names \/ (wanted /\ ~openOther))
    <3> HIDE DEF full, opened, openOther
    <3> QED
      BY <1>1, <1>3, <1>5
  <2>2. \/ r = (IF ~failed THEN Returned(full) ELSE IF ~full.openOther THEN Crashed
                ELSE ReturnedNull(left))
        \/ r = Crashed /\ NULL \in fullGiven
    BY Zenon DEF OpenFiles
  <2> HIDE DEF full, opened, openOther, given, fullGiven, left, failed
  <2>3. ~failed => opened = DOMAIN this.names /\ openOther = wanted
    <3>1. ~failed => opened = DOMAIN this.names /\ (wanted => openOther) /\ (openOther => wanted)
      BY <2>1 DEF openOther
    <3> QED
      BY <1>1, <3>1
  <2>4. CASE r = Crashed /\ NULL \in fullGiven
    BY <2>1, <2>4
  <2>5. CASE r = (IF ~failed THEN Returned(full) ELSE IF ~full.openOther THEN Crashed
                  ELSE ReturnedNull(left))
    BY <2>1, <2>3, <2>5
  <2> QED
    BY <2>2, <2>4, <2>5
<1> HIDE DEF full, opened, given
<1>8. CASE r = Crashed
  <2>1. r.ret = "crash" /\ r \in Outcome /\ r.left = {} /\ r.this = Unread
    BY <1>8, UnreadInput DEF Crashed, Outcome
  <2>2. wanted /\ ~openOther => Unopened(this, disk)
    BY DEF Unopened
  <2>3. r # ReturnedNull({}) /\ r # Returned(full)
    BY <2>1 DEF ReturnedNull, Returned
  <2> HIDE DEF openOther
  <2>4. opened # DOMAIN this.names => this.names # << >>
    <3>1. this.names = << >> => DOMAIN this.names = {}
      OBVIOUS
    <3> QED
      BY <1>1, <3>1
  <2> QED
    BY <1>6, <1>7, <2>1, <2>2, <2>3, <2>4
<1> HIDE DEF openOther
<1>9. CASE r = ReturnedNull({}) /\ openOther /\ opened # DOMAIN this.names
  <2>1. r.ret = "NULL" /\ r \in Outcome /\ r.left = {} /\ r.this = Unread
    BY <1>9, UnreadInput DEF ReturnedNull, Outcome
  <2> QED
    BY <1>4, <1>9, <2>1
<1>10. CASE r = Returned(full) /\ opened = DOMAIN this.names /\ openOther = wanted
  <2>1. r.ret = "input" /\ r \in Outcome /\ r.left = {} /\ r.this = full
    BY <1>3, <1>10 DEF Returned, Outcome
  <2> QED
    BY <1>3, <1>4, <1>10, <2>1 DEF Usable
<1> QED
  BY <1>7, <1>8, <1>9, <1>10

(* OpenInput of lndsr: what it returns has bands and a QA file, all open,  *)
(* and as many lines as the metadata say.  With metadata it has read once  *)
(* it returns NULL only for a band that does not open.                     *)
Readable(x) == Identified(x.m) /\ (Dated(x.m) => x.m.dated)

LEMMA LndsrOpens ==
  ASSUME NEW x \in SceneFiles, NEW thermal \in BOOLEAN, NEW r \in LndsrOpenInput(x, thermal)
  PROVE  /\ r \in Outcome /\ r.left = {}
         /\ r.ret # "input" => r.this = Unread
         /\ r.ret = "input" =>
              /\ Usable(r.this) /\ r.this.openOther /\ Readable(x)
              /\ r.this.names # << >> /\ r.this.open # {} /\ r.this.lines = x.m.lines
         /\ r.ret = "NULL" /\ Readable(x) =>
              \E i \in DOMAIN LndsrNames(x, thermal).names :
                 ~Opens(x.disk, LndsrNames(x, thermal).names[i])
         /\ r.ret = "crash" =>
              ~Identified(x.m) \/ Unopened(LndsrNames(x, thermal), x.disk)
<1> DEFINE xml == LndsrXML(x, thermal)
           named == LndsrNames(x, thermal)
<1>1. named \in Input /\ named.open = {} /\ 1 \in DOMAIN named.names
  <2>1. Len(Bands) \in Nat /\ Len(Bands) >= 1 /\ DOMAIN Bands = 1 .. Len(Bands)
    BY BandsAssumption
  <2>2. \A i \in DOMAIN Bands : ToaRefl(Bands[i]) \in Files
    BY DEF Files, ToaFiles
  <2>3. ToaRefl("qa") \in Files /\ ToaBt("6") \in Files /\ ToaBt("6_qa") \in Files
    BY DEF Files, ToaFiles
  <2>4. \A f \in Files : Listed(x, f) \in Files \union {NULL}
    BY DEF Listed
  <2> HIDE DEF named
  <2>5. CASE thermal
    <3> DEFINE names == <<Listed(x, ToaBt("6"))>>
    <3>1. names \in Names /\ 1 \in DOMAIN names
      BY <2>3, <2>4 DEF Names
    <3>2. named = [Unread EXCEPT !.names = names, !.other = Listed(x, ToaBt("6_qa"))]
      BY <2>5 DEF named, LndsrNames
    <3> HIDE DEF names
    <3> QED
      BY <2>3, <2>4, <3>1, <3>2, UnreadInput DEF Input
  <2>6. CASE ~thermal
    <3> DEFINE names == [i \in DOMAIN Bands |-> Listed(x, ToaRefl(Bands[i]))]
    <3>1. names \in [1 .. Len(Bands) -> Files \union {NULL}]
      BY <2>1, <2>2, <2>4
    <3>2. names \in Names /\ 1 \in DOMAIN names
      BY <2>1, <3>1 DEF Names
    <3>3. named = [Unread EXCEPT !.names = names, !.other = Listed(x, ToaRefl("qa"))]
      BY <2>6 DEF named, LndsrNames
    <3> HIDE DEF names
    <3> QED
      BY <2>3, <2>4, <3>2, <3>3, UnreadInput DEF Input
  <2> QED
    BY <2>5, <2>6
<1> HIDE DEF named
<1>2. x.m.lines \in Nat /\ x.m.dated \in BOOLEAN
  <2>1. x.m \in Metadatas
    BY DEF SceneFiles
  <2> QED
    BY <2>1 DEF Metadatas
<1>3. \/ xml.this = Unread /\ ~Identified(x.m)
      \/ /\ xml.this = named /\ named.names[1] = NULL
         /\ xml.ok /\ Identified(x.m)
      \/ /\ xml.this \in Input /\ xml.this.open = {} /\ xml.this.lines = x.m.lines
         /\ 1 \in DOMAIN xml.this.names /\ Identified(x.m)
         /\ xml.this.names = named.names /\ xml.this.other = named.other
         /\ xml.ok <=> Readable(x)
  <2> DEFINE sized == [named EXCEPT !.lines = x.m.lines]
             dated == [sized EXCEPT !.dated = x.m.dated]
  <2>1. /\ sized \in Input /\ sized.open = {} /\ sized.lines = x.m.lines
        /\ 1 \in DOMAIN sized.names
        /\ sized.names = named.names /\ sized.other = named.other
    BY <1>1, <1>2 DEF Input
  <2> HIDE DEF sized
  <2>2. /\ dated \in Input /\ dated.open = {} /\ dated.lines = x.m.lines
        /\ 1 \in DOMAIN dated.names
        /\ dated.names = named.names /\ dated.other = named.other
    BY <1>2, <2>1 DEF Input
  <2> HIDE DEF dated
  <2>3. \/ xml.this = Unread /\ ~Identified(x.m)
        \/ xml.this = named /\ named.names[1] = NULL /\ xml.ok /\ Identified(x.m)
        \/ xml.this = sized /\ xml.ok /\ Identified(x.m) /\ ~Dated(x.m)
        \/ xml.this = dated /\ (xml.ok <=> x.m.dated) /\ Identified(x.m) /\ Dated(x.m)
    BY <1>2 DEF LndsrXML, Checked, named, sized, dated, Dated
  <2> HIDE DEF xml
  <2> QED
    BY <2>1, <2>2, <2>3 DEF Readable
<1>4. (xml.ok /\ r \in OpenFiles(xml.this, x.disk, TRUE)) \/ (~xml.ok /\ r = ReturnedNull({}))
  BY DEF LndsrOpenInput
<1> HIDE DEF xml
<1>5. CASE ~xml.ok /\ r = ReturnedNull({})
  <2>1. r.ret = "NULL" /\ r \in Outcome /\ r.left = {} /\ r.this = Unread
    BY <1>5, UnreadInput DEF ReturnedNull, Outcome
  <2>2. ~Readable(x)
    BY <1>3, <1>5 DEF Readable
  <2> QED
    BY <2>1, <2>2
<1>6. CASE xml.ok /\ r \in OpenFiles(xml.this, x.disk, TRUE)
  <2>1. xml.this \in Input /\ xml.this.open = {}
    BY <1>1, <1>3, UnreadInput
  <2>2. /\ r \in Outcome /\ r.left = {}
        /\ r.ret # "input" => r.this = Unread
        /\ r.ret = "input" =>
              /\ r.this.names = xml.this.names /\ r.this.lines = xml.this.lines
              /\ Usable(r.this) /\ r.this.openOther = TRUE
              /\ \A i \in DOMAIN xml.this.names : Opens(x.disk, xml.this.names[i])
        /\ r.ret = "NULL" => \E i \in DOMAIN xml.this.names : ~Opens(x.disk, xml.this.names[i])
        /\ r.ret = "crash" => Unopened(xml.this, x.disk)
    <3>1. TRUE \in BOOLEAN
      OBVIOUS
    <3>2. PICK this : this = xml.this
      OBVIOUS
    <3>3. this \in Input /\ this.open = {} /\ r \in OpenFiles(this, x.disk, TRUE)
      BY <1>6, <2>1, <3>2
    <3>4. /\ r \in Outcome /\ r.left = {}
          /\ r.ret # "input" => r.this = Unread
          /\ r.ret = "input" =>
                /\ r.this.names = this.names /\ r.this.lines = this.lines
                /\ Usable(r.this) /\ r.this.openOther = TRUE
                /\ \A i \in DOMAIN this.names : Opens(x.disk, this.names[i])
          /\ r.ret = "NULL" => \E i \in DOMAIN this.names : ~Opens(x.disk, this.names[i])
          /\ r.ret = "crash" => Unopened(this, x.disk) \/ (~TRUE /\ this.names # << >>)
      BY <3>1, <3>3, OpensFiles, Zenon
    <3> QED
      BY <3>2, <3>4
  <2>3. ASSUME r.ret = "input" PROVE xml.this.lines = x.m.lines /\ 1 \in DOMAIN xml.this.names
    <3>1. xml.this # Unread
      <4>1. r.this.openOther
        BY <2>2, <2>3
      <4>2. Unread.other = NULL /\ ~Opens(x.disk, NULL)
        BY DEF Unread, Opens
      <4>3. ASSUME xml.this = Unread PROVE FALSE
        <5> DEFINE tried == [Unread EXCEPT !.open = OpenBands(Unread, x.disk),
                                           !.openOther = TRUE /\ Opens(x.disk, Unread.other)]
        <5>1. tried.openOther = FALSE
          BY <4>2 DEF Unread
        <5>2. Unread \in Input /\ Unread.open = {} /\ r \in OpenFiles(Unread, x.disk, TRUE)
          BY <1>6, <4>3, UnreadInput
        <5> HIDE DEF tried
        <5>3. r = Crashed
          BY <5>1, <5>2, <4>2, Zenon DEF OpenFiles, tried
        <5> QED
          BY <2>3, <5>3 DEF Crashed
      <4> QED
        BY <4>3
    <3>2. ~(xml.this = named /\ named.names[1] = NULL)
      BY <1>1, <2>2, <2>3 DEF Opens
    <3> QED
      BY <1>3, <3>1, <3>2
  <2>4. ASSUME r.ret = "input" PROVE Readable(x)
    <3>1. xml.this # Unread
      BY <2>3, <2>4 DEF Unread
    <3>2. ~(xml.this = named /\ named.names[1] = NULL)
      BY <1>1, <2>2, <2>4 DEF Opens
    <3> QED
      BY <1>3, <1>6, <3>1, <3>2
  <2>5. ~Identified(x.m) \/ (xml.this.names = named.names /\ xml.this.other = named.other)
    BY <1>3
  <2>6. ASSUME r.ret = "NULL", Readable(x)
        PROVE  \E i \in DOMAIN named.names : ~Opens(x.disk, named.names[i])
    BY <2>2, <2>5, <2>6 DEF Readable
  <2>7. ASSUME r.ret = "crash" PROVE ~Identified(x.m) \/ Unopened(named, x.disk)
    BY <2>2, <2>5, <2>7 DEF Unopened
  <2> QED
    BY <2>2, <2>3, <2>4, <2>6, <2>7 DEF Usable, named
<1> QED
  BY <1>4, <1>5, <1>6

(* OpenInput of lndcal: what it returns has all its bands and the thermal  *)
(* file open, or no bands when the metadata are not identified.            *)
LEMMA LndcalOpens ==
  ASSUME NEW x \in SceneFiles, NEW r \in LndcalOpenInput(x)
  PROVE  /\ r \in Outcome /\ r.left = {} /\ Usable(r.this)
         /\ r.ret = "input" =>
              IF Identified(x.m) THEN Len(r.this.names) = Len(Bands) /\ r.this.openOther
              ELSE r.this.names = << >> /\ r.this.lines < 0
         /\ r.ret = "crash" => Unopened(LndcalNames(x), x.disk)
<1> DEFINE xml == LndcalXML(x)
           named == LndcalNames(x)
<1>1. named \in Input /\ named.open = {} /\ Len(named.names) = Len(Bands)
  <2>1. Len(Bands) \in Nat /\ DOMAIN Bands = 1 .. Len(Bands)
    BY BandsAssumption
  <2>2. \A i \in DOMAIN Bands : Level1(Bands[i]) \in Files
    BY DEF Files, Level1Files
  <2>3. Level1("6") \in Files /\ Level1("61") \in Files
    BY DEF Files, Level1Files
  <2>4. \A f \in Files : Listed(x, f) \in Files \union {NULL}
    BY DEF Listed
  <2>5. x.m.lines \in Nat
    <3>1. x.m \in Metadatas
      BY DEF SceneFiles
    <3> QED
      BY <3>1 DEF Metadatas
  <2> DEFINE names == [i \in DOMAIN Bands |-> Listed(x, Level1(Bands[i]))]
             other == Listed(x, Level1(IF x.m.instrument = "TM" THEN "6" ELSE "61"))
  <2>6. names \in [1 .. Len(Bands) -> Files \union {NULL}]
    BY <2>1, <2>2, <2>4
  <2>7. names \in Names /\ Len(names) = Len(Bands)
    BY <2>1, <2>6 DEF Names
  <2>8. other \in Files \union {NULL}
    <3>1. Level1(IF x.m.instrument = "TM" THEN "6" ELSE "61") \in Files
      BY <2>3
    <3> QED
      BY <2>4, <3>1, Zenon
  <2>9. named = [Unread EXCEPT !.names = names, !.other = other, !.lines = x.m.lines]
    BY DEF LndcalNames
  <2> HIDE DEF named, names, other
  <2> QED
    BY <2>5, <2>7, <2>8, <2>9, UnreadInput DEF Input
<1> HIDE DEF named
<1>2. /\ xml.this \in Input /\ xml.this.open = {}
      /\ IF Identified(x.m)
         THEN /\ xml.this.names = named.names /\ xml.this.other = named.other
              /\ Len(xml.this.names) = Len(Bands)
         ELSE xml.this = Unread
  <2> DEFINE dated == [named EXCEPT !.dated = LndcalDates(x)]
  <2>1. LndcalDates(x) \in BOOLEAN
    <3>1. x.m \in Metadatas
      BY DEF SceneFiles
    <3> QED
      BY <3>1 DEF LndcalDates, Metadatas
  <2>2. /\ dated \in Input /\ dated.open = {}
        /\ dated.names = named.names /\ dated.other = named.other
    BY <1>1, <2>1 DEF Input
  <2> HIDE DEF dated
  <2>3. IF Identified(x.m) THEN xml.this = named \/ xml.this = dated ELSE xml.this = Unread
    BY DEF LndcalXML, Checked, named, dated
  <2> HIDE DEF xml
  <2> QED
    BY <1>1, <2>2, <2>3, UnreadInput
<1>3. \/ r = ReturnedNull({})
      \/ r \in OpenFiles(xml.this, x.disk, xml.this.names # << >>)
  BY DEF LndcalOpenInput
<1> HIDE DEF xml
<1>4. Usable(Unread)
  BY UnreadInput DEF Usable
<1>5. CASE r = ReturnedNull({})
  BY <1>4, <1>5, UnreadInput DEF ReturnedNull, Outcome
<1>6. CASE r \in OpenFiles(xml.this, x.disk, xml.this.names # << >>)
  <2> DEFINE wanted == xml.this.names # << >>
  <2>1. wanted \in BOOLEAN /\ r \in OpenFiles(xml.this, x.disk, wanted)
    BY <1>6
  <2>2. Identified(x.m) => wanted
    BY <1>2, BandsAssumption DEF Unread
  <2>3. ~Identified(x.m) => ~wanted
    BY <1>2 DEF Unread
  <2>4. ~wanted => xml.this.names = << >>
    OBVIOUS
  <2> HIDE DEF wanted
  <2>5. PICK this : this = xml.this
    OBVIOUS
  <2>6. this \in Input /\ this.open = {} /\ r \in OpenFiles(this, x.disk, wanted)
    BY <1>2, <2>1, <2>5
  <2>7. /\ r \in Outcome /\ r.left = {}
        /\ r.ret # "input" => r.this = Unread
        /\ r.ret = "input" =>
              /\ r.this.names = this.names /\ r.this.lines = this.lines
              /\ Usable(r.this) /\ r.this.openOther = wanted
        /\ r.ret = "crash" => Unopened(this, x.disk) \/ (~wanted /\ this.names # << >>)
    BY <2>1, <2>6, OpensFiles
  <2>8. Usable(r.this)
    BY <1>4, <2>7, Zenon
  <2>9. ASSUME r.ret = "input"
        PROVE  IF Identified(x.m) THEN Len(r.this.names) = Len(Bands) /\ r.this.openOther
               ELSE r.this.names = << >> /\ r.this.lines < 0
    <3>1. Unread.names = << >> /\ Unread.lines = -1
      BY DEF Unread
    <3> QED
      BY <1>2, <2>2, <2>5, <2>7, <2>9, <3>1
  <2>10. ASSUME r.ret = "crash" PROVE Unopened(named, x.disk)
    <3>1. Unopened(this, x.disk)
      BY <2>4, <2>5, <2>7, <2>10
    <3>2. CASE Identified(x.m)
      BY <1>2, <2>5, <3>1, <3>2 DEF Unopened
    <3>3. CASE ~Identified(x.m)
      <4>1. this.names = << >> /\ ~wanted
        BY <2>3, <2>4, <2>5, <3>3
      <4>2. OpenFiles(this, x.disk, wanted) = {Returned([this EXCEPT !.open = OpenBands(this, x.disk), !.openOther = FALSE])}
        <5>1. DOMAIN this.names = {} /\ OpenBands(this, x.disk) = {}
          BY <4>1 DEF OpenBands
        <5>2. wanted = FALSE
          BY <2>1, <4>1
        <5> QED
          BY <2>6, <5>1, <5>2 DEF OpenFiles, Input
      <4> QED
        BY <2>6, <2>10, <4>2 DEF Returned
    <3> QED
      BY <3>2, <3>3
  <2> QED
    BY <2>7, <2>8, <2>9, <2>10 DEF named
<1> QED
  BY <1>3, <1>5, <1>6

-----------------------------------------------------------------------------
Mask == [line : Int, casts : SUBSET Int, dark : Int]
Block == [1 .. Region -> Mask]
Ozones == [ozone : {"-1", "file", "unknown"}]
            \union [ozone : {"climatology"}, months : Seq(Int), lats : Seq(Int)]
Outputs == {NoFile} \union [scene : Scenes, band : 1 .. SixsBands, aot : 1 .. Len(Aots),
                            ozone : Ozones]
Coefs == UNION {[D -> 0 .. Len(Aots) - 2] : D \in SUBSET Int}

InSetup  == {"thermal", "ancillary", "output", "allocate", "anc"}
InSixs   == {"command", "bash", "read"}
InPasses == {"pass1", "pass2", "pass3", "pass4"}
InFinish == {"close", "headers", "append"}
Tabled   == {"unlink", "grid"} \union InPasses \union InFinish
HasOutput == {"allocate", "anc"} \union InSixs \union Tabled
Places   == Stopped \union InSetup \union InSixs \union Tabled

Run == [at : Places, scene : Scenes \union {"none"}, run : Nat, input : Input, b6 : Input,
        left : {{}}, thermal : BOOLEAN, warned : BOOLEAN, sixs : BOOLEAN,
        climatology : BOOLEAN, band : 1 .. SixsBands, aot : 1 .. Len(Aots),
        bandTable : [1 .. SixsBands -> Outputs],
        aotTable : [1 .. SixsBands -> [1 .. Len(Aots) -> Outputs]],
        il : Nat, rotCld : Block \X Block \X Block, tmp : Seq(Mask), aerosol : Seq(Int),
        coefs : Coefs]
Calibration == [at : {"level1", "open", "toa", "failed", "crashed"}, this : Input, il : Nat,
                left : {{}}]

(* The metadata are those the scenes had at first.                         *)
Given == \E x \in Inputs : \A s \in Scenes : Metadata(s) = x[s].m
Typed ==
    /\ files \in [Scenes -> SceneFiles] /\ Given
    /\ lndcal \in [Scenes -> Calibration]
    /\ \A s \in Scenes : lndcal[s].at = "open" => Usable(lndcal[s].this)
    /\ pr \in [Procs -> Run] /\ runs \in 0 .. MaxRuns /\ temps \subseteq 1 .. runs
    /\ DOMAIN sixsCmd = SixsNames /\ DOMAIN sixsOut = SixsNames
    /\ DOMAIN out = Scenes
    /\ \A s \in Scenes : DOMAIN out[s] = {} \/ DOMAIN out[s] = 0 .. Metadata(s).lines - 1
    /\ headers \subseteq Scenes /\ published \subseteq Scenes /\ unfinished \subseteq Scenes

(* One process works on a scene, and a run has its number to itself.       *)
Active(p) == pr[p].at \notin Stopped
Apart(p, q) ==
    /\ Active(p) /\ Active(q) => SceneOf(p) # SceneOf(q)
    /\ pr[p].run = pr[q].run => pr[p].run = 0
Unique == \A p, q \in Procs : p # q => Apart(p, q)

(* What a process works on and holds open.                                 *)
Held(p) ==
    /\ Active(p) =>
          /\ SceneOf(p) \in Scenes /\ pr[p].run >= 1
          /\ Lines(p) = Metadata(SceneOf(p)).lines
    /\ pr[p].at \in HasOutput => SceneOf(p) \in unfinished
    /\ pr[p].at \notin Stopped \union {"headers", "append"} =>
          pr[p].input.names # << >> /\ Usable(pr[p].input) /\ pr[p].input.openOther
    /\ pr[p].thermal <=> pr[p].b6.open # {}
    /\ pr[p].run <= runs
    /\ pr[p].at \in InFinish \union {"done"} => pr[p].run >= 1 /\ pr[p].run \notin temps

(* How far the tables are filled, and what is in the 6S files.             *)
Filled(p) ==
    \A i \in 1 .. SixsBands :
        /\ pr[p].bandTable[i] = IF i < pr[p].band \/ (i = pr[p].band /\ pr[p].aot > 1)
                                THEN Command(p, i, 1) ELSE NoFile
        /\ \A j \in 1 .. Len(Aots) :
              pr[p].aotTable[i][j] = IF i < pr[p].band \/ (i = pr[p].band /\ j < pr[p].aot)
                                     THEN Command(p, i, j) ELSE NoFile
AllFilled(p) ==
    \A i \in 1 .. SixsBands :
        /\ pr[p].bandTable[i] = Command(p, i, 1)
        /\ \A j \in 1 .. Len(Aots) : pr[p].aotTable[i][j] = Command(p, i, j)
Tables(p) ==
    /\ pr[p].at \in Stopped \union InSetup =>
          /\ pr[p].bandTable = Idle.bandTable /\ pr[p].aotTable = Idle.aotTable
          /\ pr[p].band = 1 /\ pr[p].aot = 1
    /\ pr[p].at \in InSixs => Filled(p)
    /\ pr[p].at \in Tabled => AllFilled(p)
    /\ pr[p].at = "bash" => sixsCmd[Name(p)] = Command(p, pr[p].band, pr[p].aot)
    /\ pr[p].at = "read" => sixsOut[Name(p)] = Command(p, pr[p].band, pr[p].aot)
    /\ pr[p].at \in Tabled \ {"unlink"} =>
          sixsCmd[Name(p)] = NoFile /\ sixsOut[Name(p)] = NoFile

(* The aerosols retrieved so far, and the entries chosen for them.         *)
RetrievedTo(p, b) ==
    /\ pr[p].il = b * Region /\ Len(pr[p].aerosol) = b
    /\ \A k \in 1 .. b : pr[p].aerosol[k] = Retrieved[k - 1]
Aerosols(p) ==
    /\ pr[p].at \notin InPasses \union InFinish => pr[p].coefs = << >>
    /\ pr[p].at \notin {"pass3", "pass4"} \union InFinish => pr[p].aerosol = << >>
    /\ pr[p].at = "pass3" => \E b \in Nat : RetrievedTo(p, b)
    /\ pr[p].at = "pass4" =>
          \A b \in Blocks(p) : Brackets(Aot550(NoGap(b, Retrieved[b])), pr[p].coefs[b])

(* The mask of a line; what is saved of the masks, with the dark targets   *)
(* of the lines before some line.                                          *)
Casts(p, b) == {b - 1, b, b + 1} \intersect Blocks(p)
MaskOf(p, x, dark) == [line |-> x, casts |-> Casts(p, x \div Region), dark |-> dark]
ImageLines(p) == 0 .. Lines(p) - 1
Saves(p, end) ==
    \A x \in ImageLines(p) : x + 1 \in DOMAIN pr[p].tmp =>
        pr[p].tmp[x + 1] = MaskOf(p, x, IF x < end THEN x \div Region ELSE -1)

(* Before the row k of the second pass the buffers hold the rows k - 1,    *)
(* k and k + 1, marked by the rows before k.                               *)
Buffered(p, k) ==
    \A r \in 1 .. Region :
        /\ (k - 1) * Region + r - 1 \in ImageLines(p) =>
              pr[p].rotCld[1][r] = [line |-> (k - 1) * Region + r - 1,
                                    casts |-> {k - 2, k - 1} \intersect Nat, dark |-> -1]
        /\ pr[p].rotCld[2][r] = [line |-> -1, casts |-> {k - 1} \intersect Nat, dark |-> -1]
        /\ pr[p].rotCld[3][r] = Blank
SavedRows(p, k) ==
    /\ pr[p].il = k * Region /\ (k > 0 => (k - 1) * Region < Lines(p))
    /\ Len(pr[p].tmp) = IF k = 0 THEN 0 ELSE (k - 1) * Region
    /\ pr[p].thermal => Saves(p, 0) /\ Buffered(p, k)
Masks(p) ==
    /\ pr[p].at # "pass2" => pr[p].rotCld = <<BlankBlock, BlankBlock, BlankBlock>>
    /\ pr[p].at \notin {"pass2", "pass3", "pass4"} => pr[p].tmp = << >>
    /\ \E n \in Nat : Len(pr[p].tmp) = n * Region
    /\ pr[p].at = "pass2" => \E k \in Nat : SavedRows(p, k)
    /\ pr[p].at \in {"pass3", "pass4"} => Lines(p) <= Len(pr[p].tmp)
    /\ pr[p].at = "pass3" /\ pr[p].thermal => Saves(p, pr[p].il)
    /\ pr[p].at = "pass4" /\ pr[p].thermal => Saves(p, Lines(p))

(* What is written of the output.                                          *)
QaOf(x) == [line |-> x, dark |-> x \div Region]
Writes(p) ==
    /\ pr[p].at \in HasOutput =>
          DOMAIN out[SceneOf(p)] = ImageLines(p)
    /\ pr[p].at = "pass4" =>
          /\ pr[p].il <= Lines(p)
          /\ \A x \in 0 .. pr[p].il - 1 : out[SceneOf(p)][x] = QaOf(x)
    /\ pr[p].at \in InFinish => \A x \in ImageLines(p) : out[SceneOf(p)][x] # Unwritten
    /\ pr[p].at = "append" => SceneOf(p) \in headers

Proc(p) == Held(p) /\ Tables(p) /\ Aerosols(p) /\ Masks(p) /\ Writes(p)
Finished(s) ==
    /\ DOMAIN out[s] = 0 .. Metadata(s).lines - 1
    /\ \A il \in DOMAIN out[s] : out[s][il] # Unwritten
    /\ s \in headers
    /\ sixsCmd[SixsName(s)] = NoFile /\ sixsOut[SixsName(s)] = NoFile
IInv ==
    /\ Typed /\ Unique
    /\ \A p \in Procs : Proc(p)
    /\ \A s \in published \ unfinished : Finished(s)

-----------------------------------------------------------------------------
LEMMA Thicknesses == Len(Aots) \in Nat /\ Len(Aots) >= 2 /\ 1 \in 1 .. SixsBands /\ SixsBands \in Nat
BY SurfaceAssumption

LEMMA Blanks ==
  /\ Blank \in Mask /\ BlankBlock \in Block
  /\ \A r \in 1 .. Region : BlankBlock[r] = Blank
BY DEF Blank, BlankBlock, Mask, Block

LEMMA NoCoefs == << >> \in Coefs
<1>1. << >> \in [{} -> 0 .. Len(Aots) - 2]
  OBVIOUS
<1> QED
  BY <1>1 DEF Coefs

LEMMA IdleRun == Idle \in Run
<1> DEFINE noBands == [i \in 1 .. SixsBands |-> NoFile]
           noAots == [i \in 1 .. SixsBands |-> [j \in 1 .. Len(Aots) |-> NoFile]]
<1>1. noBands \in [1 .. SixsBands -> Outputs]
  BY DEF Outputs
<1>2. noAots \in [1 .. SixsBands -> [1 .. Len(Aots) -> Outputs]]
  <2>1. [j \in 1 .. Len(Aots) |-> NoFile] \in [1 .. Len(Aots) -> Outputs]
    BY DEF Outputs
  <2> QED
    BY <2>1
<1>3. Idle = [at |-> "idle", scene |-> "none", run |-> 0,
         input |-> Unread, b6 |-> Unread, left |-> {}, thermal |-> FALSE, warned |-> FALSE,
         sixs |-> TRUE, climatology |-> FALSE, band |-> 1, aot |-> 1,
         bandTable |-> noBands, aotTable |-> noAots,
         il |-> 0, rotCld |-> <<BlankBlock, BlankBlock, BlankBlock>>, tmp |-> << >>,
         aerosol |-> << >>, coefs |-> << >>]
  BY DEF Idle
<1> HIDE DEF noBands, noAots
<1>4. "idle" \in Places
  BY DEF Places, Stopped
<1>5. << >> \in Seq(Mask) /\ << >> \in Seq(Int)
  OBVIOUS
<1> QED
  BY <1>1, <1>2, <1>3, <1>4, <1>5, NoCoefs, Blanks, UnreadInput, Thicknesses DEF Run

(* A run's fields, by type.                                                *)
LEMMA Fields ==
  ASSUME Typed, NEW p \in Procs
  PROVE  /\ pr[p] \in Run
         /\ pr[p].at \in Places /\ pr[p].run \in Nat /\ pr[p].input \in Input /\ pr[p].b6 \in Input
         /\ pr[p].thermal \in BOOLEAN /\ pr[p].climatology \in BOOLEAN
         /\ pr[p].band \in 1 .. SixsBands /\ pr[p].aot \in 1 .. Len(Aots)
         /\ pr[p].bandTable \in [1 .. SixsBands -> Outputs]
         /\ pr[p].aotTable \in [1 .. SixsBands -> [1 .. Len(Aots) -> Outputs]]
         /\ pr[p].il \in Nat /\ pr[p].rotCld \in Block \X Block \X Block
         /\ pr[p].tmp \in Seq(Mask) /\ pr[p].aerosol \in Seq(Int) /\ pr[p].coefs \in Coefs
<1>1. pr[p] \in Run
  BY DEF Typed
<1> QED
  BY <1>1 DEF Run

LEMMA Becoming ==
  ASSUME Typed, NEW p \in Procs, NEW r \in Run, Becomes(p, r)
  PROVE  /\ pr' \in [Procs -> Run] /\ pr'[p] = r
         /\ \A q \in Procs \ {p} : pr'[q] = pr[q]
BY DEF Typed, Becomes

-----------------------------------------------------------------------------
(* Steps of others.  What a predicate of a process is about is its own run *)
(* and what is kept under its scene's name.                                *)
LEMMA SameScene ==
  ASSUME NEW q \in Procs, pr'[q] = pr[q], Metadata(SceneOf(q))' = Metadata(SceneOf(q))
  PROVE  /\ SceneOf(q)' = SceneOf(q) /\ Lines(q)' = Lines(q) /\ Name(q)' = Name(q)
         /\ Blocks(q)' = Blocks(q) /\ ImageLines(q)' = ImageLines(q)
         /\ \A i, j : Command(q, i, j)' = Command(q, i, j)
         /\ \A x, dark : MaskOf(q, x, dark)' = MaskOf(q, x, dark)
<1>1. SceneOf(q)' = SceneOf(q) /\ Lines(q)' = Lines(q)
  BY Zenon DEF SceneOf, Lines
<1>2. Name(q)' = Name(q)
  BY Zenon DEF Name, SixsName
<1>3. Blocks(q)' = Blocks(q) /\ ImageLines(q)' = ImageLines(q)
  BY <1>1, Zenon DEF Blocks, ImageLines
<1>4. Ozone(q)' = Ozone(q)
  BY DEF Ozone
<1>5. \A i, j : Command(q, i, j)' = Command(q, i, j)
  BY <1>1, <1>4, Zenon DEF Command
<1>6. \A x, dark : MaskOf(q, x, dark)' = MaskOf(q, x, dark)
  BY <1>3, Zenon DEF MaskOf, Casts
<1> QED
  BY <1>1, <1>2, <1>3, <1>5, <1>6

LEMMA Undisturbed ==
  ASSUME Typed, NEW q \in Procs, Proc(q), pr'[q] = pr[q], runs' \in Nat, runs' >= runs,
         pr[q].run \in temps' => pr[q].run \in temps,
         Active(q) =>
            /\ Metadata(SceneOf(q))' = Metadata(SceneOf(q))
            /\ out'[SceneOf(q)] = out[SceneOf(q)]
            /\ sixsCmd'[Name(q)] = sixsCmd[Name(q)] /\ sixsOut'[Name(q)] = sixsOut[Name(q)]
            /\ SceneOf(q) \in headers => SceneOf(q) \in headers'
            /\ SceneOf(q) \in unfinished => SceneOf(q) \in unfinished'
  PROVE  Proc(q)'
<1>1. pr[q].at \in Places /\ pr[q].run \in Nat /\ runs \in Nat
  BY Fields DEF Typed
<1>2. Held(q)'
  BY <1>1
     DEF Proc, Held, Active, SceneOf, Lines, Usable, HasOutput, Stopped, InSixs, Tabled, InPasses,
         InFinish
<1>3. CASE pr[q].at \in Stopped
  <2>1. Tables(q)'
    BY <1>3 DEF Proc, Tables, Tabled, InSetup, InSixs, InPasses, InFinish, Stopped
  <2>2. Aerosols(q)' /\ Masks(q)'
    BY <1>3 DEF Proc, Aerosols, Masks, InPasses, InFinish, Stopped
  <2>3. Writes(q)'
    BY <1>3 DEF Proc, Writes, HasOutput, Tabled, InSixs, InPasses, InFinish, Stopped
  <2> QED
    BY <1>2, <2>1, <2>2, <2>3 DEF Proc
<1>4. CASE Active(q)
  <2>0. /\ SceneOf(q)' = SceneOf(q) /\ Lines(q)' = Lines(q) /\ Name(q)' = Name(q)
        /\ Blocks(q)' = Blocks(q) /\ ImageLines(q)' = ImageLines(q)
        /\ \A i, j : Command(q, i, j)' = Command(q, i, j)
        /\ \A x, dark : MaskOf(q, x, dark)' = MaskOf(q, x, dark)
    BY <1>4, SameScene
  <2>1. Tables(q)'
    <3>1. (Filled(q) => Filled(q)') /\ (AllFilled(q) => AllFilled(q)')
      BY <2>0 DEF Filled, AllFilled
    <3> QED
      BY <1>4, <2>0, <3>1 DEF Proc, Tables
  <2>2. Aerosols(q)'
    <3>1. \A b \in Nat : RetrievedTo(q, b) => RetrievedTo(q, b)'
      BY DEF RetrievedTo
    <3> QED
      BY <2>0, <3>1 DEF Proc, Aerosols
  <2>3. Masks(q)'
    <3>1. \A end : Saves(q, end) => Saves(q, end)'
      BY <2>0 DEF Saves
    <3>2. \A k \in Nat : SavedRows(q, k) => SavedRows(q, k)'
      BY <2>0, <3>1 DEF SavedRows, Buffered
    <3> QED
      BY <2>0, <3>1, <3>2 DEF Proc, Masks
  <2>4. Writes(q)'
    BY <1>4, <2>0 DEF Proc, Writes
  <2> QED
    BY <1>2, <2>1, <2>2, <2>3, <2>4 DEF Proc
<1> QED
  BY <1>3, <1>4 DEF Active

LEMMA NamesApart ==
  ASSUME Typed, NEW s \in Scenes, NEW t \in Scenes, s # t
  PROVE  SixsName(s) # SixsName(t)
<1>1. PICK x \in Inputs : \A u \in Scenes : Metadata(u) = x[u].m
  BY DEF Typed, Given
<1>2. NameOf(x[s].m) # NameOf(x[t].m)
  BY <1>1, InputsAssumption
<1> QED
  BY <1>1, <1>2 DEF SixsName

(* What a step of p leaves as it is: the other runs, and what is kept      *)
(* under the names of other scenes.                                        *)
Elsewhere(p) ==
    /\ UNCHANGED <<files, lndcal, runs>>
    /\ \A q \in Procs \ {p} : pr'[q] = pr[q]
    /\ SceneOf(p)' = SceneOf(p) /\ pr'[p].run = pr[p].run
    /\ \A s \in Scenes \ {SceneOf(p)} :
          /\ out'[s] = out[s]
          /\ sixsCmd'[SixsName(s)] = sixsCmd[SixsName(s)]
          /\ sixsOut'[SixsName(s)] = sixsOut[SixsName(s)]
          /\ s \in headers => s \in headers'
          /\ s \in unfinished <=> s \in unfinished'
    /\ temps' \subseteq temps \union {pr[p].run}
    /\ published' \subseteq published \union {SceneOf(p)}
WellFormed(p) ==
    /\ pr' \in [Procs -> Run]
    /\ DOMAIN sixsCmd' = SixsNames /\ DOMAIN sixsOut' = SixsNames /\ DOMAIN out' = Scenes
    /\ DOMAIN out'[SceneOf(p)] = {} \/ DOMAIN out'[SceneOf(p)] = ImageLines(p)
    /\ headers' \subseteq Scenes /\ published' \subseteq Scenes /\ unfinished' \subseteq Scenes
Moves(p) == Elsewhere(p) /\ WellFormed(p) /\ Proc(p)'

LEMMA SameMetadata ==
  ASSUME Typed, files' \in [Scenes -> SceneFiles], \A s \in Scenes : files'[s].m = files[s].m
  PROVE  /\ Given' /\ SixsNames' = SixsNames
         /\ \A s \in Scenes : Metadata(s)' = Metadata(s) /\ SixsName(s)' = SixsName(s)
<1>1. \A s \in Scenes : Metadata(s)' = Metadata(s)
  BY DEF Metadata
<1>2. \A s \in Scenes : SixsName(s)' = SixsName(s)
  BY <1>1, Zenon DEF SixsName
<1>3. SixsNames' = SixsNames
  BY <1>2 DEF SixsNames
<1>4. Given'
  BY <1>1 DEF Typed, Given
<1> QED
  BY <1>1, <1>2, <1>3, <1>4

LEMMA Others ==
  ASSUME IInv, NEW p \in Procs, Active(p), Moves(p),
         SceneOf(p) \in published' \ unfinished' => Finished(SceneOf(p))'
  PROVE  IInv'
<1>1. PICK scene \in Scenes :
      /\ scene = SceneOf(p) /\ Typed
      /\ Lines(p) = Metadata(scene).lines /\ pr[p].run \in 1 .. runs /\ runs \in Nat
  <2>1. Typed /\ Held(p)
    BY DEF IInv, Proc
  <2> QED
    BY <2>1, Fields DEF Held, Typed
<1>2. files' = files /\ lndcal' = lndcal /\ runs' = runs
  BY DEF Moves, Elsewhere
<1>3. Given' /\ SixsNames' = SixsNames
      /\ \A s \in Scenes : Metadata(s)' = Metadata(s) /\ SixsName(s)' = SixsName(s)
  BY <1>1, <1>2, SameMetadata DEF Typed
<1>4. Typed'
  <2>1. \A s \in Scenes : DOMAIN out'[s] = {} \/ DOMAIN out'[s] = 0 .. Metadata(s).lines - 1
    BY <1>1 DEF Moves, Elsewhere, WellFormed, Typed, ImageLines
  <2>2. temps' \subseteq 1 .. runs
    BY <1>1 DEF Moves, Elsewhere, Typed
  <2> QED
    BY <1>1, <1>2, <1>3, <2>1, <2>2 DEF Moves, WellFormed, Typed
<1>5. Unique'
  <2>1. \A q \in Procs : SceneOf(q)' = SceneOf(q) /\ pr'[q].run = pr[q].run
                         /\ (Active(q)' => Active(q))
    BY DEF Moves, Elsewhere, SceneOf, Active
  <2> QED
    BY <2>1 DEF IInv, Unique, Apart
<1>6. ASSUME NEW q \in Procs, q # p PROVE Proc(q)'
  <2>1. pr'[q] = pr[q] /\ Proc(q) /\ Apart(q, p)
    BY <1>6 DEF Moves, Elsewhere, IInv, Unique
  <2>2. pr[q].run \in temps' => pr[q].run \in temps
    <3>1. temps' \subseteq temps \union {pr[p].run}
      BY DEF Moves, Elsewhere
    <3>2. pr[q].run # pr[p].run
      BY <1>1, <2>1 DEF Apart
    <3> QED
      BY <3>1, <3>2, Zenon
  <2>3. ASSUME Active(q)
        PROVE  /\ Metadata(SceneOf(q))' = Metadata(SceneOf(q))
               /\ out'[SceneOf(q)] = out[SceneOf(q)]
               /\ sixsCmd'[Name(q)] = sixsCmd[Name(q)] /\ sixsOut'[Name(q)] = sixsOut[Name(q)]
               /\ SceneOf(q) \in headers => SceneOf(q) \in headers'
               /\ SceneOf(q) \in unfinished => SceneOf(q) \in unfinished'
    <3>1. SceneOf(q) \in Scenes /\ SceneOf(q) # scene
      BY <1>1, <2>1, <2>3 DEF Proc, Held, Apart
    <3>2. Metadata(SceneOf(q))' = Metadata(SceneOf(q))
      BY <1>2, <2>1 DEF Metadata, SceneOf
    <3> QED
      BY <1>1, <3>1, <3>2 DEF Moves, Elsewhere, Name
  <2> QED
    BY <1>1, <1>2, <2>1, <2>2, <2>3, Undisturbed
<1>7. ASSUME NEW s \in published' \ unfinished' PROVE Finished(s)'
  <2>1. CASE s = scene
    <3>1. SceneOf(p)' = scene /\ (scene \in published' \ unfinished' => Finished(SceneOf(p))')
      BY <1>1 DEF Moves, Elsewhere
    <3>2. Finished(SceneOf(p))' => Finished(scene)'
      BY <3>1, Zenon DEF Finished, Metadata, SixsName
    <3> QED
      BY <2>1, <3>1, <3>2
  <2>2. CASE s # scene
    <3>1. s \in Scenes /\ s \in published \ unfinished
      BY <1>1, <2>2 DEF Moves, Elsewhere, WellFormed
    <3>2. Finished(s)
      BY <3>1 DEF IInv
    <3> QED
      BY <1>1, <1>3, <2>2, <3>1, <3>2 DEF Moves, Elsewhere, Finished
  <2> QED
    BY <2>1, <2>2
<1> QED
  BY <1>4, <1>5, <1>6, <1>7 DEF IInv, Moves

(* What a run has not used yet; nothing is in use before it starts and     *)
(* after it ends.                                                          *)
Clear(r) ==
    /\ r.bandTable = Idle.bandTable /\ r.aotTable = Idle.aotTable
    /\ r.band = 1 /\ r.aot = 1 /\ r.coefs = << >> /\ r.aerosol = << >> /\ r.tmp = << >>
    /\ r.rotCld = <<BlankBlock, BlankBlock, BlankBlock>>
Unused(r) == r.at \in Stopped /\ r.thermal = FALSE /\ r.b6 = Unread /\ Clear(r)

LEMMA UnusedProc ==
  ASSUME NEW p \in Procs, Unused(pr'[p]), runs' \in Nat, pr'[p].run \in Nat,
         pr'[p].run <= runs',
         pr'[p].at = "done" => pr'[p].run >= 1 /\ pr'[p].run \notin temps'
  PROVE  Proc(p)'
<1> USE DEF Unused, Clear
<1>1. Held(p)'
  BY UnreadInput
     DEF Held, Active, Stopped, HasOutput, InSixs, Tabled, InPasses, InFinish
<1>2. Tables(p)'
  BY DEF Tables, Tabled, InSetup, InSixs, InPasses, InFinish, Stopped
<1>3. Aerosols(p)'
  BY DEF Aerosols, InPasses, InFinish, Stopped
<1>4. Masks(p)'
  <2>1. Len(pr'[p].tmp) = 0 * Region
    BY SurfaceAssumption
  <2> QED
    BY <2>1 DEF Masks, Stopped
<1>5. Writes(p)'
  BY DEF Writes, HasOutput, Tabled, InSixs, InPasses, InFinish, Stopped
<1> QED
  BY <1>1, <1>2, <1>3, <1>4, <1>5 DEF Proc

LEMMA Exiting ==
  ASSUME Typed, NEW p \in Procs, NEW how \in {"failed", "crashed", "done"}, Exit(p, how)
  PROVE  /\ pr' \in [Procs -> Run] /\ Unused(pr'[p]) /\ pr'[p].at = how
         /\ pr'[p].scene = pr[p].scene /\ pr'[p].run = pr[p].run
         /\ \A q \in Procs \ {p} : pr'[q] = pr[q]
<1> DEFINE r == Exited(p, how)
<1>1. /\ r.at = how /\ r.scene = pr[p].scene /\ r.run = pr[p].run
      /\ r.thermal = FALSE /\ r.b6 = Unread
      /\ r.bandTable = Idle.bandTable /\ r.aotTable = Idle.aotTable
      /\ r.band = 1 /\ r.aot = 1 /\ r.coefs = << >> /\ r.aerosol = << >> /\ r.tmp = << >>
      /\ r.rotCld = <<BlankBlock, BlankBlock, BlankBlock>>
  BY DEF Exited, Idle
<1>2. r \in Run
  <2>1. pr[p] \in Run
    BY Fields
  <2>2. pr[p].scene \in Scenes \union {"none"} /\ pr[p].run \in Nat /\ pr[p].warned \in BOOLEAN
    BY <2>1 DEF Run
  <2>3. how \in Places
    BY DEF Places, Stopped
  <2> QED
    BY <2>2, <2>3, IdleRun DEF Exited, Run
<1>3. pr' = [pr EXCEPT ![p] = r]
  BY DEF Exit
<1> HIDE DEF r
<1>4. pr' \in [Procs -> Run] /\ pr'[p] = r /\ \A q \in Procs \ {p} : pr'[q] = pr[q]
  BY <1>2, <1>3 DEF Typed
<1> QED
  BY <1>1, <1>4 DEF Unused, Clear, Stopped

LEMMA ExitMoves ==
  ASSUME Typed, NEW p \in Procs, Proc(p), Active(p),
         NEW how \in {"failed", "crashed", "done"}, Exit(p, how),
         how = "done" => pr[p].run \notin temps,
         published' = published \/ published' = published \union {SceneOf(p)},
         unfinished' = unfinished \/ unfinished' = unfinished \ {SceneOf(p)},
         DOMAIN sixsOut' = SixsNames,
         \A s \in Scenes \ {SceneOf(p)} : sixsOut'[SixsName(s)] = sixsOut[SixsName(s)],
         UNCHANGED <<files, lndcal, runs, sixsCmd, temps, out, headers>>
  PROVE  Moves(p)
<1>1. /\ pr' \in [Procs -> Run] /\ Unused(pr'[p]) /\ pr'[p].at = how
      /\ SceneOf(p)' = SceneOf(p) /\ pr'[p].run = pr[p].run
      /\ \A q \in Procs \ {p} : pr'[q] = pr[q]
  BY Exiting DEF SceneOf
<1>2. /\ SceneOf(p) \in Scenes /\ Lines(p) = Metadata(SceneOf(p)).lines
      /\ pr[p].run >= 1 /\ pr[p].run <= runs /\ pr[p].run \in Nat /\ runs \in Nat
  BY Fields DEF Proc, Held, Typed
<1>3. Proc(p)'
  BY <1>1, <1>2, UnusedProc
<1>4. Elsewhere(p)
  BY <1>1 DEF Elsewhere
<1>5. WellFormed(p)
  BY <1>1, <1>2 DEF WellFormed, Typed, ImageLines
<1> QED
  BY <1>3, <1>4, <1>5 DEF Moves

(* What is published stays whole while nothing of it changes.              *)
LEMMA Untouched ==
  ASSUME IInv, NEW s, UNCHANGED <<files, dirVars>>, s \in published' \ unfinished'
  PROVE  Finished(s)'
<1>1. Finished(s)
  BY DEF IInv, dirVars
<1> QED
  BY <1>1 DEF Finished, Metadata, SixsName, dirVars

(* A run that ends early ends so whatever the reason.                      *)
LEMMA ExitStep ==
  ASSUME IInv, NEW p \in Procs, Active(p), NEW how \in {"failed", "crashed"}, Exit(p, how),
         UNCHANGED <<files, lndcal, runs, dirVars>>
  PROVE  IInv'
<1>1. Typed /\ Proc(p) /\ DOMAIN sixsOut = SixsNames
  BY DEF IInv, Typed
<1>2. Moves(p)
  BY <1>1, ExitMoves DEF dirVars
<1>3. PICK s : s = SceneOf(p)
  OBVIOUS
<1>4. SceneOf(p)' = s
  BY <1>2, <1>3 DEF Moves, Elsewhere
<1>5. s \in published' \ unfinished' => Finished(s)'
  BY Untouched
<1>6. Finished(s)' => Finished(SceneOf(p))'
  BY <1>4, Zenon DEF Finished, Metadata, SixsName
<1> QED
  BY <1>2, <1>3, <1>5, <1>6, Others

-----------------------------------------------------------------------------
LEMMA InitIInv == Init => IInv
<1> SUFFICES ASSUME Init PROVE IInv
  OBVIOUS
<1>1. \A p \in Procs : pr[p] = Idle
  BY DEF Init
<1>2. files \in [Scenes -> SceneFiles] /\ Given
  BY InputsAssumption, Zenon DEF Init, Given, Metadata
<1>3. lndcal \in [Scenes -> Calibration] /\ \A s \in Scenes : lndcal[s].at # "open"
  BY UnreadInput DEF Init, Calibration
<1>4. Typed
  BY <1>2, <1>3, IdleRun, SurfaceAssumption DEF Init, Typed
<1>5. Unique
  BY <1>1 DEF Unique, Apart, Active, Idle, Stopped
<1>6. ASSUME NEW p \in Procs PROVE Proc(p)
  <2>1. Unused(pr[p]) /\ pr[p].run = 0 /\ pr[p].at = "idle" /\ runs = 0
    BY <1>1 DEF Unused, Clear, Idle, Stopped, Init
  <2>2. Held(p)
    BY <2>1, UnreadInput
       DEF Unused, Held, Active, Stopped, HasOutput, InSixs, Tabled, InPasses, InFinish
  <2>3. Tables(p) /\ Aerosols(p) /\ Writes(p)
    BY <2>1 DEF Unused, Clear, Tables, Aerosols, Writes, HasOutput, Tabled, InSetup, InSixs, InPasses,
                InFinish, Stopped
  <2>4. Masks(p)
    <3>1. Len(pr[p].tmp) = 0 * Region
      BY <2>1, SurfaceAssumption DEF Unused, Clear
    <3> QED
      BY <2>1, <3>1 DEF Unused, Clear, Masks, Stopped
  <2> QED
    BY <2>2, <2>3, <2>4 DEF Proc
<1> QED
  BY <1>4, <1>5, <1>6 DEF IInv, Init

-----------------------------------------------------------------------------
(* Steps of lndcal.                                                        *)
LEMMA Calibrating ==
  ASSUME IInv, files' \in [Scenes -> SceneFiles], \A s \in Scenes : files'[s].m = files[s].m,
         lndcal' \in [Scenes -> Calibration],
         \A s \in Scenes : lndcal'[s].at = "open" => Usable(lndcal'[s].this),
         UNCHANGED <<pr, runs, dirVars>>
  PROVE  IInv'
<1>1. Typed /\ runs \in Nat
  BY DEF IInv, Typed
<1>2. Given' /\ SixsNames' = SixsNames
      /\ \A s \in Scenes : Metadata(s)' = Metadata(s) /\ SixsName(s)' = SixsName(s)
  BY <1>1, SameMetadata
<1>3. Typed'
  BY <1>1, <1>2 DEF Typed, dirVars
<1>4. Unique'
  BY DEF IInv, Unique, Apart, Active, SceneOf
<1>5. ASSUME NEW q \in Procs PROVE Proc(q)'
  <2>1. Proc(q) /\ pr'[q] = pr[q]
    BY DEF IInv
  <2>2. Active(q) => SceneOf(q) \in Scenes /\ SceneOf(q)' = SceneOf(q)
    BY <2>1 DEF Proc, Held, SceneOf
  <2>3. Active(q) => Metadata(SceneOf(q))' = Metadata(SceneOf(q))
    BY <2>1, <2>2 DEF Metadata, SceneOf
  <2>4. UNCHANGED <<runs, sixsCmd, sixsOut, temps, out, headers, published, unfinished>>
    BY DEF dirVars
  <2> QED
    BY <1>1, <2>1, <2>2, <2>3, <2>4, Undisturbed
<1>6. ASSUME NEW s \in published \ unfinished PROVE Finished(s)'
  <2>1. s \in Scenes /\ Finished(s)
    BY <1>1 DEF IInv, Typed
  <2> QED
    BY <1>2, <2>1 DEF Finished, dirVars
<1> QED
  BY <1>3, <1>4, <1>5, <1>6 DEF IInv, dirVars

LEMMA CalibrateSteps ==
  ASSUME IInv, NEW s \in Scenes, CalibrateOpen(s) \/ CalibrateLine(s) \/ CalibrateClose(s)
  PROVE  IInv'
<1>1. /\ files \in [Scenes -> SceneFiles] /\ files[s] \in SceneFiles
      /\ lndcal \in [Scenes -> Calibration] /\ lndcal[s] \in Calibration
      /\ \A t \in Scenes : lndcal[t].at = "open" => Usable(lndcal[t].this)
  BY DEF IInv, Typed
<1>2. CASE CalibrateOpen(s)
  <2>1. PICK r \in LndcalOpenInput(files[s]) : lndcal' = [lndcal EXCEPT ![s] =
              [at |-> CASE r.ret = "input" -> "open" [] r.ret = "NULL" -> "failed"
                        [] OTHER -> "crashed",
               this |-> r.this, il |-> 0, left |-> r.left]]
    BY <1>2 DEF CalibrateOpen
  <2>2. r \in Outcome /\ r.left = {} /\ Usable(r.this)
    BY <1>1, LndcalOpens
  <2>3. r.this \in Input
    BY <2>2 DEF Outcome
  <2>4. /\ lndcal' \in [Scenes -> Calibration] /\ lndcal'[s].this = r.this
        /\ \A t \in Scenes \ {s} : lndcal'[t] = lndcal[t]
    BY <1>1, <2>1, <2>2, <2>3 DEF Calibration
  <2>5. files' = files /\ UNCHANGED <<pr, runs, dirVars>>
    BY <1>2 DEF CalibrateOpen
  <2> QED
    BY <1>1, <2>2, <2>4, <2>5, Calibrating
<1>3. CASE CalibrateLine(s)
  <2>1. \/ lndcal' = [lndcal EXCEPT ![s].il = lndcal[s].il + 1]
        \/ lndcal' = [lndcal EXCEPT ![s].at = "failed", ![s].this = Unread]
    BY <1>3 DEF CalibrateLine
  <2>2. /\ lndcal' \in [Scenes -> Calibration]
        /\ lndcal'[s].at = "open" => lndcal'[s].this = lndcal[s].this /\ lndcal[s].at = "open"
        /\ \A t \in Scenes \ {s} : lndcal'[t] = lndcal[t]
    <3>1. CASE lndcal' = [lndcal EXCEPT ![s].il = lndcal[s].il + 1]
      BY <1>1, <3>1 DEF Calibration
    <3>2. CASE lndcal' = [lndcal EXCEPT ![s].at = "failed", ![s].this = Unread]
      BY <1>1, <3>2, UnreadInput DEF Calibration
    <3> QED
      BY <2>1, <3>1, <3>2
  <2>3. files' = files /\ UNCHANGED <<pr, runs, dirVars>>
    BY <1>3 DEF CalibrateLine
  <2> QED
    BY <1>1, <2>2, <2>3, Calibrating
<1>4. CASE CalibrateClose(s)
  <2> DEFINE closed == LndcalCloseInput(lndcal[s].this)
             x == [files[s] EXCEPT !.listed = @ \union ToaFiles,
                                   !.disk = [f \in Files |-> IF f \in ToaFiles
                                             THEN lndcal[s].this.lines ELSE @[f]]]
  <2>1. lndcal[s].this \in Input /\ lndcal[s].this.lines \in Nat \union {Absent}
    BY <1>1 DEF Calibration, Input
  <2>2. closed.this \in Input
    BY <2>1 DEF LndcalCloseInput, LndsrCloseInput, Input
  <2>3. lndcal' = [lndcal EXCEPT ![s].at = IF closed.ok THEN "toa" ELSE "failed",
                                 ![s].this = closed.this]
    BY <1>4 DEF CalibrateClose
  <2> HIDE DEF closed
  <2>4. /\ lndcal' \in [Scenes -> Calibration] /\ lndcal'[s].at # "open"
        /\ \A t \in Scenes \ {s} : lndcal'[t] = lndcal[t]
    BY <1>1, <2>2, <2>3 DEF Calibration
  <2>5. x \in SceneFiles /\ x.m = files[s].m
    <3>1. ToaFiles \subseteq Files
      BY DEF Files
    <3> QED
      BY <1>1, <2>1, <3>1 DEF SceneFiles
  <2>6. files' = [files EXCEPT ![s] = x] \/ files' = files
    BY <1>1, <1>4 DEF CalibrateClose
  <2> HIDE DEF x
  <2>7. files' \in [Scenes -> SceneFiles] /\ \A t \in Scenes : files'[t].m = files[t].m
    BY <1>1, <2>5, <2>6
  <2>8. UNCHANGED <<pr, runs, dirVars>>
    BY <1>4 DEF CalibrateClose
  <2> QED
    BY <1>1, <2>4, <2>7, <2>8, Calibrating
<1> QED
  BY <1>2, <1>3, <1>4

-----------------------------------------------------------------------------
(* The steps before 6S.                                                    *)
LEMMA SetupClear ==
  ASSUME NEW p \in Procs, Proc(p), pr[p].at \in InSetup
  PROVE  Clear(pr[p]) /\ Active(p)
BY DEF Proc, Tables, Aerosols, Masks, Clear, Active, Stopped, InSetup, InPasses, InFinish

LEMMA SetupProc ==
  ASSUME NEW p \in Procs, Clear(pr'[p]), pr'[p].at \in InSetup, Held(p)', Writes(p)'
  PROVE  Proc(p)'
<1>1. Tables(p)' /\ Aerosols(p)'
  BY DEF Clear, Tables, Aerosols, Tabled, InSetup, InSixs, InPasses, InFinish, Stopped
<1>2. Masks(p)'
  <2>1. Len(pr'[p].tmp) = 0 * Region
    BY SurfaceAssumption DEF Clear
  <2> QED
    BY <2>1 DEF Clear, Masks, InSetup
<1> QED
  BY <1>1, <1>2 DEF Proc

LEMMA StartStep ==
  ASSUME IInv, NEW p \in Procs, NEW s \in Scenes, Start(p, s)
  PROVE  IInv'
<1>1. PICK r \in LndsrOpenInput(files[s], FALSE), right \in SixsPathRight(Metadata(s)) :
          Becomes(p, [Idle EXCEPT
              !.at = CASE r.ret = "input" -> "thermal" [] r.ret = "NULL" -> "failed"
                       [] OTHER -> "crashed",
              !.scene = s, !.run = runs + 1, !.input = r.this, !.left = r.left, !.sixs = right])
  BY DEF Start
<1> DEFINE place == CASE r.ret = "input" -> "thermal" [] r.ret = "NULL" -> "failed"
                      [] OTHER -> "crashed"
           new == [Idle EXCEPT !.at = place,
              !.scene = s, !.run = runs + 1, !.input = r.this, !.left = r.left, !.sixs = right]
<1>2. /\ Typed /\ runs \in Nat /\ runs' = runs + 1 /\ runs' \in 0 .. MaxRuns
      /\ files[s] \in SceneFiles
      /\ UNCHANGED <<files, lndcal, sixsCmd, sixsOut, temps, out, headers, published, unfinished>>
  BY SurfaceAssumption DEF IInv, Typed, Start, dirVars
<1>3. /\ r \in Outcome /\ r.left = {}
      /\ r.ret # "input" => r.this = Unread
      /\ r.ret = "input" =>
            /\ Usable(r.this) /\ r.this.openOther
            /\ r.this.names # << >> /\ r.this.open # {} /\ r.this.lines = files[s].m.lines
  <2>1. FALSE \in BOOLEAN
    OBVIOUS
  <2> QED
    BY <1>2, <2>1, LndsrOpens
<1>4. r.this \in Input /\ r.ret \in {"input", "NULL", "crash"} /\ right \in BOOLEAN
  BY <1>3 DEF Outcome, SixsPathRight
<1>5. /\ new.at = place /\ new.scene = s /\ new.run = runs + 1 /\ new.input = r.this
      /\ new.thermal = FALSE /\ new.b6 = Unread
      /\ new.bandTable = Idle.bandTable /\ new.aotTable = Idle.aotTable
      /\ new.band = 1 /\ new.aot = 1 /\ new.coefs = << >> /\ new.aerosol = << >>
      /\ new.tmp = << >> /\ new.rotCld = <<BlankBlock, BlankBlock, BlankBlock>>
  BY DEF Idle
<1>6. new \in Run
  <2>1. place \in Places /\ s \in Scenes \union {"none"} /\ runs + 1 \in Nat /\ r.left \in {{}}
    BY <1>2, <1>3 DEF Places, Stopped, InSetup
  <2> HIDE DEF place
  <2> QED
    BY <1>2, <1>3, <1>4, <2>1, IdleRun DEF Run
<1>7. Becomes(p, new)
  BY <1>1
<1> HIDE DEF new
<1>8. pr' \in [Procs -> Run] /\ pr'[p] = new /\ \A q \in Procs \ {p} : pr'[q] = pr[q]
  BY <1>2, <1>6, <1>7, Becoming
<1>9. Typed'
  <2>1. Given' /\ SixsNames' = SixsNames /\ \A t \in Scenes : Metadata(t)' = Metadata(t)
    BY <1>2, SameMetadata DEF Typed
  <2> QED
    BY <1>2, <1>8, <2>1 DEF Typed
<1>10. \A q \in Procs : pr[q].run \in Nat /\ pr[q].run <= runs
  BY <1>2, Fields DEF IInv, Proc, Held
<1>11. \A q \in Procs : SceneOf(q) = s => ~Active(q)
  BY DEF Start, Free, Active
<1>12. Unique'
  <2>1. ASSUME NEW q \in Procs, q # p PROVE Apart(p, q)' /\ Apart(q, p)'
    BY <1>2, <1>5, <1>8, <1>10, <1>11, <2>1 DEF Apart, SceneOf, Active
  <2>2. ASSUME NEW q \in Procs, NEW q2 \in Procs, q # p, q2 # p, q # q2 PROVE Apart(q, q2)'
    BY <1>8, <2>2 DEF IInv, Unique, Apart, SceneOf, Active
  <2> QED
    BY <2>1, <2>2 DEF Unique
<1>13. Clear(new)
  BY <1>5 DEF Clear
<1>14. Proc(p)'
  <2>1. CASE r.ret = "input"
    <3>1. new.at = "thermal"
      BY <1>5, <2>1
    <3>2. Held(p)'
      BY <1>2, <1>3, <1>5, <1>8, <1>11, <2>1, <3>1, UnreadInput
         DEF Held, Active, SceneOf, Lines, Metadata, Usable, HasOutput, InSixs, Tabled, InPasses,
             InFinish, Stopped
    <3>3. Writes(p)'
      BY <1>8, <3>1 DEF Writes, HasOutput, Tabled, InSixs, InPasses, InFinish
    <3> QED
      BY <1>8, <1>13, <3>1, <3>2, <3>3, SetupProc DEF InSetup
  <2>2. CASE r.ret # "input"
    <3>1. new.at \in {"failed", "crashed"}
      BY <1>5, <2>2
    <3>2. Unused(new)
      BY <1>5, <1>13, <3>1 DEF Unused, Stopped
    <3> QED
      BY <1>2, <1>5, <1>8, <3>1, <3>2, UnusedProc
  <2> QED
    BY <2>1, <2>2
<1>15. ASSUME NEW q \in Procs, q # p PROVE Proc(q)'
  <2>1. Proc(q) /\ pr'[q] = pr[q]
    BY <1>8, <1>15 DEF IInv
  <2>2. Active(q) => SceneOf(q) \in Scenes
    BY <2>1 DEF Proc, Held
  <2>3. Metadata(SceneOf(q))' = Metadata(SceneOf(q))
    BY <1>2, <2>1 DEF Metadata, SceneOf
  <2> QED
    BY <1>2, <2>1, <2>2, <2>3, Undisturbed
<1>16. ASSUME NEW t \in published \ unfinished PROVE Finished(t)'
  BY <1>2 DEF IInv, Finished, Metadata, SixsName
<1> QED
  BY <1>2, <1>9, <1>12, <1>14, <1>15, <1>16 DEF IInv

(* A step that changes the run and nothing beside it.                      *)
LEMMA Advancing ==
  ASSUME Typed, NEW p \in Procs, Proc(p), Active(p), NEW r \in Run, Becomes(p, r),
         r.scene = pr[p].scene, r.run = pr[p].run, UNCHANGED <<files, lndcal, runs, dirVars>>
  PROVE  pr'[p] = r /\ Elsewhere(p) /\ WellFormed(p)
<1>1. pr' \in [Procs -> Run] /\ pr'[p] = r /\ \A q \in Procs \ {p} : pr'[q] = pr[q]
  BY Becoming
<1>2. SceneOf(p) \in Scenes /\ Lines(p) = Metadata(SceneOf(p)).lines
  BY DEF Proc, Held
<1>3. Elsewhere(p)
  BY <1>1 DEF Elsewhere, SceneOf, dirVars
<1>4. WellFormed(p)
  BY <1>1, <1>2 DEF WellFormed, Typed, ImageLines, dirVars
<1> QED
  BY <1>1, <1>3, <1>4

LEMMA OpenThermalStep ==
  ASSUME IInv, NEW p \in Procs, OpenThermal(p)
  PROVE  IInv'
<1>1. Typed /\ Proc(p) /\ pr[p] \in Run /\ pr[p].at = "thermal"
      /\ UNCHANGED <<files, lndcal, runs, dirVars>>
  BY Fields DEF IInv, OpenThermal
<1>2. Clear(pr[p]) /\ Active(p)
  BY <1>1, SetupClear DEF InSetup
<1>3. SceneOf(p) \in Scenes /\ files[SceneOf(p)] \in SceneFiles
  BY <1>1, <1>2 DEF Proc, Held, Typed
<1>4. PICK o \in LndsrOpenInput(files[SceneOf(p)], TRUE) :
          IF o.ret = "crash" THEN Exit(p, "crashed")
          ELSE Becomes(p, [pr[p] EXCEPT !.at = "ancillary", !.b6 = o.this,
                                        !.left = o.left, !.thermal = (o.ret = "input"),
                                        !.warned = (o.ret = "NULL")])
  BY DEF OpenThermal
<1>5. CASE o.ret = "crash"
  BY <1>1, <1>2, <1>4, <1>5, ExitStep
<1>6. CASE o.ret # "crash"
  <2> DEFINE opened == o.ret = "input"
             r == [pr[p] EXCEPT !.at = "ancillary", !.b6 = o.this, !.left = o.left,
                                !.thermal = opened, !.warned = (o.ret = "NULL")]
  <2>1. /\ o \in Outcome /\ o.left = {} /\ (o.ret # "input" => o.this = Unread)
        /\ (o.ret = "input" => o.this.open # {})
    <3>1. TRUE \in BOOLEAN
      OBVIOUS
    <3> QED
      BY <1>3, <3>1, LndsrOpens
  <2>2. o.this \in Input /\ (opened <=> o.this.open # {})
    BY <2>1, UnreadInput DEF Outcome
  <2>3. opened \in BOOLEAN /\ (o.ret = "NULL") \in BOOLEAN /\ "ancillary" \in Places
    BY DEF Places, InSetup
  <2>4. Becomes(p, r)
    BY <1>4, <1>6
  <2> HIDE DEF opened
  <2>5. /\ r \in Run /\ r.at = "ancillary" /\ r.b6 = o.this /\ r.thermal = opened
        /\ r.scene = pr[p].scene /\ r.run = pr[p].run /\ r.input = pr[p].input
        /\ r.bandTable = pr[p].bandTable /\ r.aotTable = pr[p].aotTable
        /\ r.band = pr[p].band /\ r.aot = pr[p].aot
        /\ r.coefs = pr[p].coefs /\ r.aerosol = pr[p].aerosol /\ r.tmp = pr[p].tmp
        /\ r.rotCld = pr[p].rotCld
    BY <1>1, <2>1, <2>2, <2>3 DEF Run
  <2> HIDE DEF r
  <2>6. pr'[p] = r /\ Elsewhere(p) /\ WellFormed(p)
    BY <1>1, <1>2, <2>4, <2>5, Advancing
  <2>7. Held(p)'
    BY <1>1, <1>2, <2>2, <2>5, <2>6
       DEF Proc, Held, Active, SceneOf, Lines, Metadata, dirVars, HasOutput, InSixs, Tabled,
           InPasses, InFinish, Stopped
  <2>8. Writes(p)'
    BY <2>5, <2>6 DEF Writes, HasOutput, Tabled, InSixs, InPasses, InFinish
  <2>9. Proc(p)'
    BY <1>2, <2>5, <2>6, <2>7, <2>8, SetupProc DEF Clear, InSetup
  <2>10. PICK s : s = SceneOf(p) /\ SceneOf(p)' = s
    BY <2>6 DEF Elsewhere
  <2>11. s \in published' \ unfinished' => Finished(s)'
    BY <1>1, Untouched
  <2>12. Finished(s)' => Finished(SceneOf(p))'
    BY <2>10, Zenon DEF Finished, Metadata, SixsName
  <2> QED
    BY <1>2, <2>6, <2>9, <2>10, <2>11, <2>12, Others DEF Moves
<1> QED
  BY <1>5, <1>6

(* What a step of a run that goes on may change beside the run.            *)
Within(p) ==
    /\ UNCHANGED <<files, lndcal, runs, published>>
    /\ \A s \in Scenes \ {SceneOf(p)} :
          /\ out'[s] = out[s]
          /\ sixsCmd'[SixsName(s)] = sixsCmd[SixsName(s)]
          /\ sixsOut'[SixsName(s)] = sixsOut[SixsName(s)]
          /\ s \in headers => s \in headers'
          /\ s \in unfinished <=> s \in unfinished'
    /\ temps' \subseteq temps \union {pr[p].run}
    /\ DOMAIN sixsCmd' = SixsNames /\ DOMAIN sixsOut' = SixsNames /\ DOMAIN out' = Scenes
    /\ DOMAIN out'[SceneOf(p)] = {} \/ DOMAIN out'[SceneOf(p)] = ImageLines(p)
    /\ headers' \subseteq Scenes /\ unfinished' \subseteq Scenes
    /\ unfinished \subseteq unfinished'
Keeps(p, r) ==
    /\ r.scene = pr[p].scene /\ r.run = pr[p].run
    /\ r.thermal = pr[p].thermal /\ r.b6 = pr[p].b6

LEMMA Working ==
  ASSUME IInv, NEW p \in Procs, Active(p), NEW r \in Run, Becomes(p, r), Keeps(p, r), Within(p),
         r.at \notin Stopped, r.input.lines = pr[p].input.lines,
         \/ r.at \in {"headers", "append"}
         \/ r.input = pr[p].input /\ pr[p].at \notin {"headers", "append"},
         r.at \in InFinish => pr[p].run \notin temps',
         pr[p].at \in {"thermal", "ancillary", "output"} =>
            SceneOf(p) \in unfinished' \/ (r.at = "output" /\ UNCHANGED dirVars),
         Tables(p)', Aerosols(p)', Masks(p)', Writes(p)'
  PROVE  IInv'
<1>1. Typed /\ Held(p)
  BY DEF IInv, Proc
<1>2. pr' \in [Procs -> Run] /\ pr'[p] = r /\ \A q \in Procs \ {p} : pr'[q] = pr[q]
  BY <1>1, Becoming
<1>3. Elsewhere(p)
  BY <1>2 DEF Elsewhere, SceneOf, Within, Keeps
<1>4. published \subseteq Scenes
  BY <1>1 DEF Typed
<1>5. WellFormed(p)
  BY <1>2, <1>4 DEF WellFormed, Within
<1>6. pr[p].at \in {"thermal", "ancillary", "output"} \union HasOutput
  BY <1>1, Fields DEF Active, Places, HasOutput, InSetup
<1>7. SceneOf(p) \in unfinished' \/ (r.at = "output" /\ UNCHANGED dirVars)
  BY <1>1, <1>6 DEF Held, Within
<1>8. SceneOf(p)' = SceneOf(p)
  BY <1>2 DEF SceneOf, Keeps
<1>9. Held(p)'
  <2>1. "output" \notin HasOutput
    BY DEF HasOutput, InSixs, Tabled, InPasses, InFinish
  <2>2. r.at \in HasOutput => SceneOf(p) \in unfinished'
    BY <1>7, <2>1
  <2> QED
    BY <1>1, <1>2, <1>8, <2>2
       DEF Held, Active, SceneOf, Lines, Metadata, Within, Keeps, Stopped, Usable, InFinish
<1>10. PICK s : s = SceneOf(p)
  OBVIOUS
<1>11. s \in published' \ unfinished' => Finished(s)'
  BY <1>7, <1>10, Untouched DEF Within
<1>12. Finished(s)' => Finished(SceneOf(p))'
  BY <1>8, <1>10, Zenon DEF Finished, Metadata, SixsName
<1> QED
  BY <1>3, <1>5, <1>8, <1>9, <1>10, <1>11, <1>12, Others DEF Moves, Proc

LEMMA Inside ==
  ASSUME IInv, NEW p \in Procs, Active(p), UNCHANGED <<files, lndcal, runs, dirVars>>
  PROVE  Within(p)
<1>1. SceneOf(p) \in Scenes /\ Lines(p) = Metadata(SceneOf(p)).lines
  BY DEF IInv, Proc, Held
<1> QED
  BY <1>1 DEF IInv, Typed, Within, dirVars, ImageLines

(* A step of a run without change of scene, input and date.                *)
LEMMA SameRun ==
  ASSUME NEW p \in Procs, files' = files, pr'[p].scene = pr[p].scene,
         pr'[p].input.lines = pr[p].input.lines, pr'[p].input.dated = pr[p].input.dated,
         pr'[p].climatology = pr[p].climatology
  PROVE  /\ SceneOf(p)' = SceneOf(p) /\ Lines(p)' = Lines(p) /\ Name(p)' = Name(p)
         /\ Blocks(p)' = Blocks(p) /\ ImageLines(p)' = ImageLines(p)
         /\ \A i, j : Command(p, i, j)' = Command(p, i, j)
         /\ \A x, dark : MaskOf(p, x, dark)' = MaskOf(p, x, dark)
<1>1. SceneOf(p)' = SceneOf(p) /\ Lines(p)' = Lines(p)
  BY Zenon DEF SceneOf, Lines
<1>2. Metadata(SceneOf(p))' = Metadata(SceneOf(p))
  BY <1>1, Zenon DEF Metadata
<1>3. Name(p)' = Name(p)
  BY <1>2, Zenon DEF Name, SixsName
<1>4. Blocks(p)' = Blocks(p) /\ ImageLines(p)' = ImageLines(p)
  BY <1>1, Zenon DEF Blocks, ImageLines
<1>5. Ozone(p)' = Ozone(p)
  BY <1>2 DEF Ozone
<1>6. \A i, j : Command(p, i, j)' = Command(p, i, j)
  BY <1>1, <1>5, Zenon DEF Command
<1>7. \A x, dark : MaskOf(p, x, dark)' = MaskOf(p, x, dark)
  BY <1>4, Zenon DEF MaskOf, Casts
<1> QED
  BY <1>1, <1>3, <1>4, <1>6, <1>7

LEMMA OpenAncillaryStep ==
  ASSUME IInv, NEW p \in Procs, OpenAncillary(p)
  PROVE  IInv'
<1>1. Typed /\ Proc(p) /\ pr[p] \in Run /\ pr[p].at = "ancillary"
      /\ UNCHANGED <<files, lndcal, runs, dirVars>>
  BY Fields DEF IInv, OpenAncillary
<1>2. Clear(pr[p]) /\ Active(p)
  BY <1>1, SetupClear DEF InSetup
<1> DEFINE m == Metadata(SceneOf(p))
           climatology == m.prwv > 0 /\ m.ozon < 1
           r == [pr[p] EXCEPT !.at = "output", !.climatology = climatology]
<1>3. Exit(p, "failed") \/ Becomes(p, r)
  BY DEF OpenAncillary
<1>4. CASE Exit(p, "failed")
  BY <1>1, <1>2, <1>4, ExitStep
<1>5. CASE Becomes(p, r)
  <2>1. climatology \in BOOLEAN /\ "output" \in Places
    BY DEF Places, InSetup
  <2> HIDE DEF climatology
  <2>2. /\ r \in Run /\ r.at = "output" /\ Keeps(p, r) /\ r.input = pr[p].input
        /\ Clear(r)
    BY <1>1, <1>2, <2>1 DEF Run, Keeps, Clear
  <2> HIDE DEF r
  <2>3. pr'[p] = r /\ Within(p)
    BY <1>1, <1>2, <1>5, <2>2, Becoming, Inside
  <2>4. Held(p)'
    BY <1>1, <1>2, <2>2, <2>3
       DEF Proc, Held, Active, SceneOf, Lines, Metadata, dirVars, HasOutput, InSixs, Tabled,
           InPasses, InFinish, Stopped, Keeps
  <2>5. Writes(p)'
    BY <2>2, <2>3 DEF Writes, HasOutput, Tabled, InSixs, InPasses, InFinish
  <2>6. Proc(p)'
    BY <2>2, <2>3, <2>4, <2>5, SetupProc DEF InSetup
  <2> QED
    BY <1>1, <1>2, <1>5, <2>2, <2>3, <2>6, Working DEF Proc, InFinish, Stopped
<1> QED
  BY <1>3, <1>4, <1>5

LEMMA OpenOutputStep ==
  ASSUME IInv, NEW p \in Procs, OpenOutput(p)
  PROVE  IInv'
<1>1. Typed /\ Proc(p) /\ pr[p] \in Run /\ pr[p].at = "output"
      /\ UNCHANGED <<files, lndcal, runs, sixsCmd, sixsOut, temps, headers, published>>
  BY Fields DEF IInv, OpenOutput
<1>2. Clear(pr[p]) /\ Active(p)
  BY <1>1, SetupClear DEF InSetup
<1> DEFINE r == [pr[p] EXCEPT !.at = "allocate"]
<1>3. Becomes(p, r)
  BY DEF OpenOutput
<1>4. /\ r \in Run /\ r.at = "allocate" /\ Keeps(p, r) /\ r.input = pr[p].input
      /\ Clear(r)
  BY <1>1, <1>2 DEF Run, Keeps, Clear, Places, InSetup
<1> HIDE DEF r
<1>5. pr'[p] = r
  BY <1>1, <1>3, <1>4, Becoming
<1>6. /\ out' = [out EXCEPT ![SceneOf(p)] = [il \in 0 .. Lines(p) - 1 |-> Unwritten]]
      /\ unfinished' = unfinished \union {SceneOf(p)} /\ SceneOf(p) \in Scenes
  BY <1>1, <1>2 DEF OpenOutput, Proc, Held
<1>7. /\ DOMAIN out' = Scenes /\ DOMAIN out'[SceneOf(p)] = ImageLines(p)
      /\ \A s \in Scenes \ {SceneOf(p)} : out'[s] = out[s]
  BY <1>1, <1>2, <1>6 DEF Typed, Proc, Held, ImageLines
<1>8. Within(p)
  BY <1>1, <1>6, <1>7 DEF Within, Typed
<1>9. SceneOf(p)' = SceneOf(p) /\ ImageLines(p)' = ImageLines(p)
  BY <1>4, <1>5 DEF SceneOf, ImageLines, Lines, Keeps
<1>10. Held(p)'
  BY <1>1, <1>2, <1>4, <1>5, <1>6
     DEF Proc, Held, Active, SceneOf, Lines, Metadata, InFinish, Stopped, Keeps
<1>11. Writes(p)'
  BY <1>4, <1>5, <1>7, <1>9 DEF Writes, HasOutput, Tabled, InSixs, InPasses, InFinish
<1>12. Proc(p)'
  BY <1>4, <1>5, <1>10, <1>11, SetupProc DEF InSetup
<1> QED
  BY <1>1, <1>2, <1>3, <1>4, <1>5, <1>6, <1>8, <1>12, Working DEF Proc, InFinish, Stopped

LEMMA AllocateStep ==
  ASSUME IInv, NEW p \in Procs, Allocate(p)
  PROVE  IInv'
<1>1. Typed /\ Proc(p) /\ pr[p] \in Run /\ pr[p].at = "allocate"
      /\ UNCHANGED <<files, lndcal, runs, dirVars>>
  BY Fields DEF IInv, Allocate
<1>2. Clear(pr[p]) /\ Active(p)
  BY <1>1, SetupClear DEF InSetup
<1> DEFINE r == [pr[p] EXCEPT !.at = "anc", !.rotCld = <<BlankBlock, BlankBlock, BlankBlock>>]
<1>3. Becomes(p, r)
  BY DEF Allocate
<1>4. /\ r \in Run /\ r.at = "anc" /\ Keeps(p, r) /\ r.input = pr[p].input
      /\ Clear(r)
  BY <1>1, <1>2, Blanks DEF Run, Keeps, Clear, Places, InSetup
<1> HIDE DEF r
<1>5. pr'[p] = r /\ Within(p)
  BY <1>1, <1>2, <1>3, <1>4, Becoming, Inside
<1>6. SceneOf(p)' = SceneOf(p) /\ ImageLines(p)' = ImageLines(p)
  BY <1>4, <1>5 DEF SceneOf, ImageLines, Lines, Keeps
<1>7. Held(p)'
  BY <1>1, <1>2, <1>4, <1>5
     DEF Proc, Held, Active, SceneOf, Lines, Metadata, dirVars, HasOutput, InFinish, Stopped, Keeps
<1>8. Writes(p)'
  BY <1>1, <1>4, <1>5, <1>6 DEF Proc, Writes, HasOutput, Tabled, InSixs, InPasses, InFinish, dirVars
<1>9. Proc(p)'
  BY <1>4, <1>5, <1>7, <1>8, SetupProc DEF InSetup
<1> QED
  BY <1>1, <1>2, <1>3, <1>4, <1>5, <1>9, Working DEF Proc, InFinish, Stopped

-----------------------------------------------------------------------------
(* 6S.  Neither aerosols nor masks are there before the passes.            *)
Plain(r) ==
    /\ r.coefs = << >> /\ r.aerosol = << >> /\ r.tmp = << >>
    /\ r.rotCld = <<BlankBlock, BlankBlock, BlankBlock>>
BeforePasses == InSixs \union {"unlink", "grid"}

LEMMA StillPlain ==
  ASSUME NEW p \in Procs, Proc(p), pr[p].at \in BeforePasses
  PROVE  Plain(pr[p]) /\ Active(p)
BY DEF Proc, Aerosols, Masks, Plain, Active, BeforePasses, Stopped, InSixs, InPasses, InFinish

LEMMA PlainProc ==
  ASSUME NEW p \in Procs, Plain(pr'[p]), pr'[p].at \in BeforePasses
  PROVE  Aerosols(p)' /\ Masks(p)'
<1>1. Aerosols(p)'
  BY DEF Plain, Aerosols, BeforePasses, InSixs, InPasses, InFinish
<1>2. Masks(p)'
  <2>1. Len(pr'[p].tmp) = 0 * Region
    BY SurfaceAssumption DEF Plain
  <2> QED
    BY <2>1 DEF Plain, Masks, BeforePasses, InSixs
<1> QED
  BY <1>1, <1>2

LEMMA OwnName ==
  ASSUME IInv, NEW p \in Procs, Active(p)
  PROVE  /\ SceneOf(p) \in Scenes /\ Name(p) \in SixsNames
         /\ \A s \in Scenes \ {SceneOf(p)} : SixsName(s) # Name(p)
<1>1. Typed /\ SceneOf(p) \in Scenes
  BY DEF IInv, Proc, Held
<1> QED
  BY <1>1, NamesApart DEF Name, SixsNames

LEMMA Commands ==
  ASSUME IInv, NEW p \in Procs, Active(p), NEW i \in 1 .. SixsBands, NEW j \in 1 .. Len(Aots)
  PROVE  Command(p, i, j) \in Outputs /\ Command(p, i, j) # NoFile
<1>1. SceneOf(p) \in Scenes /\ "none" \notin Scenes
  BY OwnName, SurfaceAssumption
<1>2. Ozone(p) \in Ozones
  <2>1. Metadata(SceneOf(p)) \in Metadatas
    BY <1>1 DEF IInv, Typed, Metadata, SceneFiles
  <2>2. Metadata(SceneOf(p)).doy \in Int /\ Metadata(SceneOf(p)).lat \in Int
    BY <2>1 DEF Metadatas
  <2>3. ASSUME NEW jday \in Int, NEW lat \in Int PROVE calcuoz(jday, lat) \in Ozones
    <3>1. Minf(jday) \in Int /\ Latinf(lat) \in Int
      BY DEF Minf, Latinf
    <3> DEFINE month == (Minf(jday) + 12) % 12
    <3>2. month \in Int /\ (month + 13) % 12 \in Int
      BY <3>1
    <3>3. CASE lat <= -80 \/ lat >= 80
      BY <3>3 DEF calcuoz, Ozones
    <3>4. CASE ~(lat <= -80 \/ lat >= 80)
      <4> HIDE DEF month
      <4>1. /\ <<month, (month + 13) % 12>> \in Seq(Int)
            /\ <<Latinf(lat) + 8, Latinf(lat) + 9>> \in Seq(Int)
        BY <3>1, <3>2
      <4>2. calcuoz(jday, lat) = [ozone |-> "climatology", months |-> <<month, (month + 13) % 12>>,
                                  lats |-> <<Latinf(lat) + 8, Latinf(lat) + 9>>]
        BY <3>4, Zenon DEF calcuoz, month
      <4> QED
        BY <4>1, <4>2 DEF Ozones
    <3> QED
      BY <3>3, <3>4
  <2>4. calcuoz(Metadata(SceneOf(p)).doy, Metadata(SceneOf(p)).lat) \in Ozones
    BY <2>2, <2>3
  <2> QED
    BY <2>4 DEF Ozone, Ozones
<1>3. Command(p, i, j) = [scene |-> SceneOf(p), band |-> i, aot |-> j, ozone |-> Ozone(p)]
  BY DEF Command
<1>4. Command(p, i, j) \in Outputs
  BY <1>1, <1>2, <1>3 DEF Outputs
<1>5. Command(p, i, j).scene # NoFile.scene
  BY <1>1, <1>3 DEF NoFile
<1> QED
  BY <1>4, <1>5

LEMMA ReadAncillaryStep ==
  ASSUME IInv, NEW p \in Procs, ReadAncillary(p)
  PROVE  IInv'
<1>1. Typed /\ Proc(p) /\ pr[p] \in Run /\ pr[p].at = "anc"
      /\ UNCHANGED <<files, lndcal, runs, dirVars>>
  BY Fields DEF IInv, ReadAncillary
<1>2. Clear(pr[p]) /\ Active(p)
  BY <1>1, SetupClear DEF InSetup
<1> DEFINE r == [pr[p] EXCEPT !.at = "command"]
<1>3. Exit(p, "failed") \/ Becomes(p, r)
  BY DEF ReadAncillary
<1>4. CASE Exit(p, "failed")
  BY <1>1, <1>2, <1>4, ExitStep
<1>5. CASE Becomes(p, r)
  <2>1. /\ r \in Run /\ r.at = "command" /\ Keeps(p, r) /\ r.input = pr[p].input
        /\ Clear(r)
    BY <1>1, <1>2 DEF Run, Keeps, Clear, Places, InSixs
  <2> HIDE DEF r
  <2>2. pr'[p] = r /\ Within(p)
    BY <1>1, <1>2, <1>5, <2>1, Becoming, Inside
  <2>3. SceneOf(p)' = SceneOf(p) /\ ImageLines(p)' = ImageLines(p)
    BY <2>1, <2>2 DEF SceneOf, ImageLines, Lines, Keeps
  <2>4. Writes(p)'
    BY <1>1, <2>1, <2>2, <2>3 DEF Proc, Writes, HasOutput, Tabled, InSixs, InPasses, InFinish, dirVars
  <2>5. Filled(p)'
    <3>1. /\ \A i \in 1 .. SixsBands : r.bandTable[i] = NoFile
          /\ \A i \in 1 .. SixsBands : \A j \in 1 .. Len(Aots) : r.aotTable[i][j] = NoFile
      BY <2>1 DEF Clear, Idle
    <3>2. r.band = 1 /\ r.aot = 1
      BY <2>1 DEF Clear
    <3>3. \A i \in 1 .. SixsBands : ~(i < r.band) /\ ~(r.aot > 1)
      BY <3>2, Thicknesses
    <3>4. \A j \in 1 .. Len(Aots) : ~(j < r.aot)
      BY <3>2, Thicknesses
    <3> QED
      BY <2>2, <3>1, <3>3, <3>4 DEF Filled
  <2>6. Tables(p)'
    BY <2>1, <2>2, <2>5 DEF Tables, Tabled, InSetup, InSixs, InPasses, InFinish, Stopped
  <2>7. Aerosols(p)' /\ Masks(p)'
    BY <2>1, <2>2, PlainProc DEF Plain, Clear, BeforePasses, InSixs
  <2> QED
    BY <1>1, <1>2, <1>5, <2>1, <2>2, <2>4, <2>6, <2>7, Working DEF InFinish, Stopped
<1> QED
  BY <1>3, <1>4, <1>5

LEMMA WriteCommandStep ==
  ASSUME IInv, NEW p \in Procs, WriteCommand(p)
  PROVE  IInv'
<1>1. Typed /\ Proc(p) /\ pr[p] \in Run /\ pr[p].at = "command"
      /\ UNCHANGED <<files, lndcal, runs, sixsOut, temps, out, headers, published, unfinished>>
  BY Fields DEF IInv, WriteCommand
<1>2. Plain(pr[p]) /\ Active(p)
  BY <1>1, StillPlain DEF BeforePasses, InSixs
<1> DEFINE r == [pr[p] EXCEPT !.at = "bash"]
<1>3. /\ sixsCmd' = [sixsCmd EXCEPT ![Name(p)] = Command(p, pr[p].band, pr[p].aot)]
      /\ Becomes(p, r)
  BY DEF WriteCommand
<1>4. /\ r \in Run /\ r.at = "bash" /\ Keeps(p, r) /\ r.input = pr[p].input /\ Plain(r)
      /\ r.climatology = pr[p].climatology /\ r.band = pr[p].band /\ r.aot = pr[p].aot
      /\ r.bandTable = pr[p].bandTable /\ r.aotTable = pr[p].aotTable
  BY <1>1, <1>2 DEF Run, Keeps, Plain, Places, InSixs
<1> HIDE DEF r
<1>5. pr'[p] = r
  BY <1>1, <1>3, <1>4, Becoming
<1>6. /\ SceneOf(p)' = SceneOf(p) /\ Name(p)' = Name(p) /\ ImageLines(p)' = ImageLines(p)
      /\ \A i, j : Command(p, i, j)' = Command(p, i, j)
  BY <1>1, <1>4, <1>5, SameRun DEF Keeps
<1>7. /\ DOMAIN sixsCmd' = SixsNames /\ sixsCmd'[Name(p)] = Command(p, pr[p].band, pr[p].aot)
      /\ \A s \in Scenes \ {SceneOf(p)} : sixsCmd'[SixsName(s)] = sixsCmd[SixsName(s)]
  BY <1>1, <1>2, <1>3, OwnName DEF Typed
<1>8. Within(p)
  BY <1>1, <1>2, <1>7 DEF Within, Typed, Proc, Held, ImageLines
<1>9. Writes(p)'
  BY <1>1, <1>4, <1>5, <1>6 DEF Proc, Writes, HasOutput, Tabled, InSixs, InPasses, InFinish
<1>10. Filled(p)'
  BY <1>1, <1>4, <1>5, <1>6 DEF Proc, Tables, Filled, InSixs
<1>11. Tables(p)'
  BY <1>4, <1>5, <1>6, <1>7, <1>10 DEF Tables, Tabled, InSetup, InSixs, InPasses, InFinish, Stopped
<1>12. Aerosols(p)' /\ Masks(p)'
  BY <1>4, <1>5, PlainProc DEF BeforePasses, InSixs
<1> QED
  BY <1>1, <1>2, <1>3, <1>4, <1>8, <1>9, <1>11, <1>12, Working DEF InFinish, Stopped

LEMMA RunSixsStep ==
  ASSUME IInv, NEW p \in Procs, RunSixs(p)
  PROVE  IInv'
<1>1. Typed /\ Proc(p) /\ pr[p] \in Run /\ pr[p].at = "bash"
      /\ UNCHANGED <<files, lndcal, runs, sixsCmd, temps, out, headers, published, unfinished>>
  BY Fields DEF IInv, RunSixs
<1>2. Plain(pr[p]) /\ Active(p)
  BY <1>1, StillPlain DEF BeforePasses, InSixs
<1> DEFINE r == [pr[p] EXCEPT !.at = "read"]
<1>3. \/ Exit(p, "failed") /\ \E cut : sixsOut' = [sixsOut EXCEPT ![Name(p)] = cut]
      \/ sixsOut' = [sixsOut EXCEPT ![Name(p)] = sixsCmd[Name(p)]] /\ Becomes(p, r)
  BY Zenon DEF RunSixs
<1>4. CASE Exit(p, "failed") /\ \E cut : sixsOut' = [sixsOut EXCEPT ![Name(p)] = cut]
  <2>1. /\ DOMAIN sixsOut' = SixsNames
        /\ \A s \in Scenes \ {SceneOf(p)} : sixsOut'[SixsName(s)] = sixsOut[SixsName(s)]
    BY <1>1, <1>2, <1>4, OwnName DEF Typed
  <2>2. Moves(p)
    BY <1>1, <1>2, <1>4, <2>1, ExitMoves
  <2>3. SceneOf(p) \in unfinished
    BY <1>1 DEF Proc, Held, HasOutput, InSixs
  <2>4. SceneOf(p)' = SceneOf(p)
    BY <2>2 DEF Moves, Elsewhere
  <2> QED
    BY <1>1, <1>2, <2>2, <2>3, <2>4, Others
<1>5. CASE sixsOut' = [sixsOut EXCEPT ![Name(p)] = sixsCmd[Name(p)]] /\ Becomes(p, r)
  <2>1. /\ r \in Run /\ r.at = "read" /\ Keeps(p, r) /\ r.input = pr[p].input /\ Plain(r)
        /\ r.climatology = pr[p].climatology /\ r.band = pr[p].band /\ r.aot = pr[p].aot
        /\ r.bandTable = pr[p].bandTable /\ r.aotTable = pr[p].aotTable
    BY <1>1, <1>2 DEF Run, Keeps, Plain, Places, InSixs
  <2> HIDE DEF r
  <2>2. pr'[p] = r
    BY <1>1, <1>5, <2>1, Becoming
  <2>3. /\ SceneOf(p)' = SceneOf(p) /\ Name(p)' = Name(p) /\ ImageLines(p)' = ImageLines(p)
        /\ \A i, j : Command(p, i, j)' = Command(p, i, j)
    BY <1>1, <2>1, <2>2, SameRun DEF Keeps
  <2>4. sixsCmd[Name(p)] = Command(p, pr[p].band, pr[p].aot)
    BY <1>1 DEF Proc, Tables
  <2>5. /\ DOMAIN sixsOut' = SixsNames /\ sixsOut'[Name(p)] = Command(p, pr[p].band, pr[p].aot)
        /\ \A s \in Scenes \ {SceneOf(p)} : sixsOut'[SixsName(s)] = sixsOut[SixsName(s)]
    BY <1>1, <1>2, <1>5, <2>4, OwnName DEF Typed
  <2>6. Within(p)
    BY <1>1, <1>2, <2>5 DEF Within, Typed, Proc, Held, ImageLines
  <2>7. Writes(p)'
    BY <1>1, <2>1, <2>2, <2>3 DEF Proc, Writes, HasOutput, Tabled, InSixs, InPasses, InFinish
  <2>8. Filled(p)'
    BY <1>1, <2>1, <2>2, <2>3 DEF Proc, Tables, Filled, InSixs
  <2>9. Tables(p)'
    BY <2>1, <2>2, <2>3, <2>5, <2>8 DEF Tables, Tabled, InSetup, InSixs, InPasses, InFinish, Stopped
  <2>10. Aerosols(p)' /\ Masks(p)'
    BY <2>1, <2>2, PlainProc DEF BeforePasses, InSixs
  <2> QED
    BY <1>1, <1>2, <1>5, <2>1, <2>6, <2>7, <2>9, <2>10, Working DEF InFinish, Stopped
<1> QED
  BY <1>3, <1>4, <1>5

(* What is read fills the entry that comes next.                           *)
LEMMA Entries ==
  ASSUME IInv, NEW p \in Procs, Active(p), Filled(p)
  PROVE  LET output == Command(p, pr[p].band, pr[p].aot)
         IN  /\ BandEntries(p, output) \in [1 .. SixsBands -> Outputs]
             /\ AotEntries(p, output) \in [1 .. SixsBands -> [1 .. Len(Aots) -> Outputs]]
             /\ \A i \in 1 .. SixsBands :
                   /\ BandEntries(p, output)[i] =
                         IF i <= pr[p].band THEN Command(p, i, 1) ELSE NoFile
                   /\ \A j \in 1 .. Len(Aots) :
                         AotEntries(p, output)[i][j] =
                            IF i < pr[p].band \/ (i = pr[p].band /\ j <= pr[p].aot)
                            THEN Command(p, i, j) ELSE NoFile
<1> DEFINE b == pr[p].band
           a == pr[p].aot
           output == Command(p, b, a)
           bt == pr[p].bandTable
           at == pr[p].aotTable
<1>1. /\ b \in 1 .. SixsBands /\ a \in 1 .. Len(Aots) /\ Len(Aots) \in Nat /\ SixsBands \in Nat
      /\ bt \in [1 .. SixsBands -> Outputs]
      /\ at \in [1 .. SixsBands -> [1 .. Len(Aots) -> Outputs]]
  BY Fields, Thicknesses DEF IInv
<1>2. output \in Outputs
  BY <1>1, Commands
<1>3. \A i \in 1 .. SixsBands :
        /\ bt[i] = IF i < b \/ (i = b /\ a > 1) THEN Command(p, i, 1) ELSE NoFile
        /\ \A j \in 1 .. Len(Aots) :
              at[i][j] = IF i < b \/ (i = b /\ j < a) THEN Command(p, i, j) ELSE NoFile
  BY DEF Filled
<1>4. /\ BandEntries(p, output) = IF a = 1 THEN [bt EXCEPT ![b] = output] ELSE bt
      /\ AotEntries(p, output) = [at EXCEPT ![b][a] = output]
  BY DEF BandEntries, AotEntries
<1>5. output = Command(p, b, a)
  OBVIOUS
<1> HIDE DEF output, bt, at, a, b
<1>6. BandEntries(p, output) \in [1 .. SixsBands -> Outputs]
  BY <1>1, <1>2, <1>4
<1>7. AotEntries(p, output) \in [1 .. SixsBands -> [1 .. Len(Aots) -> Outputs]]
  BY <1>1, <1>2, <1>4
<1>8. ASSUME NEW i \in 1 .. SixsBands
      PROVE  BandEntries(p, output)[i] = IF i <= b THEN Command(p, i, 1) ELSE NoFile
  <2>1. CASE a = 1
    <3>1. BandEntries(p, output)[i] = IF i = b THEN output ELSE bt[i]
      BY <1>1, <1>4, <2>1
    <3>2. bt[i] = IF i < b THEN Command(p, i, 1) ELSE NoFile
      BY <1>3, <2>1
    <3> QED
      BY <1>1, <1>5, <2>1, <3>1, <3>2
  <2>2. CASE a # 1
    <3>1. a > 1
      BY <1>1, <2>2
    <3>2. BandEntries(p, output)[i] = bt[i]
      BY <1>4, <2>2
    <3>3. bt[i] = IF i < b \/ i = b THEN Command(p, i, 1) ELSE NoFile
      BY <1>3, <3>1
    <3> QED
      BY <1>1, <3>2, <3>3
  <2> QED
    BY <2>1, <2>2
<1>9. ASSUME NEW i \in 1 .. SixsBands, NEW j \in 1 .. Len(Aots)
      PROVE  AotEntries(p, output)[i][j] =
                IF i < b \/ (i = b /\ j <= a) THEN Command(p, i, j) ELSE NoFile
  <2>1. at[i][j] = IF i < b \/ (i = b /\ j < a) THEN Command(p, i, j) ELSE NoFile
    BY <1>3
  <2>2. AotEntries(p, output)[i][j] = IF i = b /\ j = a THEN output ELSE at[i][j]
    BY <1>1, <1>4
  <2> QED
    BY <1>1, <1>5, <2>1, <2>2
<1> QED
  BY <1>6, <1>7, <1>8, <1>9 DEF output, a, b

LEMMA ReadSixsStep ==
  ASSUME IInv, NEW p \in Procs, ReadSixs(p)
  PROVE  IInv'
<1>1. Typed /\ Proc(p) /\ pr[p] \in Run /\ pr[p].at = "read"
      /\ UNCHANGED <<files, lndcal, runs, dirVars>>
  BY Fields DEF IInv, ReadSixs
<1>2. Plain(pr[p]) /\ Active(p)
  BY <1>1, StillPlain DEF BeforePasses, InSixs
<1>3. Filled(p) /\ sixsOut[Name(p)] = Command(p, pr[p].band, pr[p].aot)
  BY <1>1 DEF Proc, Tables, InSixs
<1> DEFINE b == pr[p].band
           a == pr[p].aot
           output == Command(p, b, a)
           bt == BandEntries(p, output)
           at == AotEntries(p, output)
           filled == [pr[p] EXCEPT !.bandTable = bt, !.aotTable = at]
           r == Advanced(filled)
<1>4. Exit(p, "failed") \/ Becomes(p, r)
  BY <1>3 DEF ReadSixs
<1>5. /\ bt \in [1 .. SixsBands -> Outputs]
      /\ at \in [1 .. SixsBands -> [1 .. Len(Aots) -> Outputs]]
      /\ \A i \in 1 .. SixsBands :
            /\ bt[i] = IF i <= b THEN Command(p, i, 1) ELSE NoFile
            /\ \A j \in 1 .. Len(Aots) :
                  at[i][j] = IF i < b \/ (i = b /\ j <= a) THEN Command(p, i, j) ELSE NoFile
  BY <1>2, <1>3, Entries
<1> HIDE DEF output, bt, at
<1>6. CASE Exit(p, "failed")
  BY <1>1, <1>2, <1>6, ExitStep
<1>7. CASE Becomes(p, r)
  <2>1. /\ filled \in Run /\ filled.at = "read" /\ Keeps(p, filled) /\ Plain(filled)
        /\ filled.input = pr[p].input /\ filled.climatology = pr[p].climatology
        /\ filled.band = b /\ filled.aot = a /\ filled.bandTable = bt /\ filled.aotTable = at
    BY <1>1, <1>2, <1>5 DEF Run, Keeps, Plain
  <2>2. b \in 1 .. SixsBands /\ a \in 1 .. Len(Aots) /\ Len(Aots) \in Nat /\ SixsBands \in Nat
    BY <1>1, Fields, Thicknesses
  <2>3. 1 \in 1 .. Len(Aots)
    BY Thicknesses
  <2> HIDE DEF filled, a, b
  <2>4. /\ r \in Run /\ Keeps(p, r) /\ Plain(r)
        /\ r.input = pr[p].input /\ r.climatology = pr[p].climatology
        /\ r.bandTable = bt /\ r.aotTable = at
        /\ \/ a < Len(Aots) /\ r.at = "command" /\ r.band = b /\ r.aot = a + 1
           \/ a = Len(Aots) /\ b < SixsBands /\ r.at = "command" /\ r.band = b + 1 /\ r.aot = 1
           \/ a = Len(Aots) /\ b = SixsBands /\ r.at = "unlink"
    <3>1. CASE a < Len(Aots)
      <4>1. r = [filled EXCEPT !.at = "command", !.aot = a + 1]
        BY <2>1, <3>1 DEF Advanced
      <4>2. a + 1 \in 1 .. Len(Aots)
        BY <2>2, <3>1
      <4> QED
        BY <2>1, <3>1, <4>1, <4>2 DEF Run, Keeps, Plain, Places, InSixs
    <3>2. CASE ~(a < Len(Aots)) /\ b < SixsBands
      <4>1. r = [filled EXCEPT !.at = "command", !.band = b + 1, !.aot = 1]
        BY <2>1, <3>2 DEF Advanced
      <4>2. b + 1 \in 1 .. SixsBands /\ a = Len(Aots)
        BY <2>2, <3>2
      <4> QED
        BY <2>1, <2>3, <3>2, <4>1, <4>2 DEF Run, Keeps, Plain, Places, InSixs
    <3>3. CASE ~(a < Len(Aots)) /\ ~(b < SixsBands)
      <4>1. r = [filled EXCEPT !.at = "unlink"]
        BY <2>1, <3>3 DEF Advanced
      <4>2. b = SixsBands /\ a = Len(Aots)
        BY <2>2, <3>3
      <4> QED
        BY <2>1, <3>3, <4>1, <4>2 DEF Run, Keeps, Plain, Places, Tabled
    <3> QED
      BY <3>1, <3>2, <3>3
  <2> HIDE DEF r
  <2>5. pr'[p] = r /\ Within(p) /\ r.at \in {"command", "unlink"}
    BY <1>1, <1>2, <1>7, <2>4, Becoming, Inside
  <2>6. /\ SceneOf(p)' = SceneOf(p) /\ Name(p)' = Name(p) /\ ImageLines(p)' = ImageLines(p)
        /\ \A i, j : Command(p, i, j)' = Command(p, i, j)
    BY <1>1, <2>4, <2>5, SameRun DEF Keeps
  <2>7. Writes(p)'
    <3>1. DOMAIN out[SceneOf(p)] = ImageLines(p)
      BY <1>1 DEF Proc, Writes, HasOutput, InSixs
    <3> QED
      BY <1>1, <2>5, <2>6, <3>1 DEF Writes, HasOutput, Tabled, InPasses, InFinish, dirVars
  <2>8. r.at = "command" => Filled(p)'
    <3> SUFFICES ASSUME r.at = "command" PROVE Filled(p)'
      OBVIOUS
    <3>1. CASE a < Len(Aots) /\ r.band = b /\ r.aot = a + 1
      <4>1. \A i \in 1 .. SixsBands : i <= b <=> i < r.band \/ (i = r.band /\ r.aot > 1)
        BY <2>2, <3>1
      <4>2. \A i \in 1 .. SixsBands, j \in 1 .. Len(Aots) :
               i < b \/ (i = b /\ j <= a) <=> i < r.band \/ (i = r.band /\ j < r.aot)
        BY <2>2, <3>1
      <4>3. \A i \in 1 .. SixsBands :
               r.bandTable[i] = IF i < r.band \/ (i = r.band /\ r.aot > 1)
                                THEN Command(p, i, 1) ELSE NoFile
        BY <1>5, <2>4, <4>1
      <4>4. \A i \in 1 .. SixsBands, j \in 1 .. Len(Aots) :
               r.aotTable[i][j] = IF i < r.band \/ (i = r.band /\ j < r.aot)
                                  THEN Command(p, i, j) ELSE NoFile
        BY <1>5, <2>4, <4>2
      <4> QED
        BY <2>5, <2>6, <4>3, <4>4 DEF Filled
    <3>2. CASE a = Len(Aots) /\ r.band = b + 1 /\ r.aot = 1
      <4>1. \A i \in 1 .. SixsBands : i <= b <=> i < r.band \/ (i = r.band /\ r.aot > 1)
        BY <2>2, <3>2
      <4>2. \A i \in 1 .. SixsBands, j \in 1 .. Len(Aots) :
               i < b \/ (i = b /\ j <= a) <=> i < r.band \/ (i = r.band /\ j < r.aot)
        BY <2>2, <3>2
      <4>3. \A i \in 1 .. SixsBands :
               r.bandTable[i] = IF i < r.band \/ (i = r.band /\ r.aot > 1)
                                THEN Command(p, i, 1) ELSE NoFile
        BY <1>5, <2>4, <4>1
      <4>4. \A i \in 1 .. SixsBands, j \in 1 .. Len(Aots) :
               r.aotTable[i][j] = IF i < r.band \/ (i = r.band /\ j < r.aot)
                                  THEN Command(p, i, j) ELSE NoFile
        BY <1>5, <2>4, <4>2
      <4> QED
        BY <2>5, <2>6, <4>3, <4>4 DEF Filled
    <3> QED
      BY <2>4, <3>1, <3>2
  <2>9. r.at = "unlink" => AllFilled(p)'
    <3> SUFFICES ASSUME r.at = "unlink" PROVE AllFilled(p)'
      OBVIOUS
    <3>1. a = Len(Aots) /\ b = SixsBands
      BY <2>4
    <3>2. /\ \A i \in 1 .. SixsBands : i <= b
          /\ \A i \in 1 .. SixsBands, j \in 1 .. Len(Aots) : i < b \/ (i = b /\ j <= a)
      BY <2>2, <3>1
    <3>3. \A i \in 1 .. SixsBands : r.bandTable[i] = Command(p, i, 1)
      BY <1>5, <2>4, <3>2
    <3>4. \A i \in 1 .. SixsBands, j \in 1 .. Len(Aots) : r.aotTable[i][j] = Command(p, i, j)
      BY <1>5, <2>4, <3>2
    <3> QED
      BY <2>5, <2>6, <3>3, <3>4 DEF AllFilled
  <2>10. Tables(p)'
    BY <2>5, <2>8, <2>9 DEF Tables, Tabled, InSetup, InSixs, InPasses, InFinish, Stopped
  <2>11. Aerosols(p)' /\ Masks(p)'
    BY <2>4, <2>5, PlainProc DEF BeforePasses, InSixs
  <2> QED
    BY <1>1, <1>2, <1>7, <2>4, <2>5, <2>7, <2>10, <2>11, Working DEF InFinish, Stopped
<1> QED
  BY <1>4, <1>6, <1>7

LEMMA UnlinkSixsStep ==
  ASSUME IInv, NEW p \in Procs, UnlinkSixs(p)
  PROVE  IInv'
<1>1. Typed /\ Proc(p) /\ pr[p] \in Run /\ pr[p].at = "unlink"
      /\ UNCHANGED <<files, lndcal, runs, temps, out, headers, published, unfinished>>
  BY Fields DEF IInv, UnlinkSixs
<1>2. Plain(pr[p]) /\ Active(p)
  BY <1>1, StillPlain DEF BeforePasses
<1> DEFINE r == [pr[p] EXCEPT !.at = "grid"]
<1>3. /\ sixsCmd' = [sixsCmd EXCEPT ![Name(p)] = NoFile]
      /\ sixsOut' = [sixsOut EXCEPT ![Name(p)] = NoFile]
      /\ Becomes(p, r)
  BY DEF UnlinkSixs
<1>4. /\ r \in Run /\ r.at = "grid" /\ Keeps(p, r) /\ r.input = pr[p].input /\ Plain(r)
      /\ r.climatology = pr[p].climatology
      /\ r.bandTable = pr[p].bandTable /\ r.aotTable = pr[p].aotTable
  BY <1>1, <1>2 DEF Run, Keeps, Plain, Places, Tabled
<1> HIDE DEF r
<1>5. pr'[p] = r
  BY <1>1, <1>3, <1>4, Becoming
<1>6. /\ SceneOf(p)' = SceneOf(p) /\ Name(p)' = Name(p) /\ ImageLines(p)' = ImageLines(p)
      /\ \A i, j : Command(p, i, j)' = Command(p, i, j)
  BY <1>1, <1>4, <1>5, SameRun DEF Keeps
<1>7. /\ DOMAIN sixsCmd' = SixsNames /\ sixsCmd'[Name(p)] = NoFile
      /\ DOMAIN sixsOut' = SixsNames /\ sixsOut'[Name(p)] = NoFile
      /\ \A s \in Scenes \ {SceneOf(p)} :
            /\ sixsCmd'[SixsName(s)] = sixsCmd[SixsName(s)]
            /\ sixsOut'[SixsName(s)] = sixsOut[SixsName(s)]
  BY <1>1, <1>2, <1>3, OwnName DEF Typed
<1>8. Within(p)
  BY <1>1, <1>2, <1>7 DEF Within, Typed, Proc, Held, ImageLines
<1>9. Writes(p)'
  BY <1>1, <1>4, <1>5, <1>6 DEF Proc, Writes, HasOutput, Tabled, InSixs, InPasses, InFinish
<1>10. AllFilled(p)'
  BY <1>1, <1>4, <1>5, <1>6 DEF Proc, Tables, AllFilled, Tabled
<1>11. Tables(p)'
  BY <1>4, <1>5, <1>6, <1>7, <1>10 DEF Tables, Tabled, InSetup, InSixs, InPasses, InFinish, Stopped
<1>12. Aerosols(p)' /\ Masks(p)'
  BY <1>4, <1>5, PlainProc DEF BeforePasses
<1> QED
  BY <1>1, <1>2, <1>3, <1>4, <1>8, <1>9, <1>11, <1>12, Working DEF InFinish, Stopped

-----------------------------------------------------------------------------
(* The passes over the image.                                              *)
Carries(p, r) ==
    /\ Keeps(p, r)
    /\ r.input.lines = pr[p].input.lines /\ r.input.dated = pr[p].input.dated
    /\ r.climatology = pr[p].climatology
    /\ r.bandTable = pr[p].bandTable /\ r.aotTable = pr[p].aotTable
AfterSixs == {"grid"} \union InPasses \union InFinish

LEMMA TablesKept ==
  ASSUME NEW p \in Procs, Proc(p), pr[p].at \in AfterSixs, pr'[p].at \in AfterSixs,
         Carries(p, pr'[p]), UNCHANGED <<files, sixsCmd, sixsOut>>
  PROVE  Tables(p)'
<1>1. /\ Name(p)' = Name(p) /\ \A i, j : Command(p, i, j)' = Command(p, i, j)
      /\ pr'[p].bandTable = pr[p].bandTable /\ pr'[p].aotTable = pr[p].aotTable
  BY SameRun DEF Carries, Keeps
<1>2. /\ AllFilled(p)
      /\ sixsCmd[Name(p)] = NoFile /\ sixsOut[Name(p)] = NoFile
  BY DEF Proc, Tables, Tabled, AfterSixs, InPasses, InFinish
<1>3. AllFilled(p)'
  BY <1>1, <1>2 DEF AllFilled
<1> QED
  BY <1>1, <1>2, <1>3 DEF Tables, Tabled, AfterSixs, InSetup, InSixs, InPasses, InFinish, Stopped

(* What every step of a run with its tables starts from.                   *)
LEMMA Passing ==
  ASSUME IInv, NEW p \in Procs, pr[p].at \in AfterSixs
  PROVE  /\ Typed /\ Proc(p) /\ Active(p) /\ pr[p] \in Run
         /\ SceneOf(p) \in Scenes
         /\ Lines(p) = Metadata(SceneOf(p)).lines /\ Lines(p) \in Nat
         /\ DOMAIN out[SceneOf(p)] = ImageLines(p)
         /\ \A b \in Blocks(p) : Retrieved[b] \in Int /\ GapFilled[b] \in Int
<1>1. Typed /\ Proc(p) /\ Active(p) /\ pr[p] \in Run
  BY Fields DEF IInv, Active, Stopped, AfterSixs, InPasses, InFinish
<1>2. /\ SceneOf(p) \in Scenes
      /\ Lines(p) = Metadata(SceneOf(p)).lines
  BY <1>1 DEF Proc, Held
<1>3. Metadata(SceneOf(p)) \in Metadatas
  BY <1>1, <1>2 DEF Typed, Metadata, SceneFiles
<1>4. Lines(p) \in Nat
  BY <1>2, <1>3 DEF Metadatas
<1>5. DOMAIN out[SceneOf(p)] = ImageLines(p)
  BY <1>1 DEF Proc, Writes, HasOutput, Tabled, AfterSixs, InPasses, InFinish
<1>6. \A b \in Blocks(p) : Retrieved[b] \in Int /\ GapFilled[b] \in Int
  <2>1. PICK x \in Inputs : \A s \in Scenes : Metadata(s) = x[s].m
    BY <1>1 DEF Typed, Given
  <2>2. Lines(p) = x[SceneOf(p)].m.lines
    BY <1>2, <2>1
  <2> QED
    BY <1>2, <2>2, InputsAssumption DEF Blocks
<1> QED
  BY <1>1, <1>2, <1>4, <1>5, <1>6

LEMMA Chooses ==
  ASSUME NEW D \in SUBSET Int, NEW a \in [D -> Int]
  PROVE  /\ update_atmos_coefs(a) \in Coefs
         /\ \A b \in D : Brackets(Aot550(a[b]), update_atmos_coefs(a)[b])
<1>1. \A n \in Int : Aot550(n) \in Int
  BY DEF Aot550
<1>2. \A b \in D : /\ AotIndex(Aot550(a[b])) \in 0 .. Len(Aots) - 2
                   /\ Brackets(Aot550(a[b]), AotIndex(Aot550(a[b])))
  BY <1>1, Chosen
<1>3. update_atmos_coefs(a) = [b \in D |-> AotIndex(Aot550(a[b]))]
  BY DEF update_atmos_coefs
<1>4. update_atmos_coefs(a) \in [D -> 0 .. Len(Aots) - 2]
  BY <1>2, <1>3
<1> QED
  BY <1>2, <1>3, <1>4 DEF Coefs

LEMMA GridCellsStep ==
  ASSUME IInv, NEW p \in Procs, GridCells(p)
  PROVE  IInv'
<1>1. pr[p].at = "grid" /\ UNCHANGED <<files, lndcal, runs, dirVars>>
  BY DEF GridCells
<1>2. /\ Typed /\ Proc(p) /\ Active(p) /\ pr[p] \in Run
      /\ DOMAIN out[SceneOf(p)] = ImageLines(p)
  BY <1>1, Passing DEF AfterSixs
<1>3. Plain(pr[p])
  BY <1>1, <1>2, StillPlain DEF BeforePasses
<1> DEFINE coefs == update_atmos_coefs([b \in Blocks(p) |-> AerosolFill])
           r == [pr[p] EXCEPT !.at = "pass1", !.il = 0, !.coefs = coefs]
<1>4. Becomes(p, r)
  BY DEF GridCells
<1>5. coefs \in Coefs
  <2>1. [b \in Blocks(p) |-> AerosolFill] \in [Blocks(p) -> Int]
    BY SurfaceAssumption
  <2>2. Blocks(p) \in SUBSET Int
    BY DEF Blocks
  <2> QED
    BY <2>1, <2>2, Chooses
<1> HIDE DEF coefs
<1>6. /\ r \in Run /\ r.at = "pass1" /\ Carries(p, r) /\ r.input = pr[p].input
      /\ r.aerosol = << >> /\ r.tmp = << >>
      /\ r.rotCld = <<BlankBlock, BlankBlock, BlankBlock>>
  BY <1>2, <1>3, <1>5 DEF Run, Carries, Keeps, Plain, Places, Tabled, InPasses
<1> HIDE DEF r
<1>7. pr'[p] = r /\ Within(p)
  BY <1>1, <1>2, <1>4, <1>6, Becoming, Inside
<1>8. SceneOf(p)' = SceneOf(p) /\ ImageLines(p)' = ImageLines(p)
  BY <1>1, <1>6, <1>7, SameRun DEF Carries, Keeps
<1>9. Tables(p)'
  BY <1>1, <1>2, <1>6, <1>7, TablesKept DEF AfterSixs, InPasses, dirVars
<1>10. Aerosols(p)'
  BY <1>6, <1>7 DEF Aerosols, InPasses, InFinish
<1>11. Masks(p)'
  <2>1. Len(pr'[p].tmp) = 0 * Region
    BY <1>6, <1>7, SurfaceAssumption
  <2> QED
    BY <1>6, <1>7, <2>1 DEF Masks
<1>12. Writes(p)'
  BY <1>1, <1>2, <1>6, <1>7, <1>8 DEF Writes, HasOutput, InFinish, dirVars
<1> QED
  BY <1>1, <1>2, <1>4, <1>6, <1>7, <1>9, <1>10, <1>11, <1>12, Working
     DEF Carries, Keeps, InFinish, Stopped

LEMMA Pass1LineStep ==
  ASSUME IInv, NEW p \in Procs, Pass1Line(p)
  PROVE  IInv'
<1>1. pr[p].at = "pass1" /\ UNCHANGED <<files, lndcal, runs, dirVars>>
  BY DEF Pass1Line
<1>2. /\ Typed /\ Proc(p) /\ Active(p) /\ pr[p] \in Run
      /\ DOMAIN out[SceneOf(p)] = ImageLines(p)
  BY <1>1, Passing DEF AfterSixs, InPasses
<1> DEFINE next == pr[p].il + 1
           r == [pr[p] EXCEPT !.il = next]
<1>3. Exit(p, "failed") \/ Becomes(p, r)
  BY DEF Pass1Line
<1>4. CASE Exit(p, "failed")
  BY <1>1, <1>2, <1>4, ExitStep
<1>5. CASE Becomes(p, r)
  <2>1. next \in Nat
    BY <1>2 DEF Run
  <2> HIDE DEF next
  <2>2. /\ r \in Run /\ r.at = "pass1" /\ Carries(p, r) /\ r.input = pr[p].input
        /\ r.aerosol = pr[p].aerosol /\ r.tmp = pr[p].tmp /\ r.rotCld = pr[p].rotCld
    BY <1>1, <1>2, <2>1 DEF Run, Carries, Keeps
  <2> HIDE DEF r
  <2>3. pr'[p] = r /\ Within(p)
    BY <1>1, <1>2, <1>5, <2>2, Becoming, Inside
  <2>4. SceneOf(p)' = SceneOf(p) /\ ImageLines(p)' = ImageLines(p)
    BY <1>1, <2>2, <2>3, SameRun DEF Carries, Keeps
  <2>5. Tables(p)'
    BY <1>1, <1>2, <2>2, <2>3, TablesKept DEF AfterSixs, InPasses, dirVars
  <2>6. Aerosols(p)'
    BY <1>1, <1>2, <2>2, <2>3 DEF Proc, Aerosols, InPasses, InFinish
  <2>7. Masks(p)'
    BY <1>1, <1>2, <2>2, <2>3 DEF Proc, Masks
  <2>8. Writes(p)'
    BY <1>1, <1>2, <2>2, <2>3, <2>4 DEF Writes, HasOutput, InFinish, dirVars
  <2> QED
    BY <1>1, <1>2, <1>5, <2>2, <2>3, <2>5, <2>6, <2>7, <2>8, Working
       DEF Carries, Keeps, InFinish, Stopped
<1> QED
  BY <1>3, <1>4, <1>5

LEMMA CreateTempStep ==
  ASSUME IInv, NEW p \in Procs, CreateTemp(p)
  PROVE  IInv'
<1>1. /\ pr[p].at = "pass1" /\ temps' = temps \union {pr[p].run}
      /\ UNCHANGED <<files, lndcal, runs, sixsCmd, sixsOut, out, headers, published, unfinished>>
  BY DEF CreateTemp
<1>2. /\ Typed /\ Proc(p) /\ Active(p) /\ pr[p] \in Run /\ SceneOf(p) \in Scenes
      /\ Lines(p) = Metadata(SceneOf(p)).lines /\ DOMAIN out[SceneOf(p)] = ImageLines(p)
  BY <1>1, Passing DEF AfterSixs, InPasses
<1> DEFINE r == [pr[p] EXCEPT !.at = "pass2", !.il = 0]
<1>3. Becomes(p, r)
  BY DEF CreateTemp
<1>4. /\ r \in Run /\ r.at = "pass2" /\ Carries(p, r) /\ r.input = pr[p].input
      /\ r.aerosol = << >> /\ r.tmp = << >> /\ r.il = 0
      /\ r.rotCld = <<BlankBlock, BlankBlock, BlankBlock>>
  BY <1>1, <1>2 DEF Run, Carries, Keeps, Proc, Aerosols, Masks, Places, Tabled, InPasses, InFinish
<1> HIDE DEF r
<1>5. pr'[p] = r
  BY <1>2, <1>3, <1>4, Becoming
<1>6. Within(p)
  BY <1>1, <1>2 DEF Within, Typed
<1>7. SceneOf(p)' = SceneOf(p) /\ ImageLines(p)' = ImageLines(p)
  BY <1>1, <1>4, <1>5, SameRun DEF Carries, Keeps
<1>8. Tables(p)'
  BY <1>1, <1>2, <1>4, <1>5, TablesKept DEF AfterSixs, InPasses
<1>9. Aerosols(p)'
  BY <1>4, <1>5 DEF Aerosols, InPasses, InFinish
<1>10. Region \in Nat \ {0} /\ 0 * Region = 0 /\ (-1) * Region = -Region
  BY SurfaceAssumption
<1>11. Saves(p, 0)'
  BY <1>4, <1>5 DEF Saves
<1>12. Buffered(p, 0)'
  <2> SUFFICES ASSUME NEW n \in 1 .. Region
               PROVE  (/\ (0 - 1) * Region + n - 1 \in ImageLines(p) =>
                            pr[p].rotCld[1][n] = [line |-> (0 - 1) * Region + n - 1,
                                    casts |-> {0 - 2, 0 - 1} \intersect Nat, dark |-> -1]
                       /\ pr[p].rotCld[2][n] =
                            [line |-> -1, casts |-> {0 - 1} \intersect Nat, dark |-> -1]
                       /\ pr[p].rotCld[3][n] = Blank)'
    BY DEF Buffered
  <2>1. (0 - 1) * Region + n - 1 \notin ImageLines(p)
    BY <1>10 DEF ImageLines
  <2>2. {0 - 1} \intersect Nat = {}
    OBVIOUS
  <2>3. r.rotCld[2][n] = Blank /\ r.rotCld[3][n] = Blank
    BY <1>4, Blanks
  <2>4. Blank = [line |-> -1, casts |-> {0 - 1} \intersect Nat, dark |-> -1]
    BY <2>2 DEF Blank
  <2> QED
    BY <1>5, <1>7, <2>1, <2>3, <2>4
<1>13. Masks(p)'
  <2>1. Len(r.tmp) = 0 * Region /\ Len(r.tmp) = 0
    BY <1>4, <1>10
  <2>2. SavedRows(p, 0)'
    BY <1>4, <1>5, <1>10, <1>11, <1>12, <2>1 DEF SavedRows
  <2> QED
    BY <1>4, <1>5, <2>1, <2>2 DEF Masks
<1>14. Writes(p)'
  BY <1>1, <1>2, <1>4, <1>5, <1>7 DEF Writes, HasOutput, InFinish
<1> QED
  BY <1>1, <1>2, <1>3, <1>4, <1>5, <1>6, <1>8, <1>9, <1>13, <1>14, Working
     DEF Carries, Keeps, InFinish, Stopped

LEMMA Marked ==
  ASSUME NEW m \in Mask
  PROVE  /\ \A n \in Int : [m EXCEPT !.line = n] = [line |-> n, casts |-> m.casts, dark |-> m.dark]
         /\ \A c \in SUBSET Int :
               [m EXCEPT !.casts = c] = [line |-> m.line, casts |-> c, dark |-> m.dark]
         /\ \A d \in Int : [m EXCEPT !.dark = d] = [line |-> m.line, casts |-> m.casts, dark |-> d]
         /\ m = [line |-> m.line, casts |-> m.casts, dark |-> m.dark]
         /\ m.line \in Int /\ m.casts \in SUBSET Int /\ m.dark \in Int
BY DEF Mask

(* What the second pass does to a buffer, and to what it saves.            *)
LEMMA Marking ==
  ASSUME NEW p \in Procs, pr[p].il \in Nat, Lines(p) \in Nat, NEW buffer \in Block
  PROVE  /\ Detect(p, buffer) \in Block /\ Cast(p, buffer) \in Block
         /\ \A r \in 1 .. Region :
               /\ Detect(p, buffer)[r] = [line |-> IF pr[p].il + r - 1 < Lines(p)
                                                   THEN pr[p].il + r - 1 ELSE buffer[r].line,
                                          casts |-> buffer[r].casts, dark |-> buffer[r].dark]
               /\ pr[p].thermal =>
                     Cast(p, buffer)[r] = [line |-> buffer[r].line,
                                           casts |-> buffer[r].casts \union {pr[p].il \div Region},
                                           dark |-> buffer[r].dark]
<1>1. Region \in Nat \ {0} /\ pr[p].il \div Region \in Nat
  BY SurfaceAssumption, RowOf
<1> DEFINE row == pr[p].il \div Region
<1>2. row \in Int
  BY <1>1
<1> HIDE DEF row
<1>3. ASSUME NEW r \in 1 .. Region
      PROVE  /\ buffer[r] \in Mask
             /\ buffer[r] = [line |-> buffer[r].line, casts |-> buffer[r].casts,
                             dark |-> buffer[r].dark]
  <2>1. buffer[r] \in Mask
    BY DEF Block
  <2> QED
    BY <2>1, Marked
<1>4. Detect(p, buffer) = [r \in 1 .. Region |->
        IF pr[p].il + r - 1 < Lines(p) THEN [buffer[r] EXCEPT !.line = pr[p].il + r - 1]
        ELSE buffer[r]]
  BY DEF Detect
<1>5. ASSUME NEW r \in 1 .. Region
      PROVE  /\ Detect(p, buffer)[r] \in Mask
             /\ Detect(p, buffer)[r] = [line |-> IF pr[p].il + r - 1 < Lines(p)
                                                 THEN pr[p].il + r - 1 ELSE buffer[r].line,
                                        casts |-> buffer[r].casts, dark |-> buffer[r].dark]
  <2>1. CASE pr[p].il + r - 1 < Lines(p)
    <3>1. Detect(p, buffer)[r] = [buffer[r] EXCEPT !.line = pr[p].il + r - 1]
      BY <1>4, <2>1
    <3> DEFINE line == pr[p].il + r - 1
               m == buffer[r]
    <3>2. m \in Mask /\ line \in Int
      <4>1. pr[p].il \in Nat
        OBVIOUS
      <4>2. line \in Int
        BY <4>1
      <4> QED
        BY <1>3, <4>2
    <3>3. [m EXCEPT !.line = line] = [line |-> line, casts |-> m.casts, dark |-> m.dark]
      BY <3>2, Marked
    <3>4. [line |-> line, casts |-> m.casts, dark |-> m.dark] \in Mask
      BY <3>2, Marked DEF Mask
    <3> QED
      BY <2>1, <3>1, <3>3, <3>4
  <2>2. CASE ~(pr[p].il + r - 1 < Lines(p))
    <3>1. Detect(p, buffer)[r] = buffer[r]
      BY <1>4, <2>2
    <3> QED
      BY <1>3, <2>2, <3>1
  <2> QED
    BY <2>1, <2>2
<1>6. Detect(p, buffer) \in Block
  BY <1>4, <1>5 DEF Block
<1>7. CASE pr[p].thermal
  <2>1. Cast(p, buffer) = [r \in 1 .. Region |-> [buffer[r] EXCEPT !.casts = @ \union {row}]]
    BY <1>7 DEF Cast, row
  <2>2. ASSUME NEW r \in 1 .. Region
        PROVE  /\ Cast(p, buffer)[r] \in Mask
               /\ Cast(p, buffer)[r] = [line |-> buffer[r].line,
                                        casts |-> buffer[r].casts \union {row},
                                        dark |-> buffer[r].dark]
    <3>1. Cast(p, buffer)[r] = [buffer[r] EXCEPT !.casts = buffer[r].casts \union {row}]
      BY <2>1
    <3> DEFINE casts == buffer[r].casts \union {row}
               m == buffer[r]
    <3>2. m \in Mask /\ casts \in SUBSET Int
      BY <1>2, <1>3, Marked
    <3>3. [m EXCEPT !.casts = casts] = [line |-> m.line, casts |-> casts, dark |-> m.dark]
      BY <3>2, Marked
    <3>4. [line |-> m.line, casts |-> casts, dark |-> m.dark] \in Mask
      BY <3>2, Marked DEF Mask
    <3> QED
      BY <3>1, <3>3, <3>4
  <2>3. Cast(p, buffer) \in Block
    BY <2>1, <2>2 DEF Block
  <2> QED
    BY <1>5, <1>6, <2>2, <2>3 DEF row
<1>8. CASE ~pr[p].thermal
  <2>1. Cast(p, buffer) = buffer
    BY <1>8 DEF Cast
  <2> QED
    BY <1>5, <1>6, <1>8, <2>1
<1> QED
  BY <1>7, <1>8

LEMMA SaveRow ==
  ASSUME NEW tmp \in Seq(Mask), NEW block \in Block
  PROVE  /\ tmp \o block \in Seq(Mask) /\ Len(tmp \o block) = Len(tmp) + Region
         /\ \A i \in 1 .. Len(tmp) : (tmp \o block)[i] = tmp[i]
         /\ \A r \in 1 .. Region : (tmp \o block)[Len(tmp) + r] = block[r]
<1>1. Region \in Nat
  BY SurfaceAssumption
<1>2. block \in Seq(Mask) /\ Len(block) = Region
  BY <1>1 DEF Block
<1>3. tmp \o block \in Seq(Mask) /\ Len(tmp \o block) = Len(tmp) + Region
  BY <1>2
<1>4. ASSUME NEW i \in 1 .. Len(tmp) + Region
      PROVE  (tmp \o block)[i] = IF i <= Len(tmp) THEN tmp[i] ELSE block[i - Len(tmp)]
  BY <1>2, <1>4
<1>5. Len(tmp) \in Nat
  OBVIOUS
<1> QED
  BY <1>1, <1>3, <1>4, <1>5

(* The rows whose clouds and shadows reach into a row.                     *)
LEMMA Reach ==
  ASSUME NEW p \in Procs, Lines(p) \in Nat, NEW k \in Nat, (k > 0 => (k - 1) * Region < Lines(p)),
         k > 0
  PROVE  Casts(p, k - 1) = IF k * Region < Lines(p) THEN ({k - 2, k - 1} \intersect Nat) \union {k}
                           ELSE {k - 2, k - 1} \intersect Nat
<1>1. \A j \in Nat : j \in Blocks(p) <=> j * Region < Lines(p)
  BY RowsOfImage DEF Blocks
<1>2. Blocks(p) \subseteq Nat
  BY DEF Blocks
<1>3. k - 1 \in Blocks(p) /\ (k \in Blocks(p) <=> k * Region < Lines(p))
  BY <1>1
<1>4. k - 2 \in Nat => k - 2 \in Blocks(p)
  <2> SUFFICES ASSUME k - 2 \in Nat PROVE (k - 2) * Region < Lines(p)
    BY <1>1
  <2>1. (k - 2) * Region \in Nat /\ (k - 2 + 1) * Region = (k - 2) * Region + Region
    BY Rows
  <2>2. k - 2 + 1 = k - 1 /\ Region \in Nat
    BY SurfaceAssumption
  <2> QED
    BY <2>1, <2>2
<1>5. Casts(p, k - 1) = {k - 1 - 1, k - 1, k - 1 + 1} \intersect Blocks(p)
  BY DEF Casts
<1>6. k - 1 - 1 = k - 2 /\ k - 1 + 1 = k /\ k - 1 \in Nat
  OBVIOUS
<1> QED
  BY <1>2, <1>3, <1>4, <1>5, <1>6

LEMMA InRowOf ==
  ASSUME NEW n \in Nat, NEW x \in Nat, x + 1 > n, x + 1 \in 1 .. n + Region
  PROVE  \E r \in 1 .. Region : x + 1 = n + r /\ n + r - 1 = x /\ n <= x /\ x < n + Region
<1>1. Region \in Nat
  BY SurfaceAssumption
<1>2. x + 1 - n \in 1 .. Region /\ x + 1 = n + (x + 1 - n) /\ n + (x + 1 - n) - 1 = x
      /\ n <= x /\ x < n + Region
  BY <1>1
<1> QED
  BY <1>2

(* A row saved in its place keeps what is saved in place.                  *)
LEMMA SavesOneMore ==
  ASSUME NEW p \in Procs, Lines(p) \in Nat, NEW k \in Nat, k > 0,
         pr[p].tmp \in Seq(Mask), Len(pr[p].tmp) = (k - 1) * Region, Saves(p, 0),
         NEW block \in Block,
         \A r \in 1 .. Region : (k - 1) * Region + r - 1 \in ImageLines(p) =>
             block[r] = [line |-> (k - 1) * Region + r - 1, casts |-> Casts(p, k - 1), dark |-> -1]
  PROVE  \A x \in ImageLines(p) : x + 1 \in DOMAIN (pr[p].tmp \o block) =>
             (pr[p].tmp \o block)[x + 1] = MaskOf(p, x, -1)
<1> DEFINE tmp == pr[p].tmp
           n == (k - 1) * Region
           saved == tmp \o block
<1>1. n \in Nat /\ Region \in Nat \ {0} /\ k - 1 \in Nat /\ Len(tmp) = n
  BY SurfaceAssumption, Rows
<1>2. /\ Len(saved) = n + Region /\ saved \in Seq(Mask)
      /\ \A i \in 1 .. n : saved[i] = tmp[i]
      /\ \A r \in 1 .. Region : saved[n + r] = block[r]
  <2>1. tmp \in Seq(Mask) /\ Len(tmp) = n
    OBVIOUS
  <2> HIDE DEF tmp, n
  <2> QED
    BY <2>1, SaveRow
<1>3. \A r \in 1 .. Region : n + r - 1 \in ImageLines(p) =>
          block[r] = [line |-> n + r - 1, casts |-> Casts(p, k - 1), dark |-> -1]
  OBVIOUS
<1>4. \A x \in Nat : n <= x /\ x < n + Region => x \div Region = k - 1
  BY <1>1, InRow
<1>5. \A x \in ImageLines(p) : x + 1 \in DOMAIN tmp => tmp[x + 1] = MaskOf(p, x, -1)
  BY DEF Saves, ImageLines
<1>6. DOMAIN saved = 1 .. n + Region /\ DOMAIN tmp = 1 .. n
  BY <1>1, <1>2
<1> SUFFICES ASSUME NEW x \in ImageLines(p), x + 1 \in DOMAIN saved
             PROVE  saved[x + 1] = MaskOf(p, x, -1)
  OBVIOUS
<1> HIDE DEF n, tmp, saved
<1>7. x \in Nat
  BY DEF ImageLines
<1>8. CASE x + 1 <= n
  BY <1>1, <1>2, <1>5, <1>6, <1>7, <1>8
<1>9. CASE x + 1 > n
  <2>1. PICK r \in 1 .. Region : x + 1 = n + r /\ n + r - 1 = x /\ n <= x /\ x < n + Region
    BY <1>1, <1>6, <1>7, <1>9, InRowOf
  <2>2. saved[x + 1] = block[r]
    BY <1>2, <2>1
  <2>3. x \div Region = k - 1
    BY <1>4, <1>7, <2>1, Zenon
  <2>4. block[r] = [line |-> x, casts |-> Casts(p, k - 1), dark |-> -1]
    BY <1>3, <2>1
  <2> QED
    BY <2>2, <2>3, <2>4 DEF MaskOf
<1> QED
  BY <1>1, <1>7, <1>8, <1>9

(* A row of masks detected and cast into keeps the buffers in step.        *)
LEMMA RowMarked ==
  ASSUME NEW p \in Procs, NEW k \in Nat, pr[p].il = k * Region, Lines(p) \in Nat,
         pr[p].il < Lines(p), pr[p].rotCld \in Block \X Block \X Block, pr[p].thermal,
         Buffered(p, k), NEW n \in 1 .. Region
  PROVE  /\ k > 0 /\ (k - 1) * Region + n - 1 \in ImageLines(p) =>
               Cast(p, pr[p].rotCld[1])[n] =
                  [line |-> (k - 1) * Region + n - 1,
                   casts |-> ({k - 2, k - 1} \intersect Nat) \union {k}, dark |-> -1]
         /\ k * Region + n - 1 \in ImageLines(p) =>
               Cast(p, Detect(p, pr[p].rotCld[2]))[n] =
                  [line |-> k * Region + n - 1, casts |-> {k - 1, k} \intersect Nat, dark |-> -1]
         /\ Cast(p, pr[p].rotCld[3])[n] =
               [line |-> -1, casts |-> {k} \intersect Nat, dark |-> -1]
<1> DEFINE old == pr[p].rotCld
<1>1. /\ pr[p].il \in Nat /\ pr[p].il \div Region = k
      /\ old[1] \in Block /\ old[2] \in Block /\ old[3] \in Block
  BY Rows
<1>2. /\ Cast(p, old[1])[n] = [line |-> old[1][n].line, casts |-> old[1][n].casts \union {k},
                               dark |-> old[1][n].dark]
      /\ Cast(p, old[3])[n] = [line |-> old[3][n].line, casts |-> old[3][n].casts \union {k},
                               dark |-> old[3][n].dark]
  BY <1>1, Marking
<1>3. /\ (k - 1) * Region + n - 1 \in ImageLines(p) =>
            old[1][n] = [line |-> (k - 1) * Region + n - 1,
                         casts |-> {k - 2, k - 1} \intersect Nat, dark |-> -1]
      /\ old[2][n] = [line |-> -1, casts |-> {k - 1} \intersect Nat, dark |-> -1]
      /\ old[3][n] = Blank
  BY DEF Buffered
<1> DEFINE found == Detect(p, old[2])
<1>4. /\ found \in Block
      /\ found[n] = [line |-> IF pr[p].il + n - 1 < Lines(p) THEN pr[p].il + n - 1
                              ELSE old[2][n].line,
                     casts |-> old[2][n].casts, dark |-> old[2][n].dark]
  BY <1>1, Marking
<1> HIDE DEF found
<1>5. Cast(p, found)[n] = [line |-> found[n].line, casts |-> found[n].casts \union {k},
                           dark |-> found[n].dark]
  BY <1>1, <1>4, Marking
<1> HIDE DEF old
<1>6. k * Region + n - 1 \in ImageLines(p) => pr[p].il + n - 1 < Lines(p)
  BY <1>1 DEF ImageLines
<1>7. ASSUME k * Region + n - 1 \in ImageLines(p)
      PROVE  Cast(p, found)[n] =
                [line |-> k * Region + n - 1, casts |-> {k - 1, k} \intersect Nat, dark |-> -1]
  <2>1. found[n].line = k * Region + n - 1
    BY <1>4, <1>6, <1>7
  <2>2. found[n].casts = {k - 1} \intersect Nat /\ found[n].dark = -1
    BY <1>3, <1>4
  <2>3. ({k - 1} \intersect Nat) \union {k} = {k - 1, k} \intersect Nat
    OBVIOUS
  <2> QED
    BY <1>5, <2>1, <2>2, <2>3
<1>8. Cast(p, old[3])[n] = [line |-> -1, casts |-> {k} \intersect Nat, dark |-> -1]
  <2>1. old[3][n].line = -1 /\ old[3][n].casts = {} /\ old[3][n].dark = -1
    BY <1>3 DEF Blank
  <2>2. {} \union {k} = {k} \intersect Nat
    OBVIOUS
  <2> QED
    BY <1>2, <2>1, <2>2
<1>9. ASSUME (k - 1) * Region + n - 1 \in ImageLines(p)
      PROVE  Cast(p, old[1])[n] =
                [line |-> (k - 1) * Region + n - 1,
                 casts |-> ({k - 2, k - 1} \intersect Nat) \union {k}, dark |-> -1]
  <2>1. /\ old[1][n].line = (k - 1) * Region + n - 1 /\ old[1][n].dark = -1
        /\ old[1][n].casts = {k - 2, k - 1} \intersect Nat
    BY <1>3, <1>9
  <2> QED
    BY <1>2, <2>1
<1> QED
  BY <1>7, <1>8, <1>9 DEF old, found

LEMMA MaskBlockStep ==
  ASSUME IInv, NEW p \in Procs, MaskBlock(p)
  PROVE  IInv'
<1>1. pr[p].at = "pass2" /\ pr[p].il < Lines(p) /\ UNCHANGED <<files, lndcal, runs, dirVars>>
  BY DEF MaskBlock
<1>2. /\ Typed /\ Proc(p) /\ Active(p) /\ pr[p] \in Run /\ Lines(p) \in Nat
      /\ DOMAIN out[SceneOf(p)] = ImageLines(p)
  BY <1>1, Passing DEF AfterSixs, InPasses
<1>3. PICK k \in Nat : SavedRows(p, k)
  BY <1>1, <1>2 DEF Proc, Masks
<1> DEFINE old == pr[p].rotCld
           m1 == Cast(p, old[1])
           m2 == Cast(p, Detect(p, old[2]))
           m3 == Cast(p, old[3])
           rotated == <<m2, m3, BlankBlock>>
           tmp == IF pr[p].il > 0 THEN pr[p].tmp \o m1 ELSE pr[p].tmp
           next == pr[p].il + Region
           r == [pr[p] EXCEPT !.rotCld = rotated, !.il = next, !.tmp = tmp]
<1>4. Exit(p, "failed") \/ Becomes(p, r)
  BY DEF MaskBlock, Rotate, Saved
<1>5. CASE Exit(p, "failed")
  BY <1>1, <1>2, <1>5, ExitStep
<1>6. CASE Becomes(p, r)
  <2>1. /\ pr[p].tmp \in Seq(Mask) /\ old \in Block \X Block \X Block /\ pr[p].il \in Nat
        /\ pr[p].thermal \in BOOLEAN
    BY <1>2, Fields
  <2>2. /\ m1 \in Block /\ m2 \in Block /\ m3 \in Block /\ BlankBlock \in Block
    BY <1>2, <2>1, Marking, Blanks
  <2>3. /\ Region \in Nat \ {0} /\ k * Region \in Nat /\ (k + 1) * Region = k * Region + Region
        /\ pr[p].il = k * Region /\ next = (k + 1) * Region /\ next \in Nat
        /\ k + 1 - 1 = k /\ k + 1 - 2 = k - 1 /\ k + 1 > 0 /\ k + 1 # 0
    BY <1>3, Rows, SurfaceAssumption DEF SavedRows
  <2>4. /\ tmp \in Seq(Mask) /\ Len(tmp) = k * Region
        /\ pr[p].thermal =>
              \A x \in ImageLines(p) : x + 1 \in DOMAIN tmp => tmp[x + 1] = MaskOf(p, x, -1)
    <3>1. CASE k = 0
      <4>1. pr[p].il = 0 /\ k * Region = 0
        BY <2>3, <3>1
      <4>2. tmp = pr[p].tmp
        BY <4>1
      <4>3. Len(pr[p].tmp) = 0
        BY <1>3, <3>1 DEF SavedRows
      <4> HIDE DEF tmp
      <4>4. DOMAIN tmp = {}
        BY <2>1, <4>2, <4>3
      <4> QED
        BY <2>1, <4>1, <4>2, <4>3, <4>4
    <3>2. CASE k > 0
      <4>1. k - 1 \in Nat /\ k - 1 + 1 = k
        BY <3>2
      <4>2. (k - 1) * Region \in Nat /\ k * Region = (k - 1) * Region + Region
        BY <4>1, Rows
      <4>3. tmp = pr[p].tmp \o m1
        <5>1. pr[p].il > 0
          BY <2>3, <4>2
        <5> QED
          BY <5>1
      <4>4. Len(pr[p].tmp) = (k - 1) * Region /\ (k - 1) * Region < Lines(p)
        BY <1>3, <3>2 DEF SavedRows
      <4> HIDE DEF tmp, m1
      <4>5. tmp \in Seq(Mask) /\ Len(tmp) = k * Region
        BY <2>1, <2>2, <4>2, <4>3, <4>4, SaveRow
      <4>6. ASSUME pr[p].thermal
            PROVE  \A x \in ImageLines(p) : x + 1 \in DOMAIN tmp => tmp[x + 1] = MaskOf(p, x, -1)
        <5>1. Saves(p, 0) /\ Buffered(p, k)
          BY <1>3, <4>6 DEF SavedRows
        <5>2. Casts(p, k - 1) = ({k - 2, k - 1} \intersect Nat) \union {k}
          <6>1. k * Region < Lines(p)
            BY <1>1, <2>3
          <6> QED
            BY <1>2, <3>2, <4>4, <6>1, Reach
        <5>3. ASSUME NEW n \in 1 .. Region, (k - 1) * Region + n - 1 \in ImageLines(p)
              PROVE  m1[n] = [line |-> (k - 1) * Region + n - 1, casts |-> Casts(p, k - 1),
                              dark |-> -1]
          <6>1. Cast(p, pr[p].rotCld[1])[n] =
                   [line |-> (k - 1) * Region + n - 1,
                    casts |-> ({k - 2, k - 1} \intersect Nat) \union {k}, dark |-> -1]
            BY <1>1, <1>2, <2>1, <2>3, <3>2, <4>6, <5>1, <5>3, RowMarked
          <6> QED
            BY <5>2, <6>1 DEF m1
        <5> QED
          BY <1>2, <2>1, <2>2, <3>2, <4>3, <4>4, <5>1, <5>3, SavesOneMore
      <4> QED
        BY <4>5, <4>6
    <3>3. k = 0 \/ k > 0
      OBVIOUS
    <3> HIDE DEF tmp, m1
    <3> QED
      BY <3>1, <3>2, <3>3, Zenon
  <2>5. ASSUME pr[p].thermal, NEW n \in 1 .. Region
        PROVE  /\ k * Region + n - 1 \in ImageLines(p) =>
                     m2[n] = [line |-> k * Region + n - 1,
                              casts |-> {k - 1, k} \intersect Nat, dark |-> -1]
               /\ m3[n] = [line |-> -1, casts |-> {k} \intersect Nat, dark |-> -1]
    <3>1. Buffered(p, k)
      BY <1>3, <2>5 DEF SavedRows
    <3> QED
      BY <1>1, <1>2, <2>1, <2>3, <2>5, <3>1, RowMarked
  <2> HIDE DEF tmp, m1, m2, m3, next
  <2>6. rotated \in Block \X Block \X Block
    BY <2>2
  <2>7. rotated[1] = m2 /\ rotated[2] = m3 /\ rotated[3] = BlankBlock
    OBVIOUS
  <2> HIDE DEF rotated
  <2>8. /\ r \in Run /\ r.at = "pass2" /\ Carries(p, r) /\ r.input = pr[p].input
        /\ r.aerosol = pr[p].aerosol /\ r.tmp = tmp /\ r.rotCld = rotated /\ r.il = next
    BY <1>1, <1>2, <2>3, <2>4, <2>6 DEF Run, Carries, Keeps
  <2> HIDE DEF r
  <2>9. pr'[p] = r /\ Within(p)
    BY <1>1, <1>2, <1>6, <2>8, Becoming, Inside
  <2>10. /\ SceneOf(p)' = SceneOf(p) /\ ImageLines(p)' = ImageLines(p) /\ Lines(p)' = Lines(p)
         /\ \A x, dark : MaskOf(p, x, dark)' = MaskOf(p, x, dark)
    BY <1>1, <2>8, <2>9, SameRun DEF Carries, Keeps
  <2>11. Tables(p)'
    BY <1>1, <1>2, <2>8, <2>9, TablesKept DEF AfterSixs, InPasses, dirVars
  <2>12. Aerosols(p)'
    BY <1>1, <1>2, <2>8, <2>9 DEF Proc, Aerosols, InPasses, InFinish
  <2>13. r.thermal = pr[p].thermal
    BY <2>8 DEF Carries, Keeps
  <2>14. pr[p].thermal => Saves(p, 0)'
    <3>1. \A x \in ImageLines(p) : ~(x < 0)
      BY <1>2 DEF ImageLines
    <3> QED
      BY <2>4, <2>8, <2>9, <2>10, <3>1 DEF Saves
  <2>15. PICK j \in Nat : j = k + 1 /\ j - 1 = k /\ j - 2 = k - 1 /\ j # 0
    OBVIOUS
  <2>16. pr[p].thermal => Buffered(p, j)'
    <3> SUFFICES ASSUME pr[p].thermal PROVE Buffered(p, j)'
      OBVIOUS
    <3> SUFFICES ASSUME NEW n \in 1 .. Region
                 PROVE  (/\ (j - 1) * Region + n - 1 \in ImageLines(p) =>
                              pr[p].rotCld[1][n] = [line |-> (j - 1) * Region + n - 1,
                                  casts |-> {j - 2, j - 1} \intersect Nat, dark |-> -1]
                         /\ pr[p].rotCld[2][n] =
                              [line |-> -1, casts |-> {j - 1} \intersect Nat, dark |-> -1]
                         /\ pr[p].rotCld[3][n] = Blank)'
      BY DEF Buffered
    <3>1. pr'[p].rotCld[1] = m2 /\ pr'[p].rotCld[2] = m3 /\ pr'[p].rotCld[3] = BlankBlock
      BY <2>7, <2>8, <2>9
    <3>2. BlankBlock[n] = Blank
      BY Blanks
    <3>3. /\ k * Region + n - 1 \in ImageLines(p) =>
                m2[n] = [line |-> k * Region + n - 1,
                         casts |-> {k - 1, k} \intersect Nat, dark |-> -1]
          /\ m3[n] = [line |-> -1, casts |-> {k} \intersect Nat, dark |-> -1]
      BY <2>5
    <3>4. j - 1 = k /\ j - 2 = k - 1
      BY <2>15
    <3> QED
      BY <2>10, <3>1, <3>2, <3>3, <3>4, Zenon
  <2>17. SavedRows(p, j)'
    <3>1. r.il = j * Region /\ (j - 1) * Region < Lines(p)
      BY <1>1, <2>15, <2>3, <2>8
    <3>2. Len(r.tmp) = IF j = 0 THEN 0 ELSE (j - 1) * Region
      BY <2>15, <2>4, <2>8
    <3> QED
      BY <2>9, <2>10, <2>13, <2>14, <2>16, <3>1, <3>2 DEF SavedRows
  <2>18. Masks(p)'
    <3>1. k \in Nat /\ Len(r.tmp) = k * Region
      BY <2>4, <2>8
    <3> QED
      BY <2>8, <2>9, <2>17, <3>1 DEF Masks
  <2>19. Writes(p)'
    BY <1>1, <1>2, <2>8, <2>9, <2>10 DEF Writes, HasOutput, InFinish, dirVars
  <2> QED
    BY <1>1, <1>2, <1>6, <2>8, <2>9, <2>11, <2>12, <2>18, <2>19, Working
       DEF Carries, Keeps, InFinish, Stopped
<1> QED
  BY <1>4, <1>5, <1>6

LEMMA LastBlockStep ==
  ASSUME IInv, NEW p \in Procs, LastBlock(p)
  PROVE  IInv'
<1>1. pr[p].at = "pass2" /\ pr[p].il >= Lines(p) /\ UNCHANGED <<files, lndcal, runs, dirVars>>
  BY DEF LastBlock
<1>2. /\ Typed /\ Proc(p) /\ Active(p) /\ pr[p] \in Run /\ Lines(p) \in Nat
      /\ DOMAIN out[SceneOf(p)] = ImageLines(p)
  BY <1>1, Passing DEF AfterSixs, InPasses
<1>3. PICK k \in Nat : SavedRows(p, k)
  BY <1>1, <1>2 DEF Proc, Masks
<1>4. /\ pr[p].tmp \in Seq(Mask) /\ pr[p].rotCld[1] \in Block /\ pr[p].il \in Nat
      /\ pr[p].thermal \in BOOLEAN
  BY <1>2, Fields
<1> DEFINE tmp == pr[p].tmp \o pr[p].rotCld[1]
           r == [pr[p] EXCEPT !.at = "pass3", !.il = 0, !.tmp = tmp,
                              !.rotCld = <<BlankBlock, BlankBlock, BlankBlock>>]
<1>5. Becomes(p, r)
  BY DEF LastBlock
<1>6. tmp \in Seq(Mask) /\ Len(tmp) = Len(pr[p].tmp) + Region
  BY <1>4, SaveRow
<1>7. \E n \in Nat : Len(tmp) = n * Region
  <2>1. PICK n \in Nat : Len(pr[p].tmp) = n * Region
    BY <1>2 DEF Proc, Masks
  <2>2. Len(tmp) = (n + 1) * Region
    BY <1>6, <2>1, Rows
  <2> QED
    BY <2>2
<1>8. ASSUME pr[p].thermal
      PROVE  \A x \in ImageLines(p) : x + 1 \in DOMAIN tmp => tmp[x + 1] = MaskOf(p, x, -1)
  <2>1. /\ Saves(p, 0) /\ Buffered(p, k) /\ pr[p].il = k * Region
        /\ (k > 0 => (k - 1) * Region < Lines(p) /\ Len(pr[p].tmp) = (k - 1) * Region)
    BY <1>3, <1>8 DEF SavedRows
  <2>2. CASE k = 0
    <3>1. Lines(p) = 0
      BY <1>1, <1>2, <2>1, <2>2, SurfaceAssumption
    <3> QED
      BY <3>1 DEF ImageLines
  <2>3. CASE k > 0
    <3>1. Casts(p, k - 1) = {k - 2, k - 1} \intersect Nat
      <4>1. ~(k * Region < Lines(p))
        BY <1>1, <1>2, <1>4, <2>1
      <4> QED
        BY <1>2, <2>1, <2>3, <4>1, Reach
    <3>2. \A n \in 1 .. Region : (k - 1) * Region + n - 1 \in ImageLines(p) =>
             pr[p].rotCld[1][n] = [line |-> (k - 1) * Region + n - 1, casts |-> Casts(p, k - 1),
                                   dark |-> -1]
      BY <2>1, <3>1 DEF Buffered
    <3> QED
      BY <1>2, <1>4, <2>1, <2>3, <3>2, SavesOneMore
  <2>4. k = 0 \/ k > 0
    OBVIOUS
  <2> HIDE DEF tmp
  <2> QED
    BY <2>2, <2>3, <2>4, Zenon
<1> HIDE DEF tmp
<1>9. /\ r \in Run /\ r.at = "pass3" /\ Carries(p, r) /\ r.input = pr[p].input
      /\ r.aerosol = pr[p].aerosol /\ r.tmp = tmp /\ r.il = 0
      /\ r.rotCld = <<BlankBlock, BlankBlock, BlankBlock>>
  BY <1>1, <1>2, <1>6, Blanks DEF Run, Carries, Keeps, Places, Tabled, InPasses
<1> HIDE DEF r
<1>10. pr'[p] = r /\ Within(p) /\ r.thermal = pr[p].thermal
  BY <1>1, <1>2, <1>5, <1>9, Becoming, Inside DEF Carries, Keeps
<1>11. /\ SceneOf(p)' = SceneOf(p) /\ ImageLines(p)' = ImageLines(p)
       /\ \A x, dark : MaskOf(p, x, dark)' = MaskOf(p, x, dark)
  BY <1>1, <1>9, <1>10, SameRun DEF Carries, Keeps
<1>12. Tables(p)'
  BY <1>1, <1>2, <1>9, <1>10, TablesKept DEF AfterSixs, InPasses, dirVars
<1>13. Aerosols(p)'
  <2>1. r.aerosol = << >>
    BY <1>1, <1>2, <1>9 DEF Proc, Aerosols, InFinish
  <2>2. 0 * Region = 0
    BY SurfaceAssumption
  <2>3. RetrievedTo(p, 0)'
    BY <1>9, <1>10, <2>1, <2>2 DEF RetrievedTo
  <2> QED
    BY <1>9, <1>10, <2>3 DEF Aerosols, InPasses, InFinish
<1>14. pr[p].thermal => Saves(p, 0)'
  <2>1. \A x \in ImageLines(p) : ~(x < 0)
    BY <1>2 DEF ImageLines
  <2> QED
    BY <1>8, <1>9, <1>10, <1>11, <2>1 DEF Saves
<1>15. Masks(p)'
  <2>1. pr[p].thermal => Saves(p, pr[p].il)'
    BY <1>9, <1>10, <1>14
  <2>2. Lines(p)' <= Len(tmp)
    <3>1. Lines(p)' = Lines(p)
      BY <1>1, <1>9, <1>10, SameRun DEF Carries, Keeps
    <3>2. /\ pr[p].il = k * Region /\ k * Region \in Nat /\ Region \in Nat
          /\ Len(pr[p].tmp) = IF k = 0 THEN 0 ELSE (k - 1) * Region
      BY <1>3, Rows, SurfaceAssumption DEF SavedRows
    <3>3. CASE k = 0
      BY <1>1, <1>2, <1>6, <3>1, <3>2, <3>3
    <3>4. CASE k # 0
      <4>1. PICK j \in Nat : j = k - 1 /\ k = j + 1
        BY <3>4
      <4>2. k * Region = j * Region + Region /\ j * Region \in Nat
        BY <4>1, Rows
      <4> QED
        BY <1>1, <1>2, <1>6, <3>1, <3>2, <3>4, <4>1, <4>2
    <3> QED
      BY <3>3, <3>4
  <2> QED
    BY <1>7, <1>9, <1>10, <2>1, <2>2 DEF Masks
<1>16. Writes(p)'
  BY <1>1, <1>2, <1>9, <1>10, <1>11 DEF Writes, HasOutput, InFinish, dirVars
<1> QED
  BY <1>1, <1>2, <1>5, <1>9, <1>10, <1>12, <1>13, <1>15, <1>16, Working
     DEF Carries, Keeps, InFinish, Stopped

(* The dark targets of a row, written back to where its masks were read.   *)
LEMMA DarkTargets ==
  ASSUME NEW tmp \in Seq(Mask), NEW b \in Nat, (b + 1) * Region <= Len(tmp)
  PROVE  LET ddv == SubSeq(tmp, b * Region + 1, (b + 1) * Region)
             new == [k \in DOMAIN tmp |->
                        IF (k - 1) \div Region = b THEN Ar(b, ddv)[k - b * Region] ELSE tmp[k]]
         IN  /\ new \in Seq(Mask) /\ Len(new) = Len(tmp)
             /\ \A k \in DOMAIN tmp :
                   new[k] = IF (k - 1) \div Region = b THEN [tmp[k] EXCEPT !.dark = b] ELSE tmp[k]
<1> DEFINE n == b * Region
           ddv == SubSeq(tmp, n + 1, (b + 1) * Region)
           new == [k \in DOMAIN tmp |->
                      IF (k - 1) \div Region = b THEN Ar(b, ddv)[k - n] ELSE tmp[k]]
<1>1. /\ n \in Nat /\ (b + 1) * Region = n + Region /\ Region \in Nat \ {0}
  BY Rows, SurfaceAssumption
<1>2. n + Region <= Len(tmp) /\ Len(tmp) \in Nat /\ DOMAIN tmp = 1 .. Len(tmp)
  BY <1>1
<1>3. \A x \in Nat : x \div Region = b => n <= x /\ x < n + Region
  BY RowOf
<1>4. ddv = SubSeq(tmp, n + 1, n + Region)
  BY <1>1
<1> HIDE DEF n, ddv
<1>5. ddv \in Seq(Mask) /\ DOMAIN ddv = 1 .. Region /\ \A i \in 1 .. Region : ddv[i] = tmp[n + i]
  BY <1>1, <1>2, <1>4
<1>6. \A i \in 1 .. Region : Ar(b, ddv)[i] = [tmp[n + i] EXCEPT !.dark = b]
  BY <1>5 DEF Ar
<1>7. ASSUME NEW k \in DOMAIN tmp
      PROVE  /\ new[k] = IF (k - 1) \div Region = b THEN [tmp[k] EXCEPT !.dark = b] ELSE tmp[k]
             /\ new[k] \in Mask
  <2>1. k \in 1 .. Len(tmp) /\ k - 1 \in Nat /\ tmp[k] \in Mask
    BY <1>2
  <2>2. CASE (k - 1) \div Region = b
    <3>1. PICK i \in 1 .. Region : i = k - n /\ n + i = k
      <4>1. n <= k - 1 /\ k - 1 < n + Region
        BY <1>3, <2>1, <2>2
      <4>2. k - n \in 1 .. Region /\ n + (k - n) = k
        BY <1>1, <2>1, <4>1
      <4> QED
        BY <4>2
    <3>2. new[k] = Ar(b, ddv)[i]
      BY <2>2, <3>1
    <3>3. new[k] = [tmp[k] EXCEPT !.dark = b]
      BY <1>6, <3>1, <3>2
    <3>4. [tmp[k] EXCEPT !.dark = b] \in Mask
      <4>1. PICK m \in Mask : m = tmp[k]
        BY <2>1
      <4>2. [m EXCEPT !.dark = b] = [line |-> m.line, casts |-> m.casts, dark |-> b]
        BY Marked
      <4>3. [line |-> m.line, casts |-> m.casts, dark |-> b] \in Mask
        BY Marked DEF Mask
      <4> QED
        BY <4>1, <4>2, <4>3
    <3> QED
      BY <2>2, <3>3, <3>4
  <2>3. CASE (k - 1) \div Region # b
    BY <2>1, <2>3
  <2> QED
    BY <2>2, <2>3
<1>8. new \in Seq(Mask) /\ Len(new) = Len(tmp)
  <2>1. new \in [1 .. Len(tmp) -> Mask]
    BY <1>2, <1>7
  <2> QED
    BY <1>2, <2>1
<1> QED
  BY <1>7, <1>8 DEF ddv, n

LEMMA AerosolBlockStep ==
  ASSUME IInv, NEW p \in Procs, AerosolBlock(p)
  PROVE  IInv'
<1>1. pr[p].at = "pass3" /\ pr[p].il < Lines(p) /\ UNCHANGED <<files, lndcal, runs, dirVars>>
  BY DEF AerosolBlock
<1>2. /\ Typed /\ Proc(p) /\ Active(p) /\ pr[p] \in Run /\ Lines(p) \in Nat
      /\ DOMAIN out[SceneOf(p)] = ImageLines(p) /\ \A x \in Blocks(p) : Retrieved[x] \in Int
  BY <1>1, Passing DEF AfterSixs, InPasses
<1>3. PICK b \in Nat : RetrievedTo(p, b)
  BY <1>1, <1>2 DEF Proc, Aerosols
<1>4. pr[p].il = b * Region /\ pr[p].il \div Region = b
  BY <1>3, Rows DEF RetrievedTo
<1> DEFINE ddv == SubSeq(pr[p].tmp, b * Region + 1, (b + 1) * Region)
           tmp == [k \in DOMAIN pr[p].tmp |->
                     IF (k - 1) \div Region = b THEN Ar(b, ddv)[k - b * Region]
                     ELSE pr[p].tmp[k]]
           next == pr[p].il + Region
           aerosol == Append(pr[p].aerosol, Retrieved[b])
           r == [pr[p] EXCEPT !.il = next, !.aerosol = aerosol, !.tmp = tmp]
<1>5. Exit(p, "failed") \/ ((b + 1) * Region <= Len(pr[p].tmp) /\ Becomes(p, r))
  BY <1>4, Zenon DEF AerosolBlock
<1>6. CASE Exit(p, "failed")
  BY <1>1, <1>2, <1>6, ExitStep
<1>7. CASE (b + 1) * Region <= Len(pr[p].tmp) /\ Becomes(p, r)
  <2>1. /\ pr[p].tmp \in Seq(Mask) /\ pr[p].aerosol \in Seq(Int) /\ pr[p].il \in Nat
        /\ pr[p].thermal \in BOOLEAN
    BY <1>2, Fields
  <2>2. /\ tmp \in Seq(Mask) /\ Len(tmp) = Len(pr[p].tmp)
        /\ \A k \in DOMAIN pr[p].tmp :
              tmp[k] = IF (k - 1) \div Region = b THEN [pr[p].tmp[k] EXCEPT !.dark = b]
                       ELSE pr[p].tmp[k]
    BY <1>7, <2>1, DarkTargets
  <2>3. /\ b * Region \in Nat /\ next = (b + 1) * Region /\ next \in Nat
        /\ next = b * Region + Region
    BY <1>4, <2>1, Rows, SurfaceAssumption
  <2>4. Retrieved[b] \in Int
    <3>1. b \in Blocks(p)
      BY <1>1, <1>2, <1>4, RowsOfImage DEF Blocks
    <3> QED
      BY <1>2, <3>1
  <2>5. /\ aerosol \in Seq(Int) /\ Len(aerosol) = b + 1
        /\ \A k \in 1 .. b + 1 : aerosol[k] = Retrieved[k - 1]
    <3>1. Len(pr[p].aerosol) = b /\ \A k \in 1 .. b : pr[p].aerosol[k] = Retrieved[k - 1]
      BY <1>3 DEF RetrievedTo
    <3>2. aerosol \in Seq(Int) /\ Len(aerosol) = b + 1
      BY <2>1, <2>4, <3>1
    <3>3. ASSUME NEW k \in 1 .. b PROVE aerosol[k] = Retrieved[k - 1]
      BY <2>1, <2>4, <3>1
    <3>4. aerosol[b + 1] = Retrieved[b + 1 - 1]
      BY <2>1, <2>4, <3>1
    <3> HIDE DEF aerosol
    <3>5. \A k \in 1 .. b + 1 : k \in 1 .. b \/ k = b + 1
      OBVIOUS
    <3> QED
      BY <3>2, <3>3, <3>4, <3>5
  <2> HIDE DEF ddv, tmp, next, aerosol
  <2>6. /\ r \in Run /\ r.at = "pass3" /\ Carries(p, r) /\ r.input = pr[p].input
        /\ r.aerosol = aerosol /\ r.tmp = tmp /\ r.il = next
        /\ r.rotCld = pr[p].rotCld
    BY <1>1, <1>2, <2>2, <2>3, <2>5 DEF Run, Carries, Keeps
  <2> HIDE DEF r
  <2>7. pr'[p] = r /\ Within(p) /\ r.thermal = pr[p].thermal
    BY <1>1, <1>2, <1>7, <2>6, Becoming, Inside DEF Carries, Keeps
  <2>8. /\ SceneOf(p)' = SceneOf(p) /\ ImageLines(p)' = ImageLines(p) /\ Lines(p)' = Lines(p)
        /\ \A x, dark : MaskOf(p, x, dark)' = MaskOf(p, x, dark)
    BY <1>1, <2>6, <2>7, SameRun DEF Carries, Keeps
  <2>9. Tables(p)'
    BY <1>1, <1>2, <2>6, <2>7, TablesKept DEF AfterSixs, InPasses, dirVars
  <2>10. Aerosols(p)'
    <3>1. PICK c \in Nat : c = b + 1
      OBVIOUS
    <3>2. RetrievedTo(p, c)'
      BY <2>3, <2>5, <2>6, <2>7, <3>1 DEF RetrievedTo
    <3> QED
      BY <2>6, <2>7, <3>2 DEF Aerosols, InPasses, InFinish
  <2>11. ASSUME pr[p].thermal, NEW x \in ImageLines(p), x + 1 \in DOMAIN tmp
         PROVE  tmp[x + 1] = MaskOf(p, x, IF x < next THEN x \div Region ELSE -1)
    <3>1. /\ x \in Nat /\ x + 1 - 1 = x /\ x + 1 \in DOMAIN pr[p].tmp
          /\ pr[p].tmp[x + 1] \in Mask
      BY <2>1, <2>2, <2>11 DEF ImageLines
    <3>2. pr[p].tmp[x + 1] = MaskOf(p, x, IF x < b * Region THEN x \div Region ELSE -1)
      BY <1>1, <1>2, <1>4, <2>11, <3>1 DEF Proc, Masks, Saves
    <3>3. x < b * Region <=> x \div Region < b
      BY <3>1, Below
    <3>4. x < next <=> x \div Region < b + 1
      BY <2>3, <3>1, Below
    <3>5. x \div Region \in Nat
      BY <3>1, RowOf
    <3>6. tmp[x + 1] = IF x \div Region = b THEN [pr[p].tmp[x + 1] EXCEPT !.dark = b]
                       ELSE pr[p].tmp[x + 1]
      BY <2>2, <3>1
    <3>7. CASE x \div Region = b
      <4>1. ~(x < b * Region) /\ x < next
        BY <3>3, <3>4, <3>7
      <4>2. PICK m \in Mask : m = pr[p].tmp[x + 1]
        BY <3>1
      <4>3. m = MaskOf(p, x, -1)
        BY <3>2, <4>1, <4>2
      <4>4. [m EXCEPT !.dark = b] = [line |-> m.line, casts |-> m.casts, dark |-> b]
        BY Marked
      <4>5. [m EXCEPT !.dark = b] = MaskOf(p, x, b)
        BY <4>3, <4>4 DEF MaskOf
      <4> QED
        BY <3>6, <3>7, <4>1, <4>2, <4>5
    <3>8. CASE x \div Region < b
      BY <3>2, <3>3, <3>4, <3>5, <3>6, <3>8
    <3>9. CASE x \div Region > b
      BY <3>2, <3>3, <3>4, <3>5, <3>6, <3>9
    <3> QED
      BY <3>5, <3>7, <3>8, <3>9
  <2>12. Masks(p)'
    <3>1. pr[p].thermal => Saves(p, pr[p].il)'
      BY <2>6, <2>7, <2>8, <2>11 DEF Saves
    <3>2. \E n \in Nat : Len(tmp) = n * Region
      BY <1>2, <2>2 DEF Proc, Masks
    <3>3. pr[p].rotCld = <<BlankBlock, BlankBlock, BlankBlock>> /\ Lines(p) <= Len(tmp)
      BY <1>1, <1>2, <2>2 DEF Proc, Masks
    <3> QED
      BY <2>6, <2>7, <2>8, <3>1, <3>2, <3>3 DEF Masks
  <2>13. Writes(p)'
    BY <1>1, <1>2, <2>6, <2>7, <2>8 DEF Writes, HasOutput, InFinish, dirVars
  <2> QED
    BY <1>1, <1>2, <1>7, <2>6, <2>7, <2>9, <2>10, <2>12, <2>13, Working
       DEF Carries, Keeps, InFinish, Stopped
<1> QED
  BY <1>5, <1>6, <1>7

LEMMA CoefficientsStep ==
  ASSUME IInv, NEW p \in Procs, Coefficients(p)
  PROVE  IInv'
<1>1. pr[p].at = "pass3" /\ pr[p].il >= Lines(p) /\ UNCHANGED <<files, lndcal, runs, dirVars>>
  BY DEF Coefficients
<1>2. /\ Typed /\ Proc(p) /\ Active(p) /\ pr[p] \in Run /\ Lines(p) \in Nat
      /\ DOMAIN out[SceneOf(p)] = ImageLines(p)
      /\ \A x \in Blocks(p) : Retrieved[x] \in Int /\ GapFilled[x] \in Int
  BY <1>1, Passing DEF AfterSixs, InPasses
<1> DEFINE aerosols == [b \in Blocks(p) |-> NoGap(b, pr[p].aerosol[b + 1])]
           coefs == update_atmos_coefs(aerosols)
           r == [pr[p] EXCEPT !.at = "pass4", !.il = 0, !.coefs = coefs]
<1>3. Becomes(p, r)
  BY DEF Coefficients
<1>4. ASSUME NEW k \in Blocks(p) PROVE pr[p].aerosol[k + 1] = Retrieved[k]
  <2>1. PICK b \in Nat : RetrievedTo(p, b)
    BY <1>1, <1>2 DEF Proc, Aerosols
  <2>2. k \in Nat /\ k * Region < Lines(p)
    BY <1>2, RowsOfImage DEF Blocks
  <2>3. k < b
    <3>1. k * Region \in Nat /\ b * Region \in Nat /\ (k * Region) \div Region = k
      BY <2>2, Rows
    <3>2. k * Region < b * Region
      BY <1>1, <1>2, <2>1, <2>2, <3>1 DEF RetrievedTo
    <3> QED
      BY <2>2, <3>1, <3>2, Below
  <2>4. k + 1 \in 1 .. b /\ k + 1 - 1 = k
    BY <2>2, <2>3
  <2>5. \A j \in 1 .. b : pr[p].aerosol[j] = Retrieved[j - 1]
    BY <2>1 DEF RetrievedTo
  <2>6. PICK j \in 1 .. b : j = k + 1 /\ j - 1 = k
    BY <2>2, <2>4
  <2> QED
    BY <2>5, <2>6
<1>5. /\ coefs \in Coefs
      /\ \A b \in Blocks(p) : Brackets(Aot550(NoGap(b, Retrieved[b])), coefs[b])
  <2>1. Blocks(p) \in SUBSET Int
    BY DEF Blocks
  <2>2. /\ aerosols \in [Blocks(p) -> Int]
        /\ \A b \in Blocks(p) : aerosols[b] = NoGap(b, Retrieved[b])
    <3>1. \A b \in Blocks(p) : NoGap(b, Retrieved[b]) \in Int
      BY <1>2 DEF NoGap
    <3>2. \A b \in Blocks(p) : NoGap(b, pr[p].aerosol[b + 1]) = NoGap(b, Retrieved[b])
      BY <1>4
    <3> QED
      BY <3>1, <3>2
  <2> HIDE DEF aerosols
  <2>3. coefs \in Coefs /\ \A b \in Blocks(p) : Brackets(Aot550(aerosols[b]), coefs[b])
    BY <2>1, <2>2, Chooses
  <2> HIDE DEF coefs
  <2> QED
    BY <2>2, <2>3
<1> HIDE DEF coefs
<1>6. /\ r \in Run /\ r.at = "pass4" /\ Carries(p, r) /\ r.input = pr[p].input
      /\ r.coefs = coefs /\ r.tmp = pr[p].tmp /\ r.il = 0 /\ r.rotCld = pr[p].rotCld
  BY <1>1, <1>2, <1>5 DEF Run, Carries, Keeps, Places, Tabled, InPasses
<1> HIDE DEF r
<1>7. pr'[p] = r /\ Within(p) /\ r.thermal = pr[p].thermal
  BY <1>1, <1>2, <1>3, <1>6, Becoming, Inside DEF Carries, Keeps
<1>8. /\ SceneOf(p)' = SceneOf(p) /\ ImageLines(p)' = ImageLines(p) /\ Lines(p)' = Lines(p)
      /\ Blocks(p)' = Blocks(p)
      /\ \A x, dark : MaskOf(p, x, dark)' = MaskOf(p, x, dark)
  BY <1>1, <1>6, <1>7, SameRun DEF Carries, Keeps
<1>9. Tables(p)'
  BY <1>1, <1>2, <1>6, <1>7, TablesKept DEF AfterSixs, InPasses, dirVars
<1>10. Aerosols(p)'
  BY <1>5, <1>6, <1>7, <1>8 DEF Aerosols, InPasses, InFinish
<1>11. Masks(p)'
  <2>1. pr[p].thermal => Saves(p, Lines(p))'
    <3>1. pr[p].thermal => Saves(p, pr[p].il)
      BY <1>1, <1>2 DEF Proc, Masks
    <3>2. \A x \in ImageLines(p) : x < Lines(p) /\ x < pr[p].il
      <4>1. pr[p].il \in Nat
        BY <1>2, Fields
      <4> QED
        BY <1>1, <1>2, <4>1 DEF ImageLines
    <3> QED
      BY <1>6, <1>7, <1>8, <3>1, <3>2 DEF Saves
  <2>2. /\ \E n \in Nat : Len(pr[p].tmp) = n * Region
        /\ pr[p].rotCld = <<BlankBlock, BlankBlock, BlankBlock>> /\ Lines(p) <= Len(pr[p].tmp)
    BY <1>1, <1>2 DEF Proc, Masks
  <2> QED
    BY <1>6, <1>7, <1>8, <2>1, <2>2 DEF Masks
<1>12. Writes(p)'
  <2>1. 0 <= Lines(p) /\ \A x \in 0 .. 0 - 1 : FALSE
    BY <1>2
  <2> QED
    BY <1>1, <1>2, <1>6, <1>7, <1>8, <2>1 DEF Writes, HasOutput, InFinish, dirVars
<1> QED
  BY <1>1, <1>2, <1>3, <1>6, <1>7, <1>9, <1>10, <1>11, <1>12, Working
     DEF Carries, Keeps, InFinish, Stopped

LEMMA ReflectanceLineStep ==
  ASSUME IInv, NEW p \in Procs, ReflectanceLine(p)
  PROVE  IInv'
<1> DEFINE x == pr[p].il
           s == SceneOf(p)
<1>1. /\ pr[p].at = "pass4" /\ x < Lines(p)
      /\ UNCHANGED <<files, lndcal, runs, sixsCmd, sixsOut, temps, headers, published, unfinished>>
  BY DEF ReflectanceLine
<1>2. /\ Typed /\ Proc(p) /\ Active(p) /\ pr[p] \in Run /\ Lines(p) \in Nat
      /\ s \in Scenes /\ DOMAIN out[s] = ImageLines(p) /\ Lines(p) = Metadata(s).lines
  BY <1>1, Passing DEF AfterSixs, InPasses
<1> DEFINE next == x + 1
           r == [pr[p] EXCEPT !.il = next]
<1>3. \/ Exit(p, "failed") /\ UNCHANGED out
      \/ Exit(p, "crashed") /\ UNCHANGED out
      \/ /\ pr[p].thermal /\ x < Len(pr[p].tmp)
         /\ out' = [out EXCEPT ![s][x] = Qa(pr[p].tmp[x + 1])]
         /\ Becomes(p, r)
  BY Zenon DEF ReflectanceLine
<1>4. CASE (Exit(p, "failed") \/ Exit(p, "crashed")) /\ UNCHANGED out
  BY <1>1, <1>2, <1>4, ExitStep DEF dirVars
<1>5. CASE /\ pr[p].thermal /\ x < Len(pr[p].tmp)
           /\ out' = [out EXCEPT ![s][x] = Qa(pr[p].tmp[x + 1])]
           /\ Becomes(p, r)
  <2>1. x \in Nat /\ pr[p].tmp \in Seq(Mask) /\ x + 1 \in DOMAIN pr[p].tmp /\ x \in ImageLines(p)
    BY <1>1, <1>2, <1>5, Fields DEF ImageLines
  <2>2. Qa(pr[p].tmp[x + 1]) = QaOf(x)
    <3>1. Saves(p, Lines(p))
      BY <1>1, <1>2, <1>5 DEF Proc, Masks
    <3>2. pr[p].tmp[x + 1] = MaskOf(p, x, x \div Region)
      BY <1>1, <2>1, <3>1 DEF Saves
    <3>3. /\ MaskOf(p, x, x \div Region).line = x
          /\ MaskOf(p, x, x \div Region).dark = x \div Region
      BY DEF MaskOf
    <3> QED
      BY <3>2, <3>3 DEF Qa, QaOf
  <2> HIDE DEF x, next
  <2>3. next \in Nat /\ next <= Lines(p) /\ 0 .. next - 1 = (0 .. x - 1) \union {x}
    BY <1>1, <1>2, <2>1 DEF next
  <2>4. /\ r \in Run /\ r.at = "pass4" /\ Carries(p, r) /\ r.input = pr[p].input
        /\ r.coefs = pr[p].coefs /\ r.tmp = pr[p].tmp /\ r.il = next
        /\ r.rotCld = pr[p].rotCld
    BY <1>1, <1>2, <2>3 DEF Run, Carries, Keeps
  <2> HIDE DEF r, s
  <2>5. pr'[p] = r /\ r.thermal = pr[p].thermal
    BY <1>2, <1>5, <2>4, Becoming DEF Carries, Keeps
  <2>6. /\ SceneOf(p)' = SceneOf(p) /\ ImageLines(p)' = ImageLines(p) /\ Lines(p)' = Lines(p)
        /\ Blocks(p)' = Blocks(p)
        /\ \A y, dark : MaskOf(p, y, dark)' = MaskOf(p, y, dark)
    BY <1>1, <2>4, <2>5, SameRun DEF Carries, Keeps
  <2>7. s \in DOMAIN out
    BY <1>2 DEF Typed
  <2>8. /\ DOMAIN out' = Scenes /\ DOMAIN out'[s] = ImageLines(p)
        /\ \A t \in Scenes \ {s} : out'[t] = out[t]
        /\ out'[s][x] = QaOf(x)
        /\ \A y \in ImageLines(p) \ {x} : out'[s][y] = out[s][y]
    BY <1>2, <1>5, <2>1, <2>2, <2>7 DEF Typed
  <2>9. Within(p)
    BY <1>1, <1>2, <2>8 DEF Within, Typed, s
  <2>10. Tables(p)'
    BY <1>1, <1>2, <2>4, <2>5, TablesKept DEF AfterSixs, InPasses
  <2>11. Aerosols(p)'
    BY <1>1, <1>2, <2>4, <2>5, <2>6 DEF Proc, Aerosols, InPasses, InFinish
  <2>12. Masks(p)'
    <3>1. Saves(p, Lines(p)) => Saves(p, Lines(p))'
      BY <2>4, <2>5, <2>6 DEF Saves
    <3> QED
      BY <1>1, <1>2, <2>4, <2>5, <2>6, <3>1 DEF Proc, Masks
  <2>13. Writes(p)'
    <3>1. \A y \in 0 .. x - 1 : out[s][y] = QaOf(y)
      BY <1>1, <1>2 DEF Proc, Writes, s, x
    <3>2. \A y \in 0 .. x - 1 : y \in ImageLines(p) \ {x}
      BY <1>1, <1>2, <2>1 DEF ImageLines
    <3>3. \A y \in 0 .. next - 1 : out'[s][y] = QaOf(y)
      BY <2>3, <2>8, <3>1, <3>2
    <3>4. SceneOf(p) = s
      BY DEF s
    <3> QED
      BY <2>3, <2>4, <2>5, <2>6, <2>8, <3>3, <3>4 DEF Writes, HasOutput, InFinish
  <2> QED
    BY <1>1, <1>2, <1>5, <2>4, <2>5, <2>9, <2>10, <2>11, <2>12, <2>13, Working
       DEF Carries, Keeps, InFinish, Stopped
<1> QED
  BY <1>3, <1>4, <1>5

-----------------------------------------------------------------------------
(* The end of a run.                                                       *)
LEMMA UnlinkTempStep ==
  ASSUME IInv, NEW p \in Procs, UnlinkTemp(p)
  PROVE  IInv'
<1>1. /\ pr[p].at = "pass4" /\ pr[p].il >= Lines(p) /\ temps' = temps \ {pr[p].run}
      /\ UNCHANGED <<files, lndcal, runs, sixsCmd, sixsOut, out, headers, published, unfinished>>
  BY DEF UnlinkTemp
<1>2. /\ Typed /\ Proc(p) /\ Active(p) /\ pr[p] \in Run /\ Lines(p) \in Nat
      /\ SceneOf(p) \in Scenes /\ DOMAIN out[SceneOf(p)] = ImageLines(p)
      /\ Lines(p) = Metadata(SceneOf(p)).lines
  BY <1>1, Passing DEF AfterSixs, InPasses
<1> DEFINE r == [pr[p] EXCEPT !.at = "close", !.tmp = << >>]
<1>3. Becomes(p, r)
  BY DEF UnlinkTemp
<1>4. /\ r \in Run /\ r.at = "close" /\ Carries(p, r) /\ r.input = pr[p].input /\ r.tmp = << >>
      /\ r.rotCld = <<BlankBlock, BlankBlock, BlankBlock>>
  <2>1. pr[p].rotCld = <<BlankBlock, BlankBlock, BlankBlock>>
    BY <1>1, <1>2 DEF Proc, Masks
  <2>2. << >> \in Seq(Mask)
    OBVIOUS
  <2> QED
    BY <1>1, <1>2, <2>1, <2>2 DEF Run, Carries, Keeps, Places, Tabled, InFinish
<1> HIDE DEF r
<1>5. pr'[p] = r
  BY <1>2, <1>3, <1>4, Becoming
<1>6. SceneOf(p)' = SceneOf(p) /\ ImageLines(p)' = ImageLines(p)
  BY <1>1, <1>4, <1>5, SameRun DEF Carries, Keeps
<1>7. Within(p)
  BY <1>1, <1>2 DEF Within, Typed
<1>8. Tables(p)'
  BY <1>1, <1>2, <1>4, <1>5, TablesKept DEF AfterSixs, InPasses, InFinish
<1>9. Aerosols(p)'
  BY <1>4, <1>5 DEF Aerosols, InPasses, InFinish
<1>10. Masks(p)'
  <2>1. Len(r.tmp) = 0 * Region
    BY <1>4, SurfaceAssumption
  <2> QED
    BY <1>4, <1>5, <2>1 DEF Masks
<1>11. \A x \in ImageLines(p) : out[SceneOf(p)][x] # Unwritten
  <2>1. pr[p].il \in Nat /\ pr[p].il <= Lines(p)
        /\ \A x \in 0 .. pr[p].il - 1 : out[SceneOf(p)][x] = QaOf(x)
    BY <1>1, <1>2, Fields DEF Proc, Writes
  <2>2. ImageLines(p) = 0 .. pr[p].il - 1 /\ \A x \in ImageLines(p) : x # -1
    BY <1>1, <1>2, <2>1 DEF ImageLines
  <2>3. ASSUME NEW x, x # -1 PROVE QaOf(x) # Unwritten
    <3>1. QaOf(x).line = x /\ Unwritten.line = -1
      BY DEF QaOf, Unwritten, Absent
    <3> QED
      BY <2>3, <3>1
  <2> QED
    BY <2>1, <2>2, <2>3
<1>12. Writes(p)'
  BY <1>1, <1>2, <1>4, <1>5, <1>6, <1>11 DEF Writes
<1> QED
  BY <1>1, <1>2, <1>3, <1>4, <1>5, <1>7, <1>8, <1>9, <1>10, <1>12, Working
     DEF Carries, Keeps, InFinish, Stopped

LEMMA CloseFilesStep ==
  ASSUME IInv, NEW p \in Procs, CloseFiles(p)
  PROVE  IInv'
<1>1. pr[p].at = "close" /\ UNCHANGED <<files, lndcal, runs, dirVars>>
  BY DEF CloseFiles
<1>2. /\ Typed /\ Proc(p) /\ Active(p) /\ pr[p] \in Run
      /\ DOMAIN out[SceneOf(p)] = ImageLines(p)
  BY <1>1, Passing DEF AfterSixs, InFinish
<1> DEFINE this == LndsrCloseInput(pr[p].input).this
           r == [pr[p] EXCEPT !.at = "headers", !.input = this]
<1>3. Exit(p, "failed") \/ Becomes(p, r)
  BY DEF CloseFiles
<1>4. CASE Exit(p, "failed")
  BY <1>1, <1>2, <1>4, ExitStep
<1>5. CASE Becomes(p, r)
  <2>1. this \in Input /\ this.lines = pr[p].input.lines /\ this.dated = pr[p].input.dated
    <3>1. pr[p].input \in Input
      BY <1>2, Fields
    <3> QED
      BY <3>1 DEF LndsrCloseInput, Input
  <2> HIDE DEF this
  <2>2. /\ r \in Run /\ r.at = "headers" /\ Carries(p, r) /\ r.tmp = pr[p].tmp
        /\ r.rotCld = pr[p].rotCld
    BY <1>1, <1>2, <2>1 DEF Run, Carries, Keeps, Places, Tabled, InFinish
  <2> HIDE DEF r
  <2>3. pr'[p] = r /\ Within(p)
    BY <1>1, <1>2, <1>5, <2>2, Becoming, Inside
  <2>4. SceneOf(p)' = SceneOf(p) /\ ImageLines(p)' = ImageLines(p)
    BY <1>1, <2>2, <2>3, SameRun DEF Carries, Keeps
  <2>5. Tables(p)'
    BY <1>1, <1>2, <2>2, <2>3, TablesKept DEF AfterSixs, InFinish, dirVars
  <2>6. Aerosols(p)'
    BY <2>2, <2>3 DEF Aerosols, InPasses, InFinish
  <2>7. Masks(p)'
    BY <1>1, <1>2, <2>2, <2>3 DEF Proc, Masks
  <2>8. Writes(p)'
    BY <1>1, <1>2, <2>2, <2>3, <2>4 DEF Proc, Writes, HasOutput, Tabled, InFinish, dirVars
  <2>9. pr[p].run \notin temps'
    BY <1>1, <1>2 DEF Proc, Held, InFinish, dirVars
  <2> QED
    BY <1>1, <1>2, <1>5, <2>2, <2>3, <2>5, <2>6, <2>7, <2>8, <2>9, Working
       DEF Carries, Keeps, InFinish, Stopped
<1> QED
  BY <1>3, <1>4, <1>5

LEMMA WriteHeadersStep ==
  ASSUME IInv, NEW p \in Procs, WriteHeaders(p)
  PROVE  IInv'
<1>1. /\ pr[p].at = "headers" /\ headers' = headers \union {SceneOf(p)}
      /\ UNCHANGED <<files, lndcal, runs, sixsCmd, sixsOut, temps, out, published, unfinished>>
  BY DEF WriteHeaders
<1>2. /\ Typed /\ Proc(p) /\ Active(p) /\ pr[p] \in Run /\ SceneOf(p) \in Scenes
      /\ DOMAIN out[SceneOf(p)] = ImageLines(p) /\ Lines(p) = Metadata(SceneOf(p)).lines
  BY <1>1, Passing DEF AfterSixs, InFinish
<1> DEFINE r == [pr[p] EXCEPT !.at = "append"]
<1>3. Becomes(p, r)
  BY DEF WriteHeaders
<1>4. /\ r \in Run /\ r.at = "append" /\ Carries(p, r) /\ r.tmp = pr[p].tmp
      /\ r.rotCld = pr[p].rotCld /\ r.input = pr[p].input
  BY <1>1, <1>2 DEF Run, Carries, Keeps, Places, Tabled, InFinish
<1> HIDE DEF r
<1>5. pr'[p] = r
  BY <1>2, <1>3, <1>4, Becoming
<1>6. SceneOf(p)' = SceneOf(p) /\ ImageLines(p)' = ImageLines(p)
  BY <1>1, <1>4, <1>5, SameRun DEF Carries, Keeps
<1>7. Within(p)
  BY <1>1, <1>2 DEF Within, Typed
<1>8. Tables(p)'
  BY <1>1, <1>2, <1>4, <1>5, TablesKept DEF AfterSixs, InFinish
<1>9. Aerosols(p)'
  BY <1>4, <1>5 DEF Aerosols, InPasses, InFinish
<1>10. Masks(p)'
  BY <1>1, <1>2, <1>4, <1>5 DEF Proc, Masks
<1>11. Writes(p)'
  BY <1>1, <1>2, <1>4, <1>5, <1>6 DEF Proc, Writes, HasOutput, Tabled, InFinish
<1>12. pr[p].run \notin temps'
  BY <1>1, <1>2 DEF Proc, Held, InFinish
<1> QED
  BY <1>1, <1>2, <1>3, <1>4, <1>7, <1>8, <1>9, <1>10, <1>11, <1>12, Working
     DEF Carries, Keeps, InFinish, Stopped

LEMMA AppendMetadataStep ==
  ASSUME IInv, NEW p \in Procs, AppendMetadata(p)
  PROVE  IInv'
<1>1. /\ pr[p].at = "append" /\ published' = published \union {SceneOf(p)}
      /\ unfinished' = unfinished \ {SceneOf(p)} /\ Exit(p, "done")
      /\ UNCHANGED <<files, lndcal, runs, sixsCmd, sixsOut, temps, out, headers>>
  BY DEF AppendMetadata
<1>2. PICK s \in Scenes :
         /\ s = SceneOf(p) /\ Typed /\ Proc(p) /\ Active(p)
         /\ DOMAIN out[s] = ImageLines(p) /\ Lines(p) = Metadata(s).lines
  BY <1>1, Passing DEF AfterSixs, InFinish
<1>3. pr[p].run \notin temps
  BY <1>1, <1>2 DEF Proc, Held, InFinish
<1>4. Moves(p)
  <2>1. DOMAIN sixsOut' = SixsNames
    BY <1>1, <1>2 DEF Typed
  <2> QED
    BY <1>1, <1>2, <1>3, <2>1, ExitMoves
<1>5. Finished(s)
  <2>1. \A x \in ImageLines(p) : out[s][x] # Unwritten
    BY <1>1, <1>2 DEF Proc, Writes, InFinish
  <2>2. s \in headers
    BY <1>1, <1>2 DEF Proc, Writes
  <2>3. sixsCmd[SixsName(s)] = NoFile /\ sixsOut[SixsName(s)] = NoFile
    BY <1>1, <1>2 DEF Proc, Tables, Tabled, InFinish, Name
  <2> QED
    BY <1>2, <2>1, <2>2, <2>3 DEF Finished, ImageLines
<1>6. Finished(s)'
  BY <1>1, <1>5 DEF Finished, Metadata, SixsName
<1>7. SceneOf(p)' = s
  BY <1>2, <1>4 DEF Moves, Elsewhere
<1>8. Finished(s)' => Finished(SceneOf(p))'
  BY <1>7, Zenon DEF Finished, Metadata, SixsName
<1> QED
  BY <1>2, <1>4, <1>6, <1>8, Others

-----------------------------------------------------------------------------
LEMMA StepIInv == IInv /\ [Next]_vars => IInv'
<1> SUFFICES ASSUME IInv, [Next]_vars PROVE IInv'
  OBVIOUS
<1>1. ASSUME NEW s \in Scenes, CalibrateOpen(s) \/ CalibrateLine(s) \/ CalibrateClose(s)
      PROVE  IInv'
  BY <1>1, CalibrateSteps
<1>2. ASSUME NEW p \in Procs, NEW s \in Scenes, Start(p, s) PROVE IInv'
  BY <1>2, StartStep
<1>3. ASSUME NEW p \in Procs, Setup(p) PROVE IInv'
  BY <1>3, OpenThermalStep, OpenAncillaryStep, OpenOutputStep, AllocateStep, ReadAncillaryStep
     DEF Setup
<1>4. ASSUME NEW p \in Procs, Sixs(p) PROVE IInv'
  BY <1>4, WriteCommandStep, RunSixsStep, ReadSixsStep, UnlinkSixsStep DEF Sixs
<1>5. ASSUME NEW p \in Procs, Passes(p) PROVE IInv'
  BY <1>5, GridCellsStep, Pass1LineStep, CreateTempStep, MaskBlockStep, LastBlockStep,
     AerosolBlockStep, CoefficientsStep, ReflectanceLineStep DEF Passes
<1>6. ASSUME NEW p \in Procs, Finish(p) PROVE IInv'
  BY <1>6, UnlinkTempStep, CloseFilesStep, WriteHeadersStep, AppendMetadataStep DEF Finish
<1>7. ASSUME NEW p \in Procs, ExitError(p) PROVE IInv'
  BY <1>7, ExitStep DEF ExitError, IInv, Active
<1>8. CASE UNCHANGED vars
  <2>1. UNCHANGED <<files, lndcal, pr, runs, dirVars>>
    BY <1>8 DEF vars, dirVars
  <2>2. Typed
    BY DEF IInv
  <2> QED
    BY <2>1, <2>2, Calibrating DEF Typed
<1> QED
  BY <1>1, <1>2, <1>3, <1>4, <1>5, <1>6, <1>7, <1>8 DEF Next

LEMMA Invariance == Spec => []IInv
BY InitIInv, StepIInv, PTL DEF Spec

-----------------------------------------------------------------------------
(* Every state is well typed, and a process holds no image of a size it    *)
(* does not know: SurfaceReflectance!TypeOK for any number of scenes,      *)
(* processes, bands, optical thicknesses and lines of a region.            *)
THEOREM TypeCorrect == Spec => []TypeOK
<1>1. IInv => TypeOK
  <2> SUFFICES ASSUME IInv PROVE TypeOK
    OBVIOUS
  <2>1. Typed /\ runs \in 0 .. MaxRuns /\ temps \subseteq 1 .. MaxRuns
    BY SurfaceAssumption DEF IInv, Typed
  <2>2. ASSUME NEW s \in Scenes
        PROVE  /\ files[s].listed \subseteq Files /\ DOMAIN files[s].disk = Files
               /\ lndcal[s].at \in {"level1", "open", "toa", "failed", "crashed"}
               /\ DOMAIN out[s] = {} \/ DOMAIN out[s] = 0 .. Metadata(s).lines - 1
    <3>1. files[s] \in SceneFiles /\ lndcal[s] \in Calibration
      BY <2>1 DEF Typed
    <3> QED
      BY <2>1, <3>1 DEF Typed, SceneFiles, Calibration
  <2>3. ASSUME NEW p \in Procs
        PROVE  /\ SceneOf(p) \in Scenes \union {"none"}
               /\ pr[p].band \in 1 .. SixsBands /\ pr[p].aot \in 1 .. Len(Aots)
               /\ pr[p].il \in Nat /\ Len(pr[p].tmp) % Region = 0
               /\ \A b \in DOMAIN pr[p].coefs : pr[p].coefs[b] \in 0 .. Len(Aots) - 2
    <3>1. pr[p] \in Run /\ pr[p].coefs \in Coefs
      BY <2>1, Fields
    <3>2. \E n \in Nat : Len(pr[p].tmp) = n * Region
      BY DEF IInv, Proc, Masks
    <3>3. Len(pr[p].tmp) % Region = 0
      BY <3>2, Rows
    <3>4. \A b \in DOMAIN pr[p].coefs : pr[p].coefs[b] \in 0 .. Len(Aots) - 2
      BY <3>1 DEF Coefs
    <3> QED
      BY <3>1, <3>3, <3>4 DEF Run, SceneOf
  <2> QED
    BY <2>1, <2>2, <2>3 DEF TypeOK, Typed
<1> QED
  BY Invariance, <1>1, PTL

-----------------------------------------------------------------------------
(* Why a program died, or says that it goes on without the thermal band.   *)
(* The files of a scene stay as they are from the end of lndcal on.        *)
Known(s) ==
    /\ lndcal[s].at = "open" =>
          IF Identified(files[s].m)
          THEN Len(lndcal[s].this.names) = Len(Bands) /\ lndcal[s].this.openOther
          ELSE lndcal[s].this.names = << >> /\ lndcal[s].this.lines < 0
    /\ lndcal[s].at = "crashed" => Unopened(LndcalNames(files[s]), files[s].disk)
Lacking(x) == ~Opens(x.disk, Listed(x, ToaBt("6")))
Deadly(x) ==
    \/ ~Identified(x.m)
    \/ \E thermal \in BOOLEAN : Unopened(LndsrNames(x, thermal), x.disk)
Grounds(p) ==
    /\ pr[p].at # "idle" => SceneOf(p) \in Scenes
    /\ SceneOf(p) \in Scenes => lndcal[SceneOf(p)].at = "toa"
    /\ pr[p].at = "thermal" => Readable(files[SceneOf(p)])
    /\ pr[p].at \notin Stopped \union {"thermal"} => (pr[p].thermal \/ pr[p].warned)
    /\ pr[p].warned => SceneOf(p) \in Scenes /\ Lacking(files[SceneOf(p)])
    /\ pr[p].at = "crashed" => pr[p].warned \/ Deadly(files[SceneOf(p)])
Accounted == (\A p \in Procs : Grounds(p)) /\ (\A s \in Scenes : Known(s))

(* What most steps of a run do to that.                                    *)
Onward(p) ==
    /\ \A q \in Procs \ {p} : pr'[q] = pr[q]
    /\ pr'[p].scene = pr[p].scene /\ pr'[p].warned = pr[p].warned
    /\ pr[p].at # "idle" /\ pr'[p].at \notin {"idle", "thermal", "crashed"}
    /\ pr'[p].at \notin Stopped =>
          pr[p].at \notin Stopped \union {"thermal"} /\ pr'[p].thermal = pr[p].thermal

LEMMA SameGrounds ==
  ASSUME NEW q \in Procs, Grounds(q), pr'[q] = pr[q],
         SceneOf(q) \in Scenes => lndcal'[SceneOf(q)] = lndcal[SceneOf(q)]
                                  /\ files'[SceneOf(q)] = files[SceneOf(q)]
  PROVE  Grounds(q)'
<1>1. PICK s : s = SceneOf(q)
  OBVIOUS
<1>2. SceneOf(q)' = s
  BY <1>1 DEF SceneOf
<1>3. CASE s \in Scenes
  <2>1. PICK x : x = files[s] /\ files'[s] = x /\ lndcal'[s] = lndcal[s]
    BY <1>1, <1>3
  <2>2. /\ files[SceneOf(q)] = x /\ files'[SceneOf(q)'] = x
    BY <1>1, <1>2, <2>1
  <2> QED
    BY <1>1, <1>2, <1>3, <2>1, <2>2 DEF Grounds
<1>4. CASE s \notin Scenes
  BY <1>1, <1>2, <1>4 DEF Grounds, Stopped
<1> QED
  BY <1>3, <1>4

LEMMA GoesOn ==
  ASSUME Accounted, NEW p \in Procs, Onward(p), files' = files, lndcal' = lndcal
  PROVE  Accounted'
<1>1. ASSUME NEW s \in Scenes PROVE Known(s)'
  BY DEF Accounted, Known
<1>2. ASSUME NEW q \in Procs, q # p PROVE Grounds(q)'
  BY <1>2, SameGrounds DEF Accounted, Onward
<1>3. Grounds(p)'
  <2>1. PICK s : s = SceneOf(p) /\ SceneOf(p)' = s
    BY DEF Onward, SceneOf
  <2>2. PICK x : x = files[s] /\ files'[s] = x
    OBVIOUS
  <2>3. files[SceneOf(p)] = x /\ files'[SceneOf(p)'] = x
    BY <2>1, <2>2
  <2>4. Grounds(p)
    BY DEF Accounted
  <2> QED
    BY <2>1, <2>3, <2>4 DEF Grounds, Onward, Stopped
<1> QED
  BY <1>1, <1>2, <1>3 DEF Accounted

LEMMA Ends ==
  ASSUME Typed, NEW p \in Procs, Active(p), NEW how \in {"failed", "done"}, Exit(p, how)
  PROVE  Onward(p)
<1>1. pr'[p] = Exited(p, how) /\ \A q \in Procs \ {p} : pr'[q] = pr[q]
  BY DEF Exit, Typed
<1>2. Exited(p, how).at = how /\ Exited(p, how).scene = pr[p].scene
      /\ Exited(p, how).warned = pr[p].warned
  BY DEF Exited, Idle
<1> QED
  BY <1>1, <1>2 DEF Onward, Active, Stopped

LEMMA Continues ==
  ASSUME Typed, NEW p \in Procs, Active(p), pr[p].at # "thermal", NEW r, Becomes(p, r),
         r.scene = pr[p].scene, r.warned = pr[p].warned, r.thermal = pr[p].thermal,
         r.at \in Tabled \union InSixs \union {"output", "allocate", "anc"}
  PROVE  Onward(p)
<1>1. pr'[p] = r /\ \A q \in Procs \ {p} : pr'[q] = pr[q]
  BY DEF Becomes, Typed
<1>2. r.at \notin {"idle", "thermal", "crashed"}
  BY DEF Tabled, InSixs, InPasses, InFinish
<1> QED
  BY <1>1, <1>2 DEF Onward, Active, Stopped

LEMMA SetupGoesOn ==
  ASSUME Typed, NEW p \in Procs,
         OpenAncillary(p) \/ OpenOutput(p) \/ Allocate(p) \/ ReadAncillary(p)
  PROVE  Onward(p) /\ UNCHANGED <<files, lndcal>>
<1>1. pr[p] \in Run
  BY Fields
<1> USE DEF Active, Stopped, InSixs, dirVars
<1>2. CASE OpenAncillary(p)
  <2> DEFINE climatology == Metadata(SceneOf(p)).prwv > 0 /\ Metadata(SceneOf(p)).ozon < 1
             r == [pr[p] EXCEPT !.at = "output", !.climatology = climatology]
  <2>1. Exit(p, "failed") \/ Becomes(p, r)
    BY <1>2 DEF OpenAncillary
  <2> HIDE DEF climatology
  <2>2. r.scene = pr[p].scene /\ r.warned = pr[p].warned /\ r.thermal = pr[p].thermal
        /\ r.at = "output"
    BY <1>1 DEF Run
  <2> HIDE DEF r
  <2> QED
    BY <1>2, <2>1, <2>2, Ends, Continues DEF OpenAncillary
<1>3. CASE OpenOutput(p)
  <2>1. PICK r : r = [pr[p] EXCEPT !.at = "allocate"] /\ Becomes(p, r)
    BY <1>3 DEF OpenOutput
  <2>2. r.scene = pr[p].scene /\ r.warned = pr[p].warned /\ r.thermal = pr[p].thermal
        /\ r.at = "allocate"
    BY <1>1, <2>1 DEF Run
  <2> QED
    BY <1>3, <2>1, <2>2, Continues DEF OpenOutput
<1>4. CASE Allocate(p)
  <2>1. PICK r : /\ r = [pr[p] EXCEPT !.at = "anc", !.rotCld = <<BlankBlock, BlankBlock, BlankBlock>>]
                 /\ Becomes(p, r)
    BY <1>4 DEF Allocate
  <2>2. r.scene = pr[p].scene /\ r.warned = pr[p].warned /\ r.thermal = pr[p].thermal
        /\ r.at = "anc"
    BY <1>1, <2>1 DEF Run
  <2> QED
    BY <1>4, <2>1, <2>2, Continues DEF Allocate
<1>5. CASE ReadAncillary(p)
  <2>1. PICK r : /\ r = [pr[p] EXCEPT !.at = "command"]
                 /\ Exit(p, "failed") \/ Becomes(p, r)
    BY <1>5 DEF ReadAncillary
  <2>2. r.scene = pr[p].scene /\ r.warned = pr[p].warned /\ r.thermal = pr[p].thermal
        /\ r.at = "command"
    BY <1>1, <2>1 DEF Run
  <2> QED
    BY <1>5, <2>1, <2>2, Ends, Continues DEF ReadAncillary
<1> QED
  BY <1>2, <1>3, <1>4, <1>5

LEMMA SixsGoesOn ==
  ASSUME Typed, NEW p \in Procs, Sixs(p)
  PROVE  Onward(p) /\ UNCHANGED <<files, lndcal>>
<1>1. pr[p] \in Run
  BY Fields
<1> USE DEF Active, Stopped, InSixs, Tabled, dirVars
<1>2. CASE WriteCommand(p)
  <2>1. PICK r : r = [pr[p] EXCEPT !.at = "bash"] /\ Becomes(p, r)
    BY <1>2 DEF WriteCommand
  <2>2. r.scene = pr[p].scene /\ r.warned = pr[p].warned /\ r.thermal = pr[p].thermal
        /\ r.at = "bash"
    BY <1>1, <2>1 DEF Run
  <2> QED
    BY <1>2, <2>1, <2>2, Continues DEF WriteCommand
<1>3. CASE RunSixs(p)
  <2>1. PICK r : /\ r = [pr[p] EXCEPT !.at = "read"]
                 /\ Exit(p, "failed") \/ Becomes(p, r)
    BY <1>3 DEF RunSixs
  <2>2. r.scene = pr[p].scene /\ r.warned = pr[p].warned /\ r.thermal = pr[p].thermal
        /\ r.at = "read"
    BY <1>1, <2>1 DEF Run
  <2> QED
    BY <1>3, <2>1, <2>2, Ends, Continues DEF RunSixs
<1>4. CASE ReadSixs(p)
  <2>1. PICK band, aot :
           Exit(p, "failed") \/
           Becomes(p, Advanced([pr[p] EXCEPT !.bandTable = band, !.aotTable = aot]))
    BY <1>4 DEF ReadSixs
  <2>2. PICK r : /\ r = Advanced([pr[p] EXCEPT !.bandTable = band, !.aotTable = aot])
                 /\ Exit(p, "failed") \/ Becomes(p, r)
    BY <2>1
  <2>3. PICK run : /\ run = [pr[p] EXCEPT !.bandTable = band, !.aotTable = aot]
                   /\ r = Advanced(run)
    BY <2>2
  <2>4. /\ run.scene = pr[p].scene /\ run.warned = pr[p].warned /\ run.thermal = pr[p].thermal
        /\ {"at", "scene", "warned", "thermal", "aot", "band"} \subseteq DOMAIN run
    BY <1>1, <2>3 DEF Run
  <2>5. r.scene = run.scene /\ r.warned = run.warned /\ r.thermal = run.thermal
        /\ r.at \in {"command", "unlink"}
    BY <2>3, <2>4 DEF Advanced
  <2> QED
    BY <1>4, <2>2, <2>4, <2>5, Ends, Continues DEF ReadSixs
<1>5. CASE UnlinkSixs(p)
  <2>1. PICK r : r = [pr[p] EXCEPT !.at = "grid"] /\ Becomes(p, r)
    BY <1>5 DEF UnlinkSixs
  <2>2. r.scene = pr[p].scene /\ r.warned = pr[p].warned /\ r.thermal = pr[p].thermal
        /\ r.at = "grid"
    BY <1>1, <2>1 DEF Run
  <2> QED
    BY <1>5, <2>1, <2>2, Continues DEF UnlinkSixs
<1> QED
  BY <1>2, <1>3, <1>4, <1>5 DEF Sixs

LEMMA PassesGoOn ==
  ASSUME Typed, NEW p \in Procs,
         GridCells(p) \/ Pass1Line(p) \/ CreateTemp(p) \/ MaskBlock(p) \/ LastBlock(p)
           \/ AerosolBlock(p) \/ Coefficients(p)
  PROVE  Onward(p) /\ UNCHANGED <<files, lndcal>>
<1>1. pr[p] \in Run
  BY Fields
<1> USE DEF Active, Stopped, Tabled, InPasses, dirVars
<1>2. CASE GridCells(p)
  <2>0. PICK coefs :
           Becomes(p, [pr[p] EXCEPT !.at = "pass1", !.il = 0, !.coefs = coefs])
    BY <1>2 DEF GridCells
  <2>1. PICK r : /\ r = [pr[p] EXCEPT !.at = "pass1", !.il = 0, !.coefs = coefs]
                 /\ Becomes(p, r)
    BY <2>0
  <2>2. r.scene = pr[p].scene /\ r.warned = pr[p].warned /\ r.thermal = pr[p].thermal
        /\ r.at = "pass1"
    BY <1>2, <1>1, <2>1 DEF Run, GridCells
  <2> QED
    BY <1>2, <2>1, <2>2, Continues DEF GridCells
<1>3. CASE Pass1Line(p)
  <2>0. PICK il :
           Exit(p, "failed") \/ Becomes(p, [pr[p] EXCEPT !.il = il])
    BY <1>3 DEF Pass1Line
  <2>1. PICK r : /\ r = [pr[p] EXCEPT !.il = il]
                 /\ Exit(p, "failed") \/ Becomes(p, r)
    BY <2>0
  <2>2. r.scene = pr[p].scene /\ r.warned = pr[p].warned /\ r.thermal = pr[p].thermal
        /\ r.at = "pass1"
    BY <1>3, <1>1, <2>1 DEF Run, Pass1Line
  <2> QED
    BY <1>3, <2>1, <2>2, Ends, Continues DEF Pass1Line
<1>4. CASE CreateTemp(p)
  <2>1. PICK r : /\ r = [pr[p] EXCEPT !.at = "pass2", !.il = 0]
                 /\ Becomes(p, r)
    BY <1>4 DEF CreateTemp
  <2>2. r.scene = pr[p].scene /\ r.warned = pr[p].warned /\ r.thermal = pr[p].thermal
        /\ r.at = "pass2"
    BY <1>4, <1>1, <2>1 DEF Run, CreateTemp
  <2> QED
    BY <1>4, <2>1, <2>2, Continues DEF CreateTemp
<1>5. CASE MaskBlock(p)
  <2>0. PICK cld, il, tmp :
           Exit(p, "failed") \/ Becomes(p, [pr[p] EXCEPT !.rotCld = cld, !.il = il, !.tmp = tmp])
    BY <1>5 DEF MaskBlock
  <2>1. PICK r : /\ r = [pr[p] EXCEPT !.rotCld = cld, !.il = il, !.tmp = tmp]
                 /\ Exit(p, "failed") \/ Becomes(p, r)
    BY <2>0
  <2>2. r.scene = pr[p].scene /\ r.warned = pr[p].warned /\ r.thermal = pr[p].thermal
        /\ r.at = "pass2"
    BY <1>5, <1>1, <2>1 DEF Run, MaskBlock
  <2> QED
    BY <1>5, <2>1, <2>2, Ends, Continues DEF MaskBlock
<1>6. CASE LastBlock(p)
  <2>0. PICK tmp, cld :
           Becomes(p, [pr[p] EXCEPT !.at = "pass3", !.il = 0, !.tmp = tmp, !.rotCld = cld])
    BY <1>6 DEF LastBlock
  <2>1. PICK r : /\ r = [pr[p] EXCEPT !.at = "pass3", !.il = 0, !.tmp = tmp, !.rotCld = cld]
                 /\ Becomes(p, r)
    BY <2>0
  <2>2. r.scene = pr[p].scene /\ r.warned = pr[p].warned /\ r.thermal = pr[p].thermal
        /\ r.at = "pass3"
    BY <1>6, <1>1, <2>1 DEF Run, LastBlock
  <2> QED
    BY <1>6, <2>1, <2>2, Continues DEF LastBlock
<1>7. CASE AerosolBlock(p)
  <2>0. PICK il, aerosol, tmp :
           Exit(p, "failed") \/ Becomes(p, [pr[p] EXCEPT !.il = il, !.aerosol = aerosol, !.tmp = tmp])
    BY <1>7 DEF AerosolBlock
  <2>1. PICK r : /\ r = [pr[p] EXCEPT !.il = il, !.aerosol = aerosol, !.tmp = tmp]
                 /\ Exit(p, "failed") \/ Becomes(p, r)
    BY <2>0
  <2>2. r.scene = pr[p].scene /\ r.warned = pr[p].warned /\ r.thermal = pr[p].thermal
        /\ r.at = "pass3"
    BY <1>7, <1>1, <2>1 DEF Run, AerosolBlock
  <2> QED
    BY <1>7, <2>1, <2>2, Ends, Continues DEF AerosolBlock
<1>8. CASE Coefficients(p)
  <2>0. PICK coefs :
           Becomes(p, [pr[p] EXCEPT !.at = "pass4", !.il = 0, !.coefs = coefs])
    BY <1>8 DEF Coefficients
  <2>1. PICK r : /\ r = [pr[p] EXCEPT !.at = "pass4", !.il = 0, !.coefs = coefs]
                 /\ Becomes(p, r)
    BY <2>0
  <2>2. r.scene = pr[p].scene /\ r.warned = pr[p].warned /\ r.thermal = pr[p].thermal
        /\ r.at = "pass4"
    BY <1>8, <1>1, <2>1 DEF Run, Coefficients
  <2> QED
    BY <1>8, <2>1, <2>2, Continues DEF Coefficients
<1> QED
  BY <1>2, <1>3, <1>4, <1>5, <1>6, <1>7, <1>8

LEMMA FinishGoesOn ==
  ASSUME Typed, NEW p \in Procs, Finish(p)
  PROVE  Onward(p) /\ UNCHANGED <<files, lndcal>>
<1>1. pr[p] \in Run
  BY Fields
<1> USE DEF Active, Stopped, Tabled, InFinish, dirVars
<1>2. CASE UnlinkTemp(p)
  <2>1. PICK r : /\ r = [pr[p] EXCEPT !.at = "close", !.tmp = << >>]
                 /\ Becomes(p, r)
    BY <1>2 DEF UnlinkTemp
  <2>2. r.scene = pr[p].scene /\ r.warned = pr[p].warned /\ r.thermal = pr[p].thermal
        /\ r.at = "close"
    BY <1>2, <1>1, <2>1 DEF Run, UnlinkTemp
  <2> QED
    BY <1>2, <2>1, <2>2, Continues DEF UnlinkTemp
<1>3. CASE CloseFiles(p)
  <2>0. PICK this :
           Exit(p, "failed") \/ Becomes(p, [pr[p] EXCEPT !.at = "headers", !.input = this])
    BY <1>3 DEF CloseFiles
  <2>1. PICK r : /\ r = [pr[p] EXCEPT !.at = "headers", !.input = this]
                 /\ Exit(p, "failed") \/ Becomes(p, r)
    BY <2>0
  <2>2. r.scene = pr[p].scene /\ r.warned = pr[p].warned /\ r.thermal = pr[p].thermal
        /\ r.at = "headers"
    BY <1>3, <1>1, <2>1 DEF Run, CloseFiles
  <2> QED
    BY <1>3, <2>1, <2>2, Ends, Continues DEF CloseFiles
<1>4. CASE WriteHeaders(p)
  <2>1. PICK r : /\ r = [pr[p] EXCEPT !.at = "append"]
                 /\ Becomes(p, r)
    BY <1>4 DEF WriteHeaders
  <2>2. r.scene = pr[p].scene /\ r.warned = pr[p].warned /\ r.thermal = pr[p].thermal
        /\ r.at = "append"
    BY <1>4, <1>1, <2>1 DEF Run, WriteHeaders
  <2> QED
    BY <1>4, <2>1, <2>2, Continues DEF WriteHeaders
<1>5. CASE AppendMetadata(p)
  BY <1>5, Ends DEF AppendMetadata
<1> QED
  BY <1>2, <1>3, <1>4, <1>5 DEF Finish

(* A line of reflectance: the run dies of it only without a thermal band.  *)
LEMMA ReflectanceAccounted ==
  ASSUME Typed, Accounted, NEW p \in Procs, ReflectanceLine(p)
  PROVE  Accounted'
<1>1. /\ pr[p] \in Run /\ pr[p].at = "pass4" /\ Active(p)
      /\ files' = files /\ lndcal' = lndcal
  BY Fields DEF ReflectanceLine, Active, Stopped
<1>2. PICK il, r : /\ r = [pr[p] EXCEPT !.il = il]
                   /\ \/ Exit(p, "failed") \/ Becomes(p, r)
                      \/ ~pr[p].thermal /\ Exit(p, "crashed")
  BY DEF ReflectanceLine
<1>3. /\ r.scene = pr[p].scene /\ r.warned = pr[p].warned /\ r.thermal = pr[p].thermal
      /\ r.at = "pass4"
  BY <1>1, <1>2 DEF Run
<1>4. CASE Exit(p, "failed")
  BY <1>1, <1>4, Ends, GoesOn
<1>5. CASE Becomes(p, r)
  BY <1>1, <1>3, <1>5, Continues, GoesOn DEF Tabled, InPasses
<1>6. CASE ~pr[p].thermal /\ Exit(p, "crashed")
  <2>1. /\ pr'[p] = Exited(p, "crashed") /\ \A q \in Procs \ {p} : pr'[q] = pr[q]
    BY <1>6 DEF Exit, Typed
  <2>2. /\ Exited(p, "crashed").at = "crashed" /\ Exited(p, "crashed").scene = pr[p].scene
        /\ Exited(p, "crashed").warned = pr[p].warned
    BY DEF Exited, Idle
  <2>3. Grounds(p) /\ pr[p].warned
    BY <1>1, <1>6 DEF Accounted, Grounds, Stopped
  <2>4. PICK s \in Scenes : s = SceneOf(p) /\ SceneOf(p)' = s /\ Lacking(files[s])
                            /\ lndcal[s].at = "toa"
    BY <2>1, <2>2, <2>3 DEF Grounds, SceneOf
  <2>5. PICK x : x = files[s] /\ files'[s] = x
    BY <1>1
  <2>6. files'[SceneOf(p)'] = x
    BY <2>4, <2>5
  <2>7. Grounds(p)'
    BY <1>1, <2>1, <2>2, <2>3, <2>4, <2>5, <2>6 DEF Grounds, Stopped
  <2>8. ASSUME NEW q \in Procs, q # p PROVE Grounds(q)'
    BY <1>1, <2>1, <2>8, SameGrounds DEF Accounted
  <2>9. ASSUME NEW t \in Scenes PROVE Known(t)'
    BY <1>1 DEF Accounted, Known
  <2> QED
    BY <2>7, <2>8, <2>9 DEF Accounted
<1> QED
  BY <1>2, <1>4, <1>5, <1>6

(* The opening of the files of lndsr.                                      *)
LEMMA OpeningAccounted ==
  ASSUME Accounted, files' = files, lndcal' = lndcal, NEW p \in Procs, NEW s \in Scenes,
         \A q \in Procs \ {p} : pr'[q] = pr[q],
         pr'[p].scene = s, lndcal[s].at = "toa",
         pr'[p].at = "thermal" => Readable(files[s]),
         pr'[p].at \notin Stopped \union {"thermal"} => pr'[p].thermal \/ pr'[p].warned,
         pr'[p].warned => Lacking(files[s]),
         pr'[p].at = "crashed" => Deadly(files[s])
  PROVE  Accounted'
<1>1. SceneOf(p)' = s
  BY DEF SceneOf
<1>2. PICK x : x = files[s] /\ files'[s] = x /\ files'[SceneOf(p)'] = x
  BY <1>1
<1>3. Grounds(p)'
  BY <1>1, <1>2 DEF Grounds
<1>4. ASSUME NEW q \in Procs, q # p PROVE Grounds(q)'
  BY <1>4, SameGrounds DEF Accounted
<1>5. ASSUME NEW t \in Scenes PROVE Known(t)'
  BY DEF Accounted, Known
<1> QED
  BY <1>3, <1>4, <1>5 DEF Accounted

LEMMA StartAccounted ==
  ASSUME Typed, Accounted, NEW p \in Procs, NEW s \in Scenes, Start(p, s)
  PROVE  Accounted'
<1>1. files' = files /\ lndcal' = lndcal /\ lndcal[s].at = "toa" /\ files[s] \in SceneFiles
  BY DEF Start, Typed
<1>2. PICK o \in LndsrOpenInput(files[s], FALSE), right \in SixsPathRight(Metadata(s)) :
         Becomes(p, [Idle EXCEPT
              !.at = CASE o.ret = "input" -> "thermal" [] o.ret = "NULL" -> "failed"
                       [] OTHER -> "crashed",
              !.scene = s, !.run = runs + 1, !.input = o.this, !.left = o.left, !.sixs = right])
  BY DEF Start
<1> DEFINE place == CASE o.ret = "input" -> "thermal" [] o.ret = "NULL" -> "failed"
                      [] OTHER -> "crashed"
<1>3. PICK r : /\ r = [Idle EXCEPT !.at = place, !.scene = s, !.run = runs + 1, !.input = o.this,
                                   !.left = o.left, !.sixs = right]
               /\ Becomes(p, r)
  BY <1>2
<1>4. /\ o.ret \in {"input", "NULL", "crash"}
      /\ o.ret = "input" => Readable(files[s])
      /\ o.ret = "crash" => Deadly(files[s])
  <2>1. FALSE \in BOOLEAN
    OBVIOUS
  <2> QED
    BY <1>1, <2>1, LndsrOpens DEF Outcome, Deadly
<1>5. /\ place = "thermal" => o.ret = "input"
      /\ place = "crashed" => o.ret = "crash"
      /\ place \in {"thermal", "failed", "crashed"}
  BY <1>4
<1> HIDE DEF place
<1>6. r.at = place /\ r.scene = s /\ r.warned = FALSE
  BY <1>3 DEF Idle
<1>7. pr'[p] = r /\ \A q \in Procs \ {p} : pr'[q] = pr[q]
  BY <1>3 DEF Becomes, Typed
<1> QED
  BY <1>1, <1>4, <1>5, <1>6, <1>7, OpeningAccounted DEF Stopped

LEMMA ThermalAccounted ==
  ASSUME Typed, Accounted, NEW p \in Procs, OpenThermal(p)
  PROVE  Accounted'
<1>1. files' = files /\ lndcal' = lndcal /\ pr[p].at = "thermal" /\ pr[p] \in Run
  BY Fields DEF OpenThermal
<1>2. PICK s \in Scenes : /\ s = SceneOf(p) /\ lndcal[s].at = "toa" /\ Readable(files[s])
                          /\ pr[p].warned => Lacking(files[s])
  BY <1>1 DEF Accounted, Grounds
<1>3. PICK o \in LndsrOpenInput(files[s], TRUE) :
          IF o.ret = "crash" THEN Exit(p, "crashed")
          ELSE Becomes(p, [pr[p] EXCEPT !.at = "ancillary", !.b6 = o.this,
                                        !.left = o.left, !.thermal = (o.ret = "input"),
                                        !.warned = (o.ret = "NULL")])
  BY <1>2 DEF OpenThermal
<1>4. /\ o.ret \in {"input", "NULL", "crash"}
      /\ o.ret = "NULL" => Lacking(files[s])
      /\ o.ret = "crash" => Deadly(files[s])
  <2>1. TRUE \in BOOLEAN /\ files[s] \in SceneFiles
    BY DEF Typed
  <2>2. /\ o \in Outcome
        /\ o.ret = "NULL" /\ Readable(files[s]) =>
              \E i \in DOMAIN LndsrNames(files[s], TRUE).names :
                 ~Opens(files[s].disk, LndsrNames(files[s], TRUE).names[i])
        /\ o.ret = "crash" =>
              ~Identified(files[s].m) \/ Unopened(LndsrNames(files[s], TRUE), files[s].disk)
    BY <2>1, LndsrOpens
  <2>3. LndsrNames(files[s], TRUE).names = <<Listed(files[s], ToaBt("6"))>>
    BY DEF LndsrNames, Unread
  <2>4. o.ret = "NULL" => Lacking(files[s])
    <3> SUFFICES ASSUME o.ret = "NULL" PROVE Lacking(files[s])
      OBVIOUS
    <3> DEFINE name == Listed(files[s], ToaBt("6"))
    <3>1. PICK i \in DOMAIN <<name>> : ~Opens(files[s].disk, <<name>>[i])
      BY <1>2, <2>2, <2>3
    <3> HIDE DEF name
    <3>2. <<name>>[i] = name
      BY <3>1
    <3> QED
      BY <3>1, <3>2 DEF Lacking, name
  <2> QED
    BY <2>1, <2>2, <2>4 DEF Outcome, Deadly
<1>5. CASE o.ret = "crash"
  <2>1. pr'[p] = Exited(p, "crashed") /\ \A q \in Procs \ {p} : pr'[q] = pr[q]
    BY <1>3, <1>5 DEF Exit, Typed
  <2>2. /\ Exited(p, "crashed").at = "crashed" /\ Exited(p, "crashed").scene = s
        /\ Exited(p, "crashed").warned = pr[p].warned
    BY <1>2 DEF Exited, Idle, SceneOf
  <2> QED
    BY <1>1, <1>2, <1>4, <1>5, <2>1, <2>2, OpeningAccounted DEF Stopped
<1>6. CASE o.ret # "crash"
  <2> DEFINE opened == o.ret = "input"
             warned == o.ret = "NULL"
  <2>1. PICK r : /\ r = [pr[p] EXCEPT !.at = "ancillary", !.b6 = o.this, !.left = o.left,
                                      !.thermal = opened, !.warned = warned]
                 /\ Becomes(p, r)
    BY <1>3, <1>6
  <2>2. (opened \/ warned) /\ (warned => Lacking(files[s]))
    BY <1>4, <1>6
  <2> HIDE DEF opened, warned
  <2>3. r.at = "ancillary" /\ r.scene = s /\ r.thermal = opened /\ r.warned = warned
    BY <1>1, <1>2, <2>1 DEF Run, SceneOf
  <2>4. pr'[p] = r /\ \A q \in Procs \ {p} : pr'[q] = pr[q]
    BY <2>1 DEF Becomes, Typed
  <2> QED
    BY <1>1, <1>2, <2>2, <2>3, <2>4, OpeningAccounted DEF Stopped
<1> QED
  BY <1>5, <1>6

(* lndcal on a scene that is not processed yet.                            *)
LEMMA CalibrationAccounted ==
  ASSUME Typed, Accounted, NEW s \in Scenes, pr' = pr, lndcal[s].at # "toa",
         \A t \in Scenes \ {s} : lndcal'[t] = lndcal[t] /\ files'[t] = files[t], Known(s)'
  PROVE  Accounted'
<1>1. ASSUME NEW t \in Scenes, t # s PROVE Known(t)'
  <2>1. files'[t] = files[t] /\ lndcal'[t] = lndcal[t] /\ Known(t)
    BY <1>1 DEF Accounted
  <2> QED
    BY <2>1 DEF Known
<1>2. ASSUME NEW q \in Procs PROVE Grounds(q)'
  <2>1. Grounds(q)
    BY DEF Accounted
  <2>2. SceneOf(q) \in Scenes => SceneOf(q) # s
    BY <2>1 DEF Grounds
  <2> QED
    BY <2>1, <2>2, SameGrounds
<1> QED
  BY <1>1, <1>2 DEF Accounted

LEMMA CalibratesAccounted ==
  ASSUME Typed, Accounted, NEW s \in Scenes,
         CalibrateOpen(s) \/ CalibrateLine(s) \/ CalibrateClose(s)
  PROVE  Accounted'
<1>1. /\ lndcal \in [Scenes -> Calibration] /\ files \in [Scenes -> SceneFiles]
      /\ lndcal[s] \in Calibration /\ files[s] \in SceneFiles /\ Known(s)
  BY DEF Typed, Accounted
<1>2. CASE CalibrateOpen(s)
  <2>1. PICK r \in LndcalOpenInput(files[s]) : lndcal' = [lndcal EXCEPT ![s] =
              [at |-> CASE r.ret = "input" -> "open" [] r.ret = "NULL" -> "failed"
                        [] OTHER -> "crashed",
               this |-> r.this, il |-> 0, left |-> r.left]]
    BY <1>2 DEF CalibrateOpen
  <2> DEFINE place == CASE r.ret = "input" -> "open" [] r.ret = "NULL" -> "failed"
                        [] OTHER -> "crashed"
  <2>2. /\ r \in Outcome
        /\ r.ret = "input" =>
              IF Identified(files[s].m) THEN Len(r.this.names) = Len(Bands) /\ r.this.openOther
              ELSE r.this.names = << >> /\ r.this.lines < 0
        /\ r.ret = "crash" => Unopened(LndcalNames(files[s]), files[s].disk)
    BY <1>1, LndcalOpens
  <2>3. (place = "open" => r.ret = "input") /\ (place = "crashed" => r.ret = "crash")
    BY <2>2 DEF Outcome
  <2> HIDE DEF place
  <2>4. /\ lndcal'[s].at = place /\ lndcal'[s].this = r.this
        /\ \A t \in Scenes \ {s} : lndcal'[t] = lndcal[t]
    BY <1>1, <2>1 DEF place
  <2>5. files' = files /\ pr' = pr /\ lndcal[s].at # "toa"
    BY <1>2 DEF CalibrateOpen
  <2>6. Known(s)'
    BY <2>2, <2>3, <2>4, <2>5 DEF Known
  <2> QED
    BY <2>4, <2>5, <2>6, CalibrationAccounted
<1>3. CASE CalibrateLine(s)
  <2>1. /\ files' = files /\ pr' = pr /\ lndcal[s].at = "open"
        /\ \/ lndcal' = [lndcal EXCEPT ![s].il = lndcal[s].il + 1]
           \/ lndcal' = [lndcal EXCEPT ![s].at = "failed", ![s].this = Unread]
    BY <1>3 DEF CalibrateLine
  <2>2. /\ \A t \in Scenes \ {s} : lndcal'[t] = lndcal[t]
        /\ \/ lndcal'[s].at = "open" /\ lndcal'[s].this = lndcal[s].this
           \/ lndcal'[s].at = "failed"
    <3>1. CASE lndcal' = [lndcal EXCEPT ![s].il = lndcal[s].il + 1]
      BY <1>1, <2>1, <3>1 DEF Calibration
    <3>2. CASE lndcal' = [lndcal EXCEPT ![s].at = "failed", ![s].this = Unread]
      BY <1>1, <3>2 DEF Calibration
    <3> QED
      BY <2>1, <3>1, <3>2
  <2>3. Known(s)'
    BY <1>1, <2>1, <2>2 DEF Known
  <2> QED
    BY <2>1, <2>2, <2>3, CalibrationAccounted
<1>4. CASE CalibrateClose(s)
  <2>1. PICK this : /\ pr' = pr /\ lndcal[s].at = "open"
           /\ \/ lndcal' = [lndcal EXCEPT ![s].at = "toa", ![s].this = this]
              \/ lndcal' = [lndcal EXCEPT ![s].at = "failed", ![s].this = this]
    BY <1>4 DEF CalibrateClose
  <2>2. /\ \A t \in Scenes \ {s} : lndcal'[t] = lndcal[t]
        /\ lndcal'[s].at \in {"toa", "failed"}
    BY <1>1, <2>1 DEF Calibration
  <2>3. \A t \in Scenes \ {s} : files'[t] = files[t]
    <3>1. PICK listed, disk :
             files' = files \/ files' = [files EXCEPT ![s].listed = listed, ![s].disk = disk]
      BY <1>4 DEF CalibrateClose
    <3> QED
      BY <1>1, <3>1
  <2>4. Known(s)'
    BY <2>2 DEF Known
  <2> QED
    BY <2>1, <2>2, <2>3, <2>4, CalibrationAccounted
<1> QED
  BY <1>2, <1>3, <1>4

LEMMA StepAccounted == Typed /\ Accounted /\ [Next]_vars => Accounted'
<1> SUFFICES ASSUME Typed, Accounted, [Next]_vars PROVE Accounted'
  OBVIOUS
<1>1. ASSUME NEW s \in Scenes, CalibrateOpen(s) \/ CalibrateLine(s) \/ CalibrateClose(s)
      PROVE  Accounted'
  BY <1>1, CalibratesAccounted
<1>2. ASSUME NEW p \in Procs, NEW s \in Scenes, Start(p, s) PROVE Accounted'
  BY <1>2, StartAccounted
<1>3. ASSUME NEW p \in Procs, Setup(p) PROVE Accounted'
  BY <1>3, ThermalAccounted, SetupGoesOn, GoesOn DEF Setup
<1>4. ASSUME NEW p \in Procs, Sixs(p) PROVE Accounted'
  BY <1>4, SixsGoesOn, GoesOn
<1>5. ASSUME NEW p \in Procs, Passes(p) PROVE Accounted'
  BY <1>5, PassesGoOn, ReflectanceAccounted, GoesOn DEF Passes
<1>6. ASSUME NEW p \in Procs, Finish(p) PROVE Accounted'
  BY <1>6, FinishGoesOn, GoesOn
<1>7. ASSUME NEW p \in Procs, ExitError(p) PROVE Accounted'
  <2>1. Active(p) /\ Exit(p, "failed") /\ files' = files /\ lndcal' = lndcal
    BY <1>7 DEF ExitError, Active
  <2> QED
    BY <2>1, Ends, GoesOn
<1>8. CASE UNCHANGED vars
  <2>1. files' = files /\ lndcal' = lndcal /\ pr' = pr
    BY <1>8 DEF vars
  <2>2. ASSUME NEW q \in Procs PROVE Grounds(q)'
    BY <2>1, SameGrounds DEF Accounted
  <2>3. ASSUME NEW s \in Scenes PROVE Known(s)'
    BY <2>1 DEF Accounted, Known
  <2> QED
    BY <2>2, <2>3 DEF Accounted
<1> QED
  BY <1>1, <1>2, <1>3, <1>4, <1>5, <1>6, <1>7, <1>8 DEF Next

LEMMA InitAccounted == Init => Accounted
<1> SUFFICES ASSUME Init PROVE Accounted
  OBVIOUS
<1>1. ASSUME NEW p \in Procs PROVE Grounds(p)
  <2>1. pr[p].at = "idle" /\ SceneOf(p) = "none" /\ pr[p].warned = FALSE /\ "none" \notin Scenes
    BY SurfaceAssumption DEF Init, Idle, SceneOf
  <2> QED
    BY <2>1 DEF Grounds, Stopped
<1>2. ASSUME NEW s \in Scenes PROVE Known(s)
  BY DEF Init, Known
<1> QED
  BY <1>1, <1>2 DEF Accounted

LEMMA Accounts == Spec => []Accounted
<1>1. IInv => Typed
  BY DEF IInv
<1> QED
  BY <1>1, Invariance, InitAccounted, StepAccounted, PTL DEF Spec

(* SurfaceReflectance!InputsAccounted: when OpenInput of lndcal or of      *)
(* lndsr returns NULL nothing stays open; what it returns has all its      *)
(* bands and the other file open, but for the one of lndcal without bands, *)
(* which it returns for metadata it cannot identify; and a program that    *)
(* died there or reading the thermal band did so for want of a name, of    *)
(* the other file, of identification or of the thermal band.               *)
THEOREM OpenFilesKnown == Spec => []InputsAccounted
<1>1. IInv /\ Accounted => InputsAccounted
  <2> SUFFICES ASSUME IInv, Accounted PROVE InputsAccounted
    OBVIOUS
  <2>1. Typed
    BY DEF IInv
  <2>2. ASSUME NEW s \in Scenes
        PROVE  /\ lndcal[s].left = {} /\ Known(s)
               /\ lndcal[s].at = "open" => lndcal[s].this.open = DOMAIN lndcal[s].this.names
    <3>1. lndcal[s] \in Calibration
      BY <2>1 DEF Typed
    <3> QED
      BY <2>1, <3>1 DEF Typed, Calibration, Usable, Accounted
  <2>3. ASSUME NEW p \in Procs
        PROVE  /\ pr[p].at \notin Stopped \union {"headers", "append"} =>
                     /\ pr[p].input.names # << >> /\ pr[p].input.open = DOMAIN pr[p].input.names
                     /\ pr[p].input.openOther
               /\ pr[p].thermal <=> pr[p].b6.open # {}
               /\ pr[p].left = {} /\ Grounds(p)
    <3>1. pr[p] \in Run /\ Held(p) /\ Grounds(p)
      BY <2>1, Fields DEF IInv, Proc, Accounted
    <3>2. pr[p].left = {}
      BY <3>1 DEF Run
    <3> QED
      BY <3>1, <3>2 DEF Held, Usable
  <2>4. ASSUME NEW s \in Scenes
        PROVE  /\ lndcal[s].at = "open" =>
                    IF Identified(files[s].m)
                    THEN /\ Len(lndcal[s].this.names) = Len(Bands) /\ lndcal[s].this.openOther
                         /\ lndcal[s].this.open = DOMAIN lndcal[s].this.names
                    ELSE lndcal[s].this.names = << >> /\ lndcal[s].this.lines < 0
               /\ lndcal[s].at = "crashed" => Unopened(LndcalNames(files[s]), files[s].disk)
    BY <2>2 DEF Known
  <2>5. ASSUME NEW p \in Procs, pr[p].at = "crashed"
        PROVE  IF pr[p].warned
               THEN ~Opens(files[SceneOf(p)].disk, Listed(files[SceneOf(p)], ToaBt("6")))
               ELSE \/ ~Identified(files[SceneOf(p)].m)
                    \/ \E thermal \in BOOLEAN :
                          Unopened(LndsrNames(files[SceneOf(p)], thermal), files[SceneOf(p)].disk)
    BY <2>3, <2>5 DEF Grounds, Lacking, Deadly
  <2> QED
    BY <2>2, <2>3, <2>4, <2>5 DEF InputsAccounted
<1> QED
  BY Invariance, Accounts, <1>1, PTL

(* SurfaceReflectance!OwnTables: however many runs of lndsr share the      *)
(* directory and whatever failed ones have left in it, the tables of a run *)
(* hold what 6S gave for its own scene, band and optical thickness, and    *)
(* every cell interpolates between the entries around its thickness.       *)
THEOREM TablesOwned == Spec => []OwnTables
<1>1. IInv => OwnTables
  <2> SUFFICES ASSUME IInv, NEW p \in Procs
               PROVE  /\ \A i \in 1 .. SixsBands, j \in 1 .. Len(Aots) :
                            /\ pr[p].aotTable[i][j] \in {NoFile, Command(p, i, j)}
                            /\ pr[p].bandTable[i] \in {NoFile, Command(p, i, 1)}
                            /\ pr[p].coefs # << >> =>
                                  NoFile \notin {pr[p].bandTable[i], pr[p].aotTable[i][j]}
                      /\ pr[p].at = "pass4" => \A b \in Blocks(p) :
                            Brackets(Aot550(NoGap(b, Retrieved[b])), pr[p].coefs[b])
    BY DEF OwnTables
  <2>1. Tables(p) /\ Aerosols(p) /\ pr[p].at \in Places
    BY Fields DEF IInv, Proc
  <2>2. ASSUME NEW i \in 1 .. SixsBands, NEW j \in 1 .. Len(Aots)
        PROVE  /\ pr[p].aotTable[i][j] \in {NoFile, Command(p, i, j)}
               /\ pr[p].bandTable[i] \in {NoFile, Command(p, i, 1)}
               /\ pr[p].coefs # << >> =>
                     NoFile \notin {pr[p].bandTable[i], pr[p].aotTable[i][j]}
    <3>1. CASE pr[p].at \in Stopped \union InSetup
      <4>1. pr[p].bandTable[i] = NoFile /\ pr[p].aotTable[i][j] = NoFile
        <5>1. Idle.bandTable[i] = NoFile /\ Idle.aotTable[i][j] = NoFile
          BY DEF Idle
        <5> QED
          BY <2>1, <3>1, <5>1 DEF Tables
      <4>2. pr[p].coefs = << >>
        BY <2>1, <3>1 DEF Aerosols, Stopped, InSetup, InPasses, InFinish
      <4> QED
        BY <4>1, <4>2
    <3>2. CASE pr[p].at \in InSixs
      <4>1. Filled(p) /\ pr[p].coefs = << >>
        BY <2>1, <3>2 DEF Tables, Aerosols, InSixs, InPasses, InFinish
      <4> QED
        BY <4>1 DEF Filled
    <3>3. CASE pr[p].at \in Tabled
      <4>1. pr[p].bandTable[i] = Command(p, i, 1) /\ pr[p].aotTable[i][j] = Command(p, i, j)
        BY <2>1, <3>3 DEF Tables, AllFilled
      <4>2. Active(p)
        BY <3>3 DEF Active, Stopped, Tabled, InPasses, InFinish
      <4>3. 1 \in 1 .. Len(Aots)
        BY Thicknesses
      <4>4. Command(p, i, 1) # NoFile /\ Command(p, i, j) # NoFile
        BY <4>2, <4>3, Commands
      <4> QED
        BY <4>1, <4>4
    <3> QED
      BY <2>1, <3>1, <3>2, <3>3 DEF Places
  <2> QED
    BY <2>1, <2>2 DEF Aerosols
<1> QED
  BY Invariance, <1>1, PTL

(* SurfaceReflectance!MasksInPlace: through the rotating buffers and the   *)
(* temporary file each line keeps its own mask, with the clouds and        *)
(* shadows of its own row of regions and of the two beside it; each        *)
(* written line has the dark targets found for it and nothing that was     *)
(* cast into its mask: for any number of lines and of lines of a region.   *)
THEOREM MasksPlaced == Spec => []MasksInPlace
<1>1. IInv => MasksInPlace
  <2> SUFFICES ASSUME IInv, NEW p \in Procs
               PROVE  /\ pr[p].at \in {"pass3", "pass4"} =>
                            /\ Lines(p) <= Len(pr[p].tmp)
                            /\ pr[p].thermal => \A il \in 0 .. Lines(p) - 1 :
                                  /\ pr[p].tmp[il + 1].line = il
                                  /\ pr[p].tmp[il + 1].casts =
                                        {il \div Region - 1, il \div Region, il \div Region + 1}
                                            \intersect Blocks(p)
                      /\ pr[p].at = "pass4" => \A il \in 0 .. pr[p].il - 1 :
                            out[SceneOf(p)][il] = [line |-> il, dark |-> il \div Region]
    BY DEF MasksInPlace
  <2>1. Typed /\ Masks(p) /\ Writes(p) /\ pr[p].tmp \in Seq(Mask)
    BY Fields DEF IInv, Proc
  <2>2. ASSUME pr[p].at \in {"pass3", "pass4"}, pr[p].thermal, NEW il \in 0 .. Lines(p) - 1
        PROVE  /\ pr[p].tmp[il + 1].line = il
               /\ pr[p].tmp[il + 1].casts =
                     {il \div Region - 1, il \div Region, il \div Region + 1} \intersect Blocks(p)
    <3>1. PICK end : Saves(p, end)
      BY <2>1, <2>2 DEF Masks
    <3>2. Lines(p) \in Nat /\ Lines(p) <= Len(pr[p].tmp)
      BY <2>1, <2>2, Passing DEF Masks, AfterSixs, InPasses
    <3>3. il \in ImageLines(p) /\ il + 1 \in DOMAIN pr[p].tmp
      BY <2>1, <3>2 DEF ImageLines
    <3>4. PICK dark : pr[p].tmp[il + 1] = MaskOf(p, il, dark)
      BY <3>1, <3>3 DEF Saves
    <3> QED
      BY <3>4 DEF MaskOf, Casts
  <2>3. pr[p].at \in {"pass3", "pass4"} => Lines(p) <= Len(pr[p].tmp)
    BY <2>1 DEF Masks
  <2>4. pr[p].at = "pass4" => \A il \in 0 .. pr[p].il - 1 :
           out[SceneOf(p)][il] = [line |-> il, dark |-> il \div Region]
    BY <2>1 DEF Writes, QaOf
  <2> QED
    BY <2>2, <2>3, <2>4
<1> QED
  BY Invariance, <1>1, PTL

(* SurfaceReflectance!PublishedWhole: of a scene whose output no run has   *)
(* opened without listing it since, what the XML file lists is written in  *)
(* full, and nothing is left of the files of 6S or of the run that listed  *)
(* it.                                                                     *)
THEOREM WholePublished == Spec => []PublishedWhole
<1>1. IInv => PublishedWhole
  <2> SUFFICES ASSUME IInv, NEW s \in published \ unfinished
               PROVE  /\ Finished(s)
                      /\ \A p \in Procs :
                            SceneOf(p) = s /\ pr[p].at = "done" => pr[p].run \notin temps
    BY DEF PublishedWhole, Finished
  <2> QED
    BY DEF IInv, Proc, Held
<1> QED
  BY Invariance, <1>1, PTL
=============================================================================
