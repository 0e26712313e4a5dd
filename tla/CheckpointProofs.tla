-------------------------- MODULE CheckpointProofs --------------------------
(***************************************************************************)
(* Proofs about Checkpoint, for every width of the timer's words, every    *)
(* bound and every set of builds whose files may be found: a restored run  *)
(* stands where the saved one stood.                                       *)
(***************************************************************************)
EXTENDS Checkpoint, SequenceTheorems, TLAPS

-----------------------------------------------------------------------------
(* The timer.  Its registers count modulo Range64, in two words each.      *)

Times == 0 .. Range64 - 1

LEMMA Widths == Half \in Nat /\ Half > 0 /\ Range64 \in Nat /\ Range64 > 0
<1>1. Half \in Nat /\ Half > 0
  BY CheckpointAssumption
<1>2. Half * Half \in Nat /\ Half * Half > 0
  BY <1>1
<1> QED
  BY <1>1, <1>2 DEF Range64

LEMMA DivMod ==
  ASSUME NEW n \in Int, NEW t \in Nat, t > 0
  PROVE  /\ n = t * (n \div t) + (n % t)
         /\ n \div t \in Int /\ n % t \in 0 .. t - 1
BY Z3

LEMMA TimeOfInt == \A n \in Int : n % Range64 \in Times
BY Widths, DivMod DEF Times

\* A time is what is left of it modulo Range64, whatever was taken away
\* before and put back after.
LEMMA TakenAndPutBack ==
  ASSUME NEW v \in Times, NEW t \in Nat
  PROVE  (t + ((v - t) % Range64)) % Range64 = v
<1> DEFINE R == Range64
           o == (v - t) % R
           w == (t + o) % R
<1>1. R \in Nat /\ R > 0 /\ v \in Int /\ t \in Int
  BY Widths DEF Times
<1>2. v \in 0 .. R - 1
  BY DEF Times
<1> HIDE DEF R
<1>3. PICK p \in Int : v - t = R * p + o
  BY <1>1, DivMod
<1>4. o \in Int
  BY <1>1, DivMod
<1>5. t + o \in Int
  BY <1>1, <1>4
<1> HIDE DEF o
<1>6. PICK q \in Int : t + o = R * q + w
  BY <1>1, <1>5, DivMod
<1>7. w \in 0 .. R - 1
  BY <1>1, <1>5, DivMod
<1> HIDE DEF w
<1>8. R * (p + q) = v - w
  <2>1. R * (p + q) = R * p + R * q
    BY <1>1
  <2> QED
    BY <1>1, <1>2, <1>3, <1>4, <1>6, <1>7, <2>1
<1>9. p + q = 0
  <2>1. CASE p + q >= 1
    <3>1. R * (p + q) >= R
      BY <1>1, <2>1
    <3> QED
      BY <1>1, <1>2, <1>7, <1>8, <3>1
  <2>2. CASE p + q <= -1
    <3>1. R * (p + q) <= -R
      BY <1>1, <2>2
    <3> QED
      BY <1>1, <1>2, <1>7, <1>8, <3>1
  <2> QED
    BY <2>1, <2>2
<1>10. w = v
  BY <1>1, <1>2, <1>7, <1>8, <1>9
<1> QED
  BY <1>10 DEF w, o, R

\* The words of a register and the register of two words.
LEMMA WordsOfTime ==
  ASSUME NEW v \in Times
  PROVE  Lo(v) \in 0 .. Half - 1 /\ Hi(v) \in 0 .. Half - 1
<1> DEFINE h == v \div Half
           l == v % Half
<1>1. Half \in Nat /\ Half > 0 /\ v \in Int
  BY Widths DEF Times
<1>2. v >= 0 /\ v < Half * Half
  BY Widths DEF Times, Range64
<1>3. v = Half * h + l /\ h \in Int /\ l \in 0 .. Half - 1
  BY <1>1, DivMod
<1> HIDE DEF h, l
<1>4. h >= 0
  <2>1. CASE h <= -1
    <3>1. Half * h <= -Half
      BY <1>1, <1>3, <2>1
    <3> QED
      BY <1>1, <1>2, <1>3, <3>1
  <2> QED
    BY <1>3, <2>1
<1>5. h < Half
  <2>1. CASE h >= Half
    <3>1. Half * h >= Half * Half
      BY <1>1, <1>3, <2>1
    <3> QED
      BY <1>1, <1>2, <1>3, <3>1
  <2> QED
    BY <1>1, <1>3, <2>1
<1> QED
  BY <1>1, <1>3, <1>4, <1>5 DEF Lo, Hi, h, l

LEMMA TimeOfWords ==
  ASSUME NEW l \in 0 .. Half - 1, NEW h \in 0 .. Half - 1
  PROVE  Join(l, h) \in Times
<1>1. Half \in Nat /\ l \in Nat /\ h \in Nat /\ l <= Half - 1 /\ h <= Half - 1
  BY Widths
<1>2. Half * h <= Half * (Half - 1) /\ Half * h \in Nat
  BY <1>1
<1>3. Half * (Half - 1) = Half * Half - Half
  BY <1>1
<1>4. Half * Half \in Nat
  BY <1>1
<1>5. l + Half * h >= 0 /\ l + Half * h <= Half * Half - 1
  BY <1>1, <1>2, <1>3, <1>4
<1> QED
  BY <1>1, <1>2, <1>4, <1>5 DEF Join, Times, Range64
-----------------------------------------------------------------------------
(* The sections of a file. *)

TimerSection == [of : {"timer"}, gen : {0}, time : Times, cmp : Times]
Section == Content \cup TimerSection

Sections == (Saved \ {"privilege"}) \cup {"header", "sdram_size", "timer"}

\* Two sequences of sections, one after the other.
LEMMA Concatenated ==
  ASSUME NEW s \in Seq(Sections), NEW t \in Seq(Sections)
  PROVE  /\ s \o t \in Seq(Sections)
         /\ Len(s \o t) = Len(s) + Len(t)
         /\ \A n \in 1 .. Len(s) + Len(t) :
              (s \o t)[n] = IF n <= Len(s) THEN s[n] ELSE t[n - Len(s)]
BY ConcatProperties, Zenon

Has(b, s) == \E n \in DOMAIN Order(b) : Order(b)[n] = s

\* What every format has a section for; only the later ones have SDRAM.
LEMMA OrderHas ==
  ASSUME NEW b \in Build
  PROVE  /\ Order(b) \in Seq(Sections)
         /\ Has(b, "header") /\ Has(b, "state") /\ Has(b, "interval")
         /\ Has(b, "ram") /\ Has(b, "boot") /\ Has(b, "uart")
         /\ Has(b, "intc") /\ Has(b, "timer") /\ Has(b, "ocsdc")
         /\ b.version >= 3 => Has(b, "sdram")
<1> DEFINE old == <<"header", "state", "interval", "ram">>
           new == <<"header", "sdram_size", "state", "interval", "ram",
                    "sdram">>
<1>1. /\ Devs \in Seq(Sections) /\ Len(Devs) = 5
      /\ Devs[1] = "boot" /\ Devs[2] = "uart" /\ Devs[3] = "intc"
      /\ Devs[4] = "timer" /\ Devs[5] = "ocsdc"
  BY DEF Devs, Sections, Saved
<1>2. /\ old \in Seq(Sections) /\ Len(old) = 4
      /\ old[1] = "header" /\ old[2] = "state" /\ old[3] = "interval"
      /\ old[4] = "ram"
  BY DEF Sections, Saved
<1>3. /\ new \in Seq(Sections) /\ Len(new) = 6
      /\ new[1] = "header" /\ new[3] = "state" /\ new[4] = "interval"
      /\ new[5] = "ram" /\ new[6] = "sdram"
  BY DEF Sections, Saved
<1> HIDE DEF old, new
<1>4. CASE b.version >= 3
  <2>1. Order(b) = new \o Devs
    BY <1>4 DEF Order, new
  <2>2. /\ Order(b) \in Seq(Sections)
        /\ Len(Order(b)) = Len(new) + Len(Devs)
        /\ \A n \in 1 .. Len(new) + Len(Devs) :
             Order(b)[n] = IF n <= Len(new) THEN new[n]
                           ELSE Devs[n - Len(new)]
    <3>1. new \in Seq(Sections) /\ Devs \in Seq(Sections)
      BY <1>1, <1>3
    <3>2. /\ new \o Devs \in Seq(Sections)
          /\ Len(new \o Devs) = Len(new) + Len(Devs)
          /\ \A n \in 1 .. Len(new) + Len(Devs) :
               (new \o Devs)[n] = IF n <= Len(new) THEN new[n]
                                 ELSE Devs[n - Len(new)]
      BY <3>1, Concatenated, Zenon
    <3> QED
      BY <2>1, <3>2, Zenon
  <2>3. /\ DOMAIN Order(b) = 1 .. 11
        /\ \A n \in 1 .. 6 : Order(b)[n] = new[n]
        /\ \A n \in 7 .. 11 : Order(b)[n] = Devs[n - 6]
    BY <1>1, <1>3, <2>2
  <2>4. /\ Order(b)[1] = "header" /\ Order(b)[3] = "state"
        /\ Order(b)[4] = "interval" /\ Order(b)[5] = "ram"
        /\ Order(b)[6] = "sdram" /\ Order(b)[7] = "boot"
        /\ Order(b)[8] = "uart" /\ Order(b)[9] = "intc"
        /\ Order(b)[10] = "timer" /\ Order(b)[11] = "ocsdc"
    BY <1>1, <1>3, <2>3
  <2> QED
    BY <2>2, <2>3, <2>4 DEF Has
<1>5. CASE ~(b.version >= 3)
  <2>1. Order(b) = old \o Devs
    BY <1>5 DEF Order, old
  <2>2. /\ Order(b) \in Seq(Sections)
        /\ Len(Order(b)) = Len(old) + Len(Devs)
        /\ \A n \in 1 .. Len(old) + Len(Devs) :
             Order(b)[n] = IF n <= Len(old) THEN old[n]
                           ELSE Devs[n - Len(old)]
    <3>1. old \in Seq(Sections) /\ Devs \in Seq(Sections)
      BY <1>1, <1>2
    <3>2. /\ old \o Devs \in Seq(Sections)
          /\ Len(old \o Devs) = Len(old) + Len(Devs)
          /\ \A n \in 1 .. Len(old) + Len(Devs) :
               (old \o Devs)[n] = IF n <= Len(old) THEN old[n]
                                 ELSE Devs[n - Len(old)]
      BY <3>1, Concatenated, Zenon
    <3> QED
      BY <2>1, <3>2, Zenon
  <2>3. /\ DOMAIN Order(b) = 1 .. 9
        /\ \A n \in 1 .. 4 : Order(b)[n] = old[n]
        /\ \A n \in 5 .. 9 : Order(b)[n] = Devs[n - 4]
    BY <1>1, <1>2, <2>2
  <2>4. /\ Order(b)[1] = "header" /\ Order(b)[2] = "state"
        /\ Order(b)[3] = "interval" /\ Order(b)[4] = "ram"
        /\ Order(b)[5] = "boot" /\ Order(b)[6] = "uart"
        /\ Order(b)[7] = "intc" /\ Order(b)[8] = "timer"
        /\ Order(b)[9] = "ocsdc"
    BY <1>1, <1>2, <2>3
  <2> QED
    BY <1>5, <2>2, <2>3, <2>4 DEF Has
<1> QED
  BY <1>4, <1>5

\* What the state that was saved has for a section.
SavedFor(s) ==
  CASE s = "header"     -> snap.live["privilege"]
    [] s = "sdram_size" -> Initial("sdram_size")
    [] s = "timer"      -> [of |-> "timer", gen |-> 0, time |-> snap.time,
                            cmp |-> snap.cmp]
    [] OTHER            -> snap.live[s]

SnapOK == snap \in [live : [Components -> Content], time : Times, cmp : Times]

\* What there is of a file is of the state it was saved from.
FileOK ==
  /\ file \in [build : Build, there : BOOLEAN, sections : Seq(Section)]
  /\ Len(file.sections) <= Len(Order(file.build))
  /\ \A n \in DOMAIN file.sections :
       file.sections[n] = SavedFor(Order(file.build)[n])

\* Nothing moves while the sections are written.
SavingOK ==
  proc = "saving" =>
    /\ file.build = ThisBuild /\ file.there
    /\ snap = [live |-> live, time |-> TimerNow, cmp |-> timer_cmp]

CkptInv ==
  /\ TypeOK /\ SnapOK /\ FileOK /\ SavingOK
  /\ proc \in {"down", "fresh"} => ~restored
  /\ RestoredAsSaved

LEMMA NowType == ASSUME TypeOK PROVE TimerNow \in Times
<1>1. sim_time + timer_offset \in Int
  BY CheckpointAssumption, Widths DEF TypeOK
<1> QED
  BY <1>1, TimeOfInt DEF TimerNow

LEMMA SectionType ==
  ASSUME TypeOK, NEW s \in Sections
  PROVE  SectionOf(s) \in Section
<1>1. CASE s = "timer"
  BY <1>1, NowType DEF SectionOf, TimerWords, Section, TimerSection, TypeOK,
     Times
<1>2. CASE s = "sdram_size"
  BY <1>2 DEF SectionOf, Section, Content, Initial
<1>3. CASE s \notin {"timer", "sdram_size"}
  BY <1>3 DEF SectionOf, Section, Sections, Components, Saved, TypeOK
<1> QED
  BY <1>1, <1>2, <1>3

\* A section of the live state is one of the state just taken down.
LEMMA SectionOfSnap ==
  ASSUME snap = [live |-> live, time |-> TimerNow, cmp |-> timer_cmp]
  PROVE  \A s : SectionOf(s) = SavedFor(s)
BY DEF SectionOf, SavedFor, TimerWords

\* A file that is accepted gives back each of its sections.
LEMMA ReadsBack ==
  ASSUME FileOK, Accepts(file), NEW s, Has(file.build, s)
  PROVE  Read(file, s) = SavedFor(s)
<1> DEFINE order == Order(file.build)
           i == CHOOSE n \in DOMAIN order : order[n] = s
<1>1. i \in DOMAIN order /\ order[i] = s
  BY DEF Has
<1>2. order \in Seq(Sections)
  BY OrderHas DEF FileOK
<1>3. Len(file.sections) = Len(order) /\ file.build.differs = {}
  BY DEF Accepts, Whole
<1> HIDE DEF i
<1>4. i \in DOMAIN file.sections /\ i <= Len(file.sections)
  BY <1>1, <1>2, <1>3 DEF FileOK
<1>5. Read(file, s) = file.sections[i]
  BY <1>3, <1>4 DEF Read, i
<1> QED
  BY <1>1, <1>4, <1>5 DEF FileOK

-----------------------------------------------------------------------------
(* The steps. *)

LEMMA InitCkpt == Init => CkptInv
<1> SUFFICES ASSUME Init PROVE CkptInv
  OBVIOUS
<1>1. live \in [Components -> Content]
  BY DEF Init, Content, Initial
<1>2. /\ 0 \in 0 .. MaxTime /\ 0 \in Times /\ Range64 - 1 \in Times
      /\ timer_cmp \in Times
  BY CheckpointAssumption, Widths DEF Times, Init
<1>3. ThisBuild \in Build
  BY DEF ThisBuild, Build
<1>4. Len(Order(ThisBuild)) \in Nat
  BY <1>3, OrderHas
<1>5. FileOK
  BY <1>3, <1>4 DEF Init, FileOK, NoFile
<1>6. SnapOK
  BY <1>1, <1>2 DEF Init, SnapOK
<1>7. TypeOK
  BY <1>1, <1>2, <1>5 DEF Init, TypeOK, FileOK, Times
<1> QED
  BY <1>5, <1>6, <1>7 DEF Init, CkptInv, SavingOK, RestoredAsSaved

LEMMA SaveBegins == ASSUME CkptInv, OpenForSave PROVE CkptInv'
<1>1. SnapOK'
  BY NowType DEF CkptInv, OpenForSave, SnapOK, TypeOK, Times
<1>2. ThisBuild \in Build /\ Len(Order(ThisBuild)) \in Nat
  BY OrderHas DEF ThisBuild, Build
<1>3. FileOK'
  BY <1>2 DEF OpenForSave, FileOK
<1>4. TypeOK'
  BY <1>2, <1>3 DEF CkptInv, OpenForSave, TypeOK, FileOK, timerVars
<1>5. TimerNow' = TimerNow
  BY DEF OpenForSave, timerVars, TimerNow
<1>6. SavingOK' /\ RestoredAsSaved'
  BY <1>5 DEF OpenForSave, SavingOK, RestoredAsSaved, ThisBuild, timerVars
<1> QED
  BY <1>1, <1>3, <1>4, <1>6 DEF CkptInv, OpenForSave

LEMMA SectionWritten == ASSUME CkptInv, WriteSection PROVE CkptInv'
<1> DEFINE order == Order(ThisBuild)
           k == Len(file.sections) + 1
<1>1. /\ ThisBuild \in Build /\ order \in Seq(Sections)
      /\ file.build = ThisBuild /\ file.there
  BY OrderHas DEF ThisBuild, Build, CkptInv, SavingOK, WriteSection
<1>2. k \in DOMAIN order /\ order[k] \in Sections
  BY <1>1 DEF WriteSection, CkptInv, FileOK
<1>3. /\ SectionOf(order[k]) \in Section
      /\ SectionOf(order[k]) = SavedFor(order[k])
  BY <1>2, SectionType, SectionOfSnap DEF CkptInv, SavingOK, WriteSection
<1>4. /\ file' = [file EXCEPT !.sections = Append(@, SectionOf(order[k]))]
      /\ snap' = snap
  BY DEF WriteSection
<1> DEFINE old == file.sections
           new == Append(old, SectionOf(order[k]))
<1>5. /\ new \in Seq(Section) /\ Len(new) = k
      /\ \A n \in DOMAIN new : new[n] = IF n = k THEN SectionOf(order[k])
                                        ELSE old[n]
      /\ \A n \in DOMAIN new : n = k \/ n \in DOMAIN old
  BY <1>3 DEF CkptInv, FileOK
<1>6. file'.sections = new /\ file'.build = file.build /\ file'.there
      /\ file' \in [build : Build, there : BOOLEAN, sections : Seq(Section)]
  BY <1>1, <1>4, <1>5 DEF CkptInv, FileOK
<1> HIDE DEF new, order, k
<1>7. \A s : SavedFor(s)' = SavedFor(s)
  BY <1>4 DEF SavedFor
<1>8. \A n \in DOMAIN new : new[n] = SavedFor(order[n])
  BY <1>1, <1>3, <1>5 DEF CkptInv, FileOK, order
<1>9. Len(new) <= Len(Order(ThisBuild))
  BY <1>5 DEF k, WriteSection
<1>10. FileOK'
  BY <1>1, <1>6, <1>7, <1>8, <1>9 DEF FileOK, order
<1>11. TimerNow' = TimerNow
  BY DEF WriteSection, timerVars, TimerNow
<1>12. TypeOK'
  BY <1>10 DEF WriteSection, CkptInv, TypeOK, FileOK, timerVars
<1>13. SnapOK' /\ SavingOK' /\ RestoredAsSaved'
  BY <1>6, <1>11 DEF WriteSection, CkptInv, SnapOK, SavingOK, RestoredAsSaved,
     timerVars
<1> QED
  BY <1>10, <1>12, <1>13 DEF CkptInv, WriteSection

\* What is left of a file when its end is lost is still of the state saved.
LEMMA CutFile ==
  ASSUME FileOK, NEW n \in 0 .. Len(file.sections), Prefix(n), snap' = snap
  PROVE  FileOK' /\ file'.build = file.build
<1> DEFINE old == file.sections
           new == SubSeq(old, 1, n)
<1>1. /\ new \in Seq(Section) /\ Len(new) = n
      /\ \A m \in DOMAIN new : m \in DOMAIN old /\ new[m] = old[m]
  BY DEF FileOK
<1>2. /\ file' \in [build : Build, there : BOOLEAN, sections : Seq(Section)]
      /\ file'.sections = new /\ file'.build = file.build
  BY <1>1 DEF Prefix, FileOK
<1> HIDE DEF new
<1>3. \A s : SavedFor(s)' = SavedFor(s)
  BY DEF SavedFor
<1>4. Len(new) <= Len(Order(file.build))
  <2>1. Len(Order(file.build)) \in Nat /\ Len(old) \in Nat
    BY OrderHas DEF FileOK
  <2> QED
    BY <1>1, <2>1 DEF FileOK
<1> QED
  BY <1>1, <1>2, <1>3, <1>4 DEF FileOK

LEMMA SaveEnds == ASSUME CkptInv, CloseSaved PROVE CkptInv'
<1>1. FileOK' /\ file'.build = file.build
  BY CutFile DEF CloseSaved, CkptInv
<1>2. TimerNow' = TimerNow
  BY DEF CloseSaved, timerVars, TimerNow
<1>3. TypeOK'
  BY <1>1 DEF CloseSaved, CkptInv, TypeOK, FileOK, timerVars
<1>4. SnapOK' /\ SavingOK' /\ RestoredAsSaved'
  BY <1>1, <1>2 DEF CloseSaved, CkptInv, SnapOK, SavingOK, RestoredAsSaved,
     timerVars
<1> QED
  BY <1>1, <1>3, <1>4 DEF CkptInv, CloseSaved

LEMMA ProcessKilled == ASSUME CkptInv, Killed PROVE CkptInv'
<1>1. FileOK'
  <2>1. CASE proc = "saving"
    BY <2>1, CutFile DEF Killed, CkptInv
  <2>2. CASE proc # "saving"
    BY <2>2 DEF Killed, CkptInv, FileOK, SavedFor
  <2> QED
    BY <2>1, <2>2
<1>2. TypeOK'
  BY <1>1 DEF Killed, CkptInv, TypeOK, FileOK, timerVars
<1> QED
  BY <1>1, <1>2 DEF Killed, CkptInv, SnapOK, SavingOK, RestoredAsSaved

\* Steps that leave the file and the state it was saved from alone.
LEMMA FileKept ==
  ASSUME FileOK, SnapOK, UNCHANGED <<file, snap>>
  PROVE  FileOK' /\ SnapOK'
BY DEF FileOK, SnapOK, SavedFor

LEMMA ProcessStarts ==
  ASSUME CkptInv, Start \/ RunImage \/ RestoreFails PROVE CkptInv'
<1>1. FileOK' /\ SnapOK'
  BY FileKept DEF CkptInv, Start, RunImage, RestoreFails
<1>2. ~restored /\ ~restored' /\ proc' # "saving"
  BY DEF CkptInv, Start, RunImage, RestoreFails
<1>3. TypeOK'
  <2>1. CASE Start
    <3>1. [c \in Components |-> Initial(c)] \in [Components -> Content]
      BY DEF Content, Initial
    <3>2. 0 \in 0 .. MaxTime /\ 0 \in 0 .. Range64 - 1
          /\ Range64 - 1 \in 0 .. Range64 - 1
      BY CheckpointAssumption, Widths
    <3> QED
      BY <2>1, <3>1, <3>2 DEF Start, Initialised, CkptInv, TypeOK
  <2>2. CASE RunImage \/ RestoreFails
    BY <2>2 DEF RunImage, RestoreFails, CkptInv, TypeOK, timerVars
  <2> QED
    BY <2>1, <2>2
<1> QED
  BY <1>1, <1>2, <1>3 DEF CkptInv, SavingOK, RestoredAsSaved

\* What restoring gives each component: the content it was saved with.
LEMMA RestoredContent ==
  ASSUME FileOK, SnapOK, Accepts(file)
  PROVE  /\ \A c \in Saved \ {"sdram"} :
              RestoredTo(file, c) = snap.live[c]
         /\ RestoredTo(file, "sdram") =
              IF file.build.version = 2 THEN Zeroed ELSE snap.live["sdram"]
         /\ RestoredTo(file, "fcsr") = live["fcsr"]
         /\ RestoredTo(file, "seip") = Initial("seip")
         /\ Read(file, "timer") = SavedFor("timer")
<1>1. file.build \in Build /\ file.build.version \in {2, 3}
  BY DEF FileOK, Accepts
<1>2. /\ \A s \in {"header", "state", "interval", "ram", "boot", "uart",
                   "intc", "timer", "ocsdc"} : Read(file, s) = SavedFor(s)
      /\ file.build.version = 3 => Read(file, "sdram") = SavedFor("sdram")
  <2>1. /\ \A s \in {"header", "state", "interval", "ram", "boot", "uart",
                     "intc", "timer", "ocsdc"} : Has(file.build, s)
        /\ file.build.version = 3 => Has(file.build, "sdram")
    BY <1>1, OrderHas
  <2> QED
    BY <2>1, ReadsBack
<1>3. \A c \in Saved \ {"sdram"} : RestoredTo(file, c) = snap.live[c]
  BY <1>2 DEF RestoredTo, SavedFor, Saved
<1>4. RestoredTo(file, "sdram") =
        IF file.build.version = 2 THEN Zeroed ELSE snap.live["sdram"]
  BY <1>1, <1>2 DEF RestoredTo, SdramOf, SavedFor
<1> QED
  BY <1>2, <1>3, <1>4 DEF RestoredTo

LEMMA StateRestored == ASSUME CkptInv, Restore PROVE CkptInv'
<1>1. /\ FileOK /\ SnapOK /\ Accepts(file) /\ proc' = "running"
      /\ UNCHANGED <<sim_time, file, snap>>
      /\ live' = [c \in Components |-> RestoredTo(file, c)]
  BY DEF CkptInv, Restore
<1>2. Read(file, "timer") = [of |-> "timer", gen |-> 0,
                             time |-> snap.time, cmp |-> snap.cmp]
  BY <1>1, RestoredContent DEF SavedFor
<1>3. Read(file, "timer") # Garbage
  BY <1>2 DEF Garbage
<1>4. timer_offset' = OffsetFor(snap.time, sim_time) /\ timer_cmp' = snap.cmp
  BY <1>2, <1>3 DEF Restore
<1>5. snap.time \in Times /\ snap.cmp \in Times /\ sim_time \in Nat
  BY <1>1, CheckpointAssumption DEF SnapOK, CkptInv, TypeOK
<1>6. TimerNow' = snap.time
  BY <1>1, <1>4, <1>5, TakenAndPutBack DEF TimerNow, OffsetFor
<1>7. timer_offset' \in Times
  BY <1>4, <1>5, TimeOfInt DEF OffsetFor, Times
<1>8. \A c \in Components : RestoredTo(file, c) \in Content
  <2>1. /\ \A c \in Components :
             snap.live[c] \in Content /\ live[c] \in Content
        /\ Zeroed \in Content /\ Initial("seip") \in Content
    BY <1>1 DEF SnapOK, CkptInv, TypeOK, Zeroed, Initial, Content, Components,
       Saved, Unsaved
  <2>2. \A c \in Components : \/ c \in Saved \ {"sdram"}
                              \/ c \in {"sdram", "fcsr", "seip"}
    BY DEF Components, Saved, Unsaved
  <2>3. Saved \ {"sdram"} \subseteq Components /\ "sdram" \in Components
        /\ "fcsr" \in Components
    BY DEF Components, Saved, Unsaved
  <2> QED
    BY <1>1, <2>1, <2>2, <2>3, RestoredContent
<1>9. FileOK' /\ SnapOK'
  BY <1>1, FileKept
<1>10. TypeOK'
  BY <1>1, <1>4, <1>5, <1>7, <1>8 DEF CkptInv, TypeOK, Restore, Times
<1>11. RestoredAsSaved'
  BY <1>1, <1>4, <1>6, RestoredContent
  DEF RestoredAsSaved, Components, Saved
<1> QED
  BY <1>1, <1>9, <1>10, <1>11 DEF CkptInv, SavingOK

LEMMA FileFound ==
  ASSUME CkptInv, NEW build \in OtherBuilds, FoundFile(build) PROVE CkptInv'
<1> DEFINE order == Order(build)
           sections == [i \in 1 .. Len(order) |-> SectionOf(order[i])]
<1>1. build \in Build /\ order \in Seq(Sections)
  BY CheckpointAssumption, OrderHas
<1>2. \A i \in 1 .. Len(order) : SectionOf(order[i]) \in Section
  BY <1>1, SectionType DEF CkptInv
<1>3. sections \in Seq(Section) /\ Len(sections) = Len(order)
      /\ \A i \in DOMAIN sections : sections[i] = SectionOf(order[i])
  BY <1>1, <1>2
<1>4. /\ file' = [build |-> build, there |-> TRUE, sections |-> sections]
      /\ snap' = [live |-> live, time |-> TimerNow, cmp |-> timer_cmp]
      /\ UNCHANGED <<proc, live, timerVars, restored>> /\ proc = "down"
  BY DEF FoundFile
<1> HIDE DEF sections
<1>5. \A s : SavedFor(s)' = SectionOf(s)
  BY <1>4 DEF SavedFor, SectionOf, TimerWords
<1>6. FileOK'
  BY <1>1, <1>3, <1>4, <1>5 DEF FileOK
<1>7. SnapOK'
  BY <1>4, NowType DEF CkptInv, SnapOK, TypeOK, Times
<1>8. TypeOK'
  BY <1>4, <1>6 DEF CkptInv, TypeOK, FileOK, timerVars
<1> QED
  BY <1>4, <1>6, <1>7, <1>8 DEF CkptInv, SavingOK, RestoredAsSaved

LEMMA GuestSteps ==
  ASSUME CkptInv,
         \/ Step
         \/ \E reg \in {"time", "cmp"}, half \in {"lo", "hi"},
               word \in 0 .. Half - 1 : StoreTimer(reg, half, word)
  PROVE  CkptInv'
<1>1. /\ proc' = "running" /\ ~restored' /\ UNCHANGED <<file, snap>>
  BY DEF Step, StoreTimer
<1>2. FileOK' /\ SnapOK'
  BY <1>1, FileKept DEF CkptInv
<1>3. CASE Step
  <2>1. PICK cs : Advance(cs)
    BY <1>3 DEF Step
  <2>2. live' \in [Components -> Content]
    <3>1. \A c \in Components :
            /\ live[c] \in Content
            /\ [live[c] EXCEPT !.gen = @ + 1] \in Content
      BY DEF CkptInv, TypeOK, Content
    <3> QED
      BY <2>1, <3>1 DEF Advance
  <2>3. sim_time' \in 0 .. MaxTime
    BY <1>3, CheckpointAssumption DEF Step, CkptInv, TypeOK
  <2> QED
    BY <1>2, <1>3, <2>2, <2>3
    DEF Step, CkptInv, TypeOK, FileOK, SavingOK, RestoredAsSaved
<1>4. ASSUME NEW reg \in {"time", "cmp"}, NEW half \in {"lo", "hi"},
             NEW word \in 0 .. Half - 1, StoreTimer(reg, half, word)
      PROVE  CkptInv'
  <2> DEFINE old == IF reg = "time" THEN TimerNow ELSE timer_cmp
             new == IF half = "lo" THEN Join(word, Hi(old))
                    ELSE Join(Lo(old), word)
  <2>1. old \in Times
    BY NowType DEF CkptInv, TypeOK, Times
  <2>2. new \in Times
    BY <2>1, WordsOfTime, TimeOfWords
  <2>3. IF reg = "time"
        THEN timer_offset' = OffsetFor(new, sim_time) /\ timer_cmp' = timer_cmp
        ELSE timer_cmp' = new /\ timer_offset' = timer_offset
    BY <1>4 DEF StoreTimer
  <2> HIDE DEF new
  <2>4. OffsetFor(new, sim_time) \in Times
    <3>1. new \in Int /\ sim_time \in Int
      BY <2>2, CheckpointAssumption DEF Times, CkptInv, TypeOK
    <3>2. new - sim_time \in Int
      BY <3>1
    <3> QED
      BY <3>2, TimeOfInt DEF OffsetFor
  <2>5. timer_offset' \in Times /\ timer_cmp' \in Times
    BY <2>2, <2>3, <2>4 DEF CkptInv, TypeOK, Times
  <2>6. UNCHANGED <<live, sim_time>> /\ restored' = FALSE
    BY <1>4 DEF StoreTimer
  <2> QED
    BY <1>1, <1>2, <2>5, <2>6
    DEF CkptInv, TypeOK, FileOK, SavingOK, RestoredAsSaved, Times
<1> QED
  BY <1>3, <1>4

LEMMA NextCkpt == CkptInv /\ [Next]_vars => CkptInv'
<1> SUFFICES ASSUME CkptInv, [Next]_vars PROVE CkptInv'
  OBVIOUS
<1>1. CASE UNCHANGED vars
  <2>1. FileOK' /\ SnapOK'
    BY <1>1, FileKept DEF CkptInv, vars
  <2> QED
    BY <1>1, <2>1 DEF CkptInv, TypeOK, FileOK, SavingOK, RestoredAsSaved,
                      TimerNow, vars, timerVars
<1>2. CASE Next
  BY <1>2, SaveBegins, SectionWritten, SaveEnds, ProcessKilled, ProcessStarts,
     StateRestored, FileFound, GuestSteps DEF Next
<1> QED
  BY <1>1, <1>2

LEMMA CkptAlways == Spec => []CkptInv
BY InitCkpt, NextCkpt, PTL DEF Spec

\* Every variable keeps its type, through every file that may be found.
THEOREM TypeCorrect == Spec => []TypeOK
BY CkptAlways, PTL DEF CkptInv

\* A restored run stands where the one that saved stood, whatever was killed,
\* cut short or written by another build before.
THEOREM RestoresWhatWasSaved == Spec => []RestoredAsSaved
BY CkptAlways, PTL DEF CkptInv
=============================================================================
