----------------------------- MODULE CosimProofs -----------------------------
(***************************************************************************)
(* Proofs about the two ways the simulator is run against another machine: *)
(* RefApi, where it is the reference of a host, for every set of contexts  *)
(* and hosts and every width of the timer's registers; and Difftest, where *)
(* Spike is the reference, for any number of bugs.                         *)
(***************************************************************************)
EXTENDS RefApi, Difftest, TLAPS

-----------------------------------------------------------------------------
(* Counting modulo T.                                                      *)

LEMMA TPositive == T \in Nat \ {0}
  BY RefApiAssumption

LEMMA WordOfInt == \A n \in Int : n % T \in Word
  BY TPositive DEF Word

LEMMA DivMod ==
  ASSUME NEW n \in Int, NEW t \in Nat, t > 0
  PROVE  n = t * (n \div t) + (n % t) /\ n \div t \in Int
BY Z3

LEMMA HasRemainder ==
  ASSUME NEW n \in Int
  PROVE  \E k \in Int : n = T * k + (n % T)
<1>1. T \in Nat /\ T > 0
  BY TPositive
<1>2. n = T * (n \div T) + (n % T) /\ n \div T \in Int
  BY <1>1, DivMod
<1> QED
  BY <1>2

\* A remainder is the only one of its kind.
LEMMA RemainderIs ==
  ASSUME NEW n \in Int, NEW k \in Int, NEW m \in Word, n = T * k + m
  PROVE  n % T = m
<1>1. PICK q \in Int : n = T * q + (n % T)
  BY HasRemainder
<1> DEFINE r == n % T
<1>2. r \in 0 .. T - 1 /\ m \in 0 .. T - 1
  BY TPositive DEF Word
<1> HIDE DEF r
<1>3. T * q + r = T * k + m
  BY <1>1 DEF r
<1>4. T * (q - k) = m - r
  BY <1>2, <1>3, TPositive
<1>5. q - k = 0
  <2>1. CASE q - k >= 1
    <3>1. T * (q - k) >= T
      BY <2>1, TPositive
    <3> QED
      BY <1>2, <1>4, <3>1, TPositive
  <2>2. CASE q - k <= -1
    <3>1. T * (q - k) <= -T
      BY <2>2, TPositive
    <3> QED
      BY <1>2, <1>4, <3>1, TPositive
  <2> QED
    BY <2>1, <2>2
<1>6. m = r
  BY <1>2, <1>4, <1>5, TPositive
<1> QED
  BY <1>6 DEF r

\* A sum may be cut before or after a summand is.
LEMMA CutSummand ==
  ASSUME NEW a \in Int, NEW b \in Int
  PROVE  (a + (b % T)) % T = (a + b) % T
<1> DEFINE r == b % T
           m == (a + r) % T
<1>1. r \in Word /\ r \in Int
  BY TPositive DEF Word
<1>2. PICK q \in Int : b = T * q + r
  BY HasRemainder
<1> HIDE DEF r
<1>3. PICK k \in Int : a + r = T * k + m
  BY <1>1, HasRemainder
<1>4. m \in Word /\ m \in Int
  BY <1>1, TPositive DEF Word
<1> HIDE DEF m
<1>5. a + b = T * (k + q) + m
  <2>1. T * (k + q) = T * k + T * q
    BY TPositive
  <2> QED
    BY <1>1, <1>2, <1>3, <1>4, <2>1, TPositive
<1>6. (a + b) % T = m
  BY <1>4, <1>5, RemainderIs
<1> QED
  BY <1>6 DEF m, r

-----------------------------------------------------------------------------
(* The types.                                                              *)

LEMMA ZeroIsWord == 0 \in Word /\ Ones \in Word
  BY TPositive DEF Word, Ones

LEMMA WordIsInt == Word \subseteq Int
  BY DEF Word

LEMMA ZeroWordsType == ZeroWords \in [Regs -> Word]
  BY ZeroIsWord DEF ZeroWords

LEMMA OffsetType ==
  ASSUME NEW v \in Word, NEW t \in Word
  PROVE  Offset(v, t) \in Word
BY WordIsInt, WordOfInt DEF Offset

LEMMA NowType == ASSUME TypeOK, NEW c \in Contexts PROVE Now(c) \in Word
<1>0. simTime[c] \in Word /\ offset \in Word
  BY DEF TypeOK
<1>1. simTime[c] + offset \in Int
  <2>1. simTime[c] \in Int /\ offset \in Int
    BY <1>0, WordIsInt
  <2> QED
    BY <2>1
<1> QED
  BY <1>1, WordOfInt DEF Now

LEMMA IoWordType ==
  ASSUME TypeOK, NEW c \in Contexts, NEW r \in Regs
  PROVE  IoWord(c, r) \in Word
BY NowType DEF IoWord, TypeOK

SetType == [by : Contexts \cup {"none"}, value : Word, at : Word]

LEMMA SetsType ==
  ASSUME TypeOK, NEW c \in Contexts, NEW values, DOMAIN values \subseteq Regs,
         \A r \in DOMAIN values : values[r] \in Word, NEW now \in Word,
         Sets(c, values, now)
  PROVE  set' \in [Regs -> SetType]
BY DEF Sets, SetType, TypeOK

LEMMA InitTyped == Init => TypeOK
BY ZeroIsWord, ZeroWordsType
DEF Init, TypeOK, NotSet, Regs

LEMMA SwitchType ==
  ASSUME NEW c \in Contexts, NEW some \in SUBSET Contexts, NEW on
  PROVE  Switch(c, some, on) \in SUBSET Contexts
BY DEF Switch

\* There is one read left while a value is armed, and none otherwise.
LeftIsArmed ==
  \A c \in Contexts : left[c] = IF armed[c] = "none" THEN 0 ELSE 1

LEMMA StepTyped == TypeOK /\ LeftIsArmed /\ [Next]_vars => TypeOK'
<1> SUFFICES ASSUME TypeOK, LeftIsArmed, [Next]_vars PROVE TypeOK'
  OBVIOUS
<1>1. ASSUME NEW c \in Contexts, RefcpuInit(c) PROVE TypeOK'
  <2>1. set' \in [Regs -> SetType]
    BY <1>1, ZeroIsWord DEF RefcpuInit, Sets, SetType, Regs, TypeOK
  <2> QED
    BY <1>1, <2>1, ZeroIsWord, ZeroWordsType
    DEF RefcpuInit, SetType, TypeOK
<1>2. ASSUME NEW c \in live, Destroy(c) PROVE TypeOK'
  BY <1>2 DEF Destroy, TypeOK, timer, history
<1>3. ASSUME NEW c \in live, NEW b \in BOOLEAN, Switches(c, b) PROVE TypeOK'
  BY <1>3, SwitchType DEF Switches, TypeOK, timer, history
<1>4. ASSUME NEW c \in live, NEW b \in BOOLEAN, TakeForcedInterrupt(c, b)
      PROVE TypeOK'
  BY <1>4, SwitchType
  DEF TakeForcedInterrupt, TypeOK, timer, contexts, Loses
<1>5. ASSUME NEW c \in live, NEW t \in Times, SetSimTime(c, t) PROVE TypeOK'
  BY <1>5, RefApiAssumption
  DEF SetSimTime, TypeOK, timer, contexts, Loses, Word
<1>6. ASSUME NEW c \in live, NEW r \in Regs, NEW v \in Values,
             StoreWord(c, r, v)
      PROVE TypeOK'
  <2>1. v \in Word /\ c \in Contexts /\ simTime[c] \in Word
    BY RefApiAssumption DEF Word, TypeOK
  <2>2. CASE StoreTimer(c, r, v)
    <3>1. offset' \in Word /\ cmp' \in Word
      BY <2>1, <2>2, OffsetType DEF StoreTimer, TypeOK
    <3>2. set' \in [Regs -> SetType]
      BY <2>1, <2>2 DEF StoreTimer, Sets, SetType, TypeOK
    <3> QED
      BY <1>6, <2>2, <3>1, <3>2
      DEF StoreWord, StoreTimer, SetType, TypeOK, contexts, Loses
  <2>3. CASE /\ words' = [words EXCEPT ![c][r] = v]
             /\ UNCHANGED <<timer, set, same>>
    BY <1>6, <2>1, <2>3 DEF StoreWord, TypeOK, contexts, timer
  <2> QED
    BY <1>6, <2>2, <2>3 DEF StoreWord
<1>7. ASSUME NEW c \in live, NEW r \in Regs, NEW v \in Values,
             SetIoWord(c, r, v)
      PROVE TypeOK'
  <2>1. v \in Word
    BY RefApiAssumption DEF Word
  <2> QED
    BY <1>7, <2>1 DEF SetIoWord, TypeOK, timer, contexts, history
<1>8. ASSUME NEW c \in live, NEW r \in Regs, CopyIoWord(c, r) PROVE TypeOK'
  BY <1>8 DEF CopyIoWord, TypeOK, timer, contexts, history
<1>9. ASSUME NEW c \in live, ClearIoWords(c) PROVE TypeOK'
  BY <1>9, ZeroWordsType DEF ClearIoWords, TypeOK, timer, contexts, history
<1>10. ASSUME NEW c \in live, Sync(c) PROVE TypeOK'
  <2>1. c \in Contexts /\ words[c] \in [Regs -> Word] /\ simTime[c] \in Word
    BY DEF TypeOK
  <2>2. offset' \in Word /\ cmp' \in Word
    BY <1>10, <2>1, OffsetType DEF Sync, Regs
  <2>3. set' \in [Regs -> SetType]
    BY <1>10, <2>1 DEF Sync, Sets, SetType, TypeOK
  <2>4. same' \in [Contexts -> SUBSET {"state", "timer"}]
    BY <1>10 DEF Sync, Gains, Loses, TypeOK
  <2> QED
    BY <1>10, <2>2, <2>3, <2>4 DEF Sync, SetType, TypeOK, contexts
<1>11. ASSUME NEW c \in live, GetState(c) PROVE TypeOK'
  <2>1. snap' \in [words : [Regs -> Word], simTime : Word, mtip : BOOLEAN,
                   on : BOOLEAN]
    <3>1. [r \in Regs |-> IoWord(c, r)] \in [Regs -> Word]
      BY IoWordType DEF TypeOK
    <3>2. VisibleMtip(c) \in BOOLEAN /\ Synthesizes(c) \in BOOLEAN
      BY DEF VisibleMtip, Synthesizes
    <3> QED
      BY <1>11, <3>1, <3>2 DEF GetState, TypeOK
  <2> QED
    BY <1>11, <2>1 DEF GetState, TypeOK, timer, contexts
<1>12. ASSUME NEW c \in live, SetState(c) PROVE TypeOK'
  BY <1>12, SwitchType DEF SetState, TypeOK, timer, contexts, Gains
<1>13. ASSUME NEW c \in live, NEW x \in Csrs, SetNextCsrRead(c, x)
       PROVE TypeOK'
  BY <1>13 DEF SetNextCsrRead, TypeOK, timer, contexts, history
<1>14. ASSUME NEW c \in live, NEW x \in Csrs, AccessCsr(c, x) PROVE TypeOK'
  <2>1. armed' \in [Contexts -> Csrs \cup {"none"}]
    BY <1>14 DEF AccessCsr, ArmedAfterRead, TypeOK
  <2>2. left' \in [Contexts -> -1 .. 1]
    <3>1. armed[c] = x => left[c] = 1
      BY DEF LeftIsArmed, Csrs, TypeOK
    <3> QED
      BY <1>14, <3>1 DEF AccessCsr, TypeOK
  <2> QED
    BY <1>14, <2>1, <2>2 DEF AccessCsr, TypeOK, timer, contexts, history
<1>15. CASE UNCHANGED vars
  BY <1>15 DEF vars, TypeOK, timer, contexts, history
<1> QED
  BY <1>1, <1>2, <1>3, <1>4, <1>5, <1>6, <1>7, <1>8, <1>9, <1>10, <1>11,
     <1>12, <1>13, <1>14, <1>15 DEF Next

LEMMA InitArmed == Init => LeftIsArmed
BY DEF Init, LeftIsArmed

LEMMA StepArmed == TypeOK /\ LeftIsArmed /\ [Next]_vars => LeftIsArmed'
<1> SUFFICES ASSUME TypeOK, LeftIsArmed, [Next]_vars PROVE LeftIsArmed'
  OBVIOUS
<1>1. /\ armed \in [Contexts -> Csrs \cup {"none"}]
      /\ left \in [Contexts -> -1 .. 1]
      /\ live \subseteq Contexts
  BY DEF TypeOK
<1>2. ASSUME NEW c \in Contexts, RefcpuInit(c) \/ (c \in live /\ SetState(c))
      PROVE LeftIsArmed'
  BY <1>1, <1>2 DEF RefcpuInit, SetState, LeftIsArmed
<1>3. ASSUME NEW c \in live, NEW x \in Csrs, SetNextCsrRead(c, x)
      PROVE LeftIsArmed'
  BY <1>1, <1>3 DEF SetNextCsrRead, LeftIsArmed, Csrs
<1>4. ASSUME NEW c \in live, NEW x \in Csrs, AccessCsr(c, x)
      PROVE LeftIsArmed'
  <2>1. CASE armed[c] = x
    BY <1>1, <1>4, <2>1 DEF AccessCsr, ArmedAfterRead, LeftIsArmed, Csrs
  <2>2. CASE armed[c] # x
    BY <1>1, <1>4, <2>2 DEF AccessCsr, ArmedAfterRead, LeftIsArmed
  <2> QED
    BY <2>1, <2>2
<1>5. CASE UNCHANGED <<armed, left>>
  BY <1>5 DEF LeftIsArmed
<1>6. \/ UNCHANGED <<armed, left>>
      \/ \E c \in Contexts : RefcpuInit(c) \/ (c \in live /\ SetState(c))
      \/ \E c \in live, x \in Csrs : SetNextCsrRead(c, x) \/ AccessCsr(c, x)
  BY <1>1 DEF Next, Destroy, Switches, TakeForcedInterrupt, SetSimTime,
     StoreWord, SetIoWord, CopyIoWord, ClearIoWords, Sync, GetState, vars
<1> QED
  BY <1>2, <1>3, <1>4, <1>5, <1>6

LEMMA TypedAlways == Spec => [](TypeOK /\ LeftIsArmed)
BY InitTyped, StepTyped, InitArmed, StepArmed, PTL DEF Spec

\* Every variable has its type: the registers stay words over all changes of
\* the clock.
THEOREM TypeCorrect == Spec => []TypeOK
BY TypedAlways, PTL

\* A value given for a CSR is read once at most.
THEOREM ValuesAreGivenOnce == Spec => []GivenOnce
<1>1. LeftIsArmed => GivenOnce
  <2> SUFFICES ASSUME LeftIsArmed, NEW c \in Contexts PROVE left[c] >= 0
    BY DEF GivenOnce
  <2>1. left[c] = 0 \/ left[c] = 1
    BY DEF LeftIsArmed
  <2> QED
    BY <2>1
<1> QED
  BY <1>1, TypedAlways, PTL

-----------------------------------------------------------------------------
(* The timer.                                                              *)

\* Its two variables are what the last one to set a register has set.
TimerIsSet ==
  /\ offset = Offset(set["time"].value, set["time"].at)
  /\ set["cmp"].by # "none" => cmp = set["cmp"].value

LEMMA ZeroOffset == Offset(0, 0) = 0
<1>1. 0 = T * 0 + 0 /\ 0 \in Word
  BY ZeroIsWord, TPositive
<1> QED
  BY <1>1, RemainderIs DEF Offset

\* What a context set, with the time that has passed since.
LEMMA NowOfSet ==
  ASSUME NEW s \in Word, NEW v \in Word, NEW t \in Word
  PROVE  /\ (s + Offset(v, t)) % T = (v + s - t) % T
         /\ s = t => (s + Offset(v, t)) % T = v
<1>1. s \in Int /\ v \in Int /\ t \in Int
  BY WordIsInt
<1>2. (s + Offset(v, t)) % T = (s + (v - t)) % T
  BY <1>1, CutSummand DEF Offset
<1>3. s + (v - t) = v + s - t
  BY <1>1
<1>4. s = t => s + (v - t) = T * 0 + v
  BY <1>1, TPositive
<1> QED
  BY <1>1, <1>2, <1>3, <1>4, RemainderIs

LEMMA InitSet == Init => TimerIsSet
BY ZeroOffset DEF Init, TimerIsSet, NotSet, Regs

LEMMA StepSet == TypeOK /\ TimerIsSet /\ [Next]_vars => TimerIsSet'
<1> SUFFICES ASSUME TypeOK, TimerIsSet, [Next]_vars PROVE TimerIsSet'
  OBVIOUS
<1>1. ASSUME NEW c \in Contexts, RefcpuInit(c) PROVE TimerIsSet'
  <2>1. /\ set'["time"] = [by |-> c, value |-> 0, at |-> 0]
        /\ set'["cmp"] = [by |-> c, value |-> Ones, at |-> 0]
        /\ offset' = 0 /\ cmp' = Ones
    BY <1>1 DEF RefcpuInit, Sets, Regs
  <2> QED
    BY <2>1, ZeroOffset DEF TimerIsSet, Offset
<1>2. ASSUME NEW c \in live, NEW r \in Regs, NEW v \in Values,
             StoreTimer(c, r, v)
      PROVE TimerIsSet'
  <2>1. CASE r = "time"
    <3>1. /\ set'["time"] = [by |-> c, value |-> v, at |-> simTime[c]]
          /\ set'["cmp"] = set["cmp"]
          /\ offset' = Offset(v, simTime[c]) /\ cmp' = cmp
      BY <1>2, <2>1 DEF StoreTimer, Sets, Regs
    <3> QED
      BY <3>1 DEF TimerIsSet, Offset
  <2>2. CASE r = "cmp"
    <3>1. /\ set'["cmp"] = [by |-> c, value |-> v, at |-> simTime[c]]
          /\ set'["time"] = set["time"]
          /\ offset' = offset /\ cmp' = v
      BY <1>2, <2>2 DEF StoreTimer, Sets, Regs
    <3> QED
      BY <3>1 DEF TimerIsSet, Offset
  <2> QED
    BY <2>1, <2>2 DEF Regs
<1>3. ASSUME NEW c \in live, Sync(c) PROVE TimerIsSet'
  <2>1. DOMAIN words[c] = Regs
    BY DEF TypeOK
  <2>2. /\ set'["time"] =
              [by |-> c, value |-> words[c]["time"], at |-> simTime[c]]
        /\ set'["cmp"] =
              [by |-> c, value |-> words[c]["cmp"], at |-> simTime[c]]
        /\ offset' = Offset(words[c]["time"], simTime[c])
        /\ cmp' = words[c]["cmp"]
    BY <1>3, <2>1 DEF Sync, Sets, Regs
  <2> QED
    BY <2>2 DEF TimerIsSet, Offset
<1>4. CASE UNCHANGED <<offset, cmp, set>>
  BY <1>4 DEF TimerIsSet, Offset
<1>5. \/ UNCHANGED <<offset, cmp, set>>
      \/ \E c \in Contexts : RefcpuInit(c)
      \/ \E c \in live, r \in Regs, v \in Values : StoreTimer(c, r, v)
      \/ \E c \in live : Sync(c)
  BY DEF Next, Destroy, Switches, TakeForcedInterrupt, SetSimTime, StoreWord,
     SetIoWord, CopyIoWord, ClearIoWords, GetState, SetState, SetNextCsrRead,
     AccessCsr, timer, history, vars
<1> QED
  BY <1>1, <1>2, <1>3, <1>4, <1>5

LEMMA SetAlways == Spec => [](TypeOK /\ LeftIsArmed /\ TimerIsSet)
BY InitTyped, StepTyped, InitArmed, StepArmed, InitSet, StepSet, PTL DEF Spec

\* The context that has set the timer last reads its own, whatever the clock
\* and the switches have been through since.
THEOREM TimersAreOwn == Spec => []TimerIsOwn
<1>1. TypeOK /\ TimerIsSet => TimerIsOwn
  <2> SUFFICES ASSUME TypeOK, TimerIsSet, NEW c \in live
               PROVE  /\ set["time"].by = c =>
                           Now(c) = (set["time"].value + simTime[c]
                                       - set["time"].at) % T
                      /\ set["cmp"].by = c => cmp = set["cmp"].value
    BY DEF TimerIsOwn
  <2>1. /\ simTime[c] \in Word /\ set["time"].value \in Word
        /\ set["time"].at \in Word /\ c \in Contexts
    BY DEF TypeOK, Regs
  <2>2. Now(c) = (set["time"].value + simTime[c] - set["time"].at) % T
    BY <2>1, NowOfSet DEF Now, TimerIsSet
  <2> QED
    BY <2>1, <2>2, RefApiAssumption DEF TimerIsSet
<1> QED
  BY <1>1, SetAlways, PTL

-----------------------------------------------------------------------------
(* The copy of a context.                                                  *)

\* What a snapshot shows: MTIP, if it was due and could be made up.
SnapShowsMtip ==
  snap.on /\ snap.words["time"] >= snap.words["cmp"] => snap.mtip

\* A context that still has the snapshot's timer has set it to what the
\* snapshot shows, if it was the last to set it, and has its clock.
TimerIsSnap ==
  \A c \in Contexts :
    "timer" \in same[c] =>
      /\ simTime[c] = snap.simTime
      /\ set["time"].by = c =>
           /\ set["time"].value = snap.words["time"]
           /\ set["time"].at = snap.simTime
      /\ set["cmp"].by = c => set["cmp"].value = snap.words["cmp"]

StateIsSnap ==
  \A c \in Contexts : "state" \in same[c] => (c \in mtip <=> snap.mtip)

SnapIsKept == SnapShowsMtip /\ TimerIsSnap /\ StateIsSnap

LEMMA InitKept == Init => SnapIsKept
BY DEF Init, SnapIsKept, SnapShowsMtip, TimerIsSnap, StateIsSnap

LEMMA StepKept == TypeOK /\ SnapIsKept /\ [Next]_vars => SnapIsKept'
<1> SUFFICES ASSUME TypeOK, SnapIsKept, [Next]_vars PROVE SnapIsKept'
  OBVIOUS
<1>t. /\ live \subseteq Contexts
      /\ simTime \in [Contexts -> Word]
      /\ same \in [Contexts -> SUBSET {"state", "timer"}]
      /\ snap \in [words : [Regs -> Word], simTime : Word, mtip : BOOLEAN,
                   on : BOOLEAN]
  BY DEF TypeOK
<1>1. ASSUME NEW c \in live, GetState(c) PROVE SnapIsKept'
  <2>1. \A d \in Contexts : same'[d] = {}
    BY <1>1 DEF GetState
  <2>2. /\ snap'.words["time"] = Now(c) /\ snap'.words["cmp"] = cmp
        /\ snap'.mtip = VisibleMtip(c) /\ snap'.on = Synthesizes(c)
    BY <1>1 DEF GetState, IoWord, Regs
  <2> QED
    BY <2>1, <2>2
    DEF SnapIsKept, SnapShowsMtip, TimerIsSnap, StateIsSnap, VisibleMtip
<1>2. ASSUME UNCHANGED snap PROVE SnapShowsMtip'
  BY <1>2 DEF SnapIsKept, SnapShowsMtip
<1>3. ASSUME NEW c \in Contexts, RefcpuInit(c) PROVE SnapIsKept'
  <2>1. \A d \in Contexts : d # c =>
          /\ same'[d] = same[d] /\ simTime'[d] = simTime[d]
          /\ d \in mtip' <=> d \in mtip
          /\ set'["time"].by # d /\ set'["cmp"].by # d
    BY <1>3, <1>t DEF RefcpuInit, Sets, Regs
  <2>2. same'[c] = {} /\ UNCHANGED snap
    BY <1>3, <1>t DEF RefcpuInit
  <2> QED
    BY <1>2, <2>1, <2>2 DEF SnapIsKept, TimerIsSnap, StateIsSnap
<1>4. ASSUME NEW c \in live, NEW t \in Times, SetSimTime(c, t)
      PROVE SnapIsKept'
  <2>1. \A d \in Contexts : d # c =>
          same'[d] = same[d] /\ simTime'[d] = simTime[d]
    BY <1>4, <1>t DEF SetSimTime, Loses
  <2>2. /\ same'[c] = same[c] \ {"timer"}
        /\ UNCHANGED <<snap, mtip, set>>
    BY <1>4, <1>t DEF SetSimTime, Loses
  <2> QED
    BY <1>2, <2>1, <2>2 DEF SnapIsKept, TimerIsSnap, StateIsSnap
<1>5. ASSUME NEW c \in live, NEW r \in Regs, NEW v \in Values,
             StoreTimer(c, r, v), UNCHANGED <<simTime, mtip, snap>>
      PROVE SnapIsKept'
  <2>1. \A d \in Contexts : d # c =>
          /\ same'[d] = same[d]
          /\ \A x \in Regs : set'[x].by = d => set'[x] = set[x]
    BY <1>5, <1>t DEF StoreTimer, Sets, Loses
  <2>2. same'[c] = same[c] \ {"timer"}
    BY <1>5, <1>t DEF StoreTimer, Loses
  <2>3. \A d \in Contexts : "timer" \in same'[d] =>
          /\ d # c /\ "timer" \in same[d]
          /\ set'["time"].by = d => set'["time"] = set["time"]
          /\ set'["cmp"].by = d => set'["cmp"] = set["cmp"]
    BY <2>1, <2>2 DEF Regs
  <2>4. TimerIsSnap'
    BY <1>5, <2>3 DEF SnapIsKept, TimerIsSnap
  <2>5. StateIsSnap'
    BY <1>5, <2>1, <2>2 DEF SnapIsKept, StateIsSnap
  <2> QED
    BY <1>2, <1>5, <2>4, <2>5 DEF SnapIsKept
<1>6. ASSUME NEW c \in live, Sync(c) PROVE SnapIsKept'
  <2>1. DOMAIN words[c] = Regs /\ c \in Contexts
    BY DEF TypeOK
  <2>2. /\ set'["time"] =
              [by |-> c, value |-> words[c]["time"], at |-> simTime[c]]
        /\ set'["cmp"] =
              [by |-> c, value |-> words[c]["cmp"], at |-> simTime[c]]
        /\ UNCHANGED <<simTime, mtip, snap>>
    BY <1>6, <2>1 DEF Sync, Sets, Regs, contexts
  <2>3. \A d \in Contexts : d # c => same'[d] = same[d]
    BY <1>6, <1>t, <2>1 DEF Sync, Gains, Loses
  <2>4. "timer" \in same'[c] =>
          words[c] = snap.words /\ simTime[c] = snap.simTime
    BY <1>6, <1>t, <2>1 DEF Sync, Gains, Loses
  <2>5. "state" \in same'[c] => "state" \in same[c]
    BY <1>6, <1>t, <2>1 DEF Sync, Gains, Loses
  <2>6. TimerIsSnap'
    BY <2>1, <2>2, <2>3, <2>4 DEF SnapIsKept, TimerIsSnap
  <2>7. StateIsSnap'
    BY <2>1, <2>2, <2>3, <2>5 DEF SnapIsKept, StateIsSnap
  <2> QED
    BY <1>2, <2>2, <2>6, <2>7 DEF SnapIsKept
<1>7. ASSUME NEW c \in live, SetState(c) PROVE SnapIsKept'
  <2>1. /\ c \in mtip' <=> snap.mtip
        /\ \A d \in Contexts : d # c =>
             same'[d] = same[d] /\ (d \in mtip' <=> d \in mtip)
        /\ same'[c] = same[c] \cup {"state"}
        /\ UNCHANGED <<simTime, set, snap>>
    BY <1>7, <1>t DEF SetState, Switch, Gains, contexts
  <2> QED
    BY <1>2, <1>t, <2>1 DEF SnapIsKept, TimerIsSnap, StateIsSnap
<1>8. ASSUME NEW c \in live, NEW b \in BOOLEAN, TakeForcedInterrupt(c, b)
      PROVE SnapIsKept'
  <2>1. /\ \A d \in Contexts : d # c =>
             same'[d] = same[d] /\ (d \in mtip' <=> d \in mtip)
        /\ same'[c] = same[c] \ {"state"}
        /\ UNCHANGED <<simTime, set, snap>>
    BY <1>8, <1>t DEF TakeForcedInterrupt, Switch, Loses, contexts
  <2> QED
    BY <1>2, <1>t, <2>1 DEF SnapIsKept, TimerIsSnap, StateIsSnap
<1>9. CASE UNCHANGED <<simTime, mtip, set, snap, same>>
  BY <1>9 DEF SnapIsKept, SnapShowsMtip, TimerIsSnap, StateIsSnap
<1>10. \/ UNCHANGED <<simTime, mtip, set, snap, same>>
       \/ \E c \in Contexts : RefcpuInit(c)
       \/ \E c \in live : Sync(c) \/ GetState(c) \/ SetState(c)
       \/ \E c \in live, b \in BOOLEAN : TakeForcedInterrupt(c, b)
       \/ \E c \in live, t \in Times : SetSimTime(c, t)
       \/ \E c \in live, r \in Regs, v \in Values :
            StoreTimer(c, r, v) /\ UNCHANGED <<simTime, mtip, snap>>
  BY DEF Next, Destroy, Switches, StoreWord, SetIoWord, CopyIoWord,
     ClearIoWords, SetNextCsrRead, AccessCsr, history, vars
<1> QED
  BY <1>1, <1>3, <1>4, <1>5, <1>6, <1>7, <1>8, <1>9, <1>10

LEMMA KeptClone ==
  ASSUME TypeOK, TimerIsSet, SnapIsKept
  PROVE  CloneIsFaithful
<1> SUFFICES ASSUME NEW c \in live, same[c] = {"state", "timer"},
                    \A r \in Regs : set[r].by = c
             PROVE  /\ \A r \in Regs : IoWord(c, r) = snap.words[r]
                    /\ (Synthesizes(c) => snap.on) =>
                         VisibleMtip(c) = snap.mtip
  BY DEF CloneIsFaithful
<1>1. /\ c \in Contexts /\ c # "none"
      /\ simTime[c] \in Word /\ set["time"].value \in Word
      /\ set["time"].at \in Word
  BY RefApiAssumption DEF TypeOK, Regs
<1>2. /\ simTime[c] = snap.simTime
      /\ set["time"].value = snap.words["time"]
      /\ set["time"].at = snap.simTime
      /\ set["cmp"].value = snap.words["cmp"]
      /\ c \in mtip <=> snap.mtip
  BY <1>1 DEF SnapIsKept, TimerIsSnap, StateIsSnap, Regs
<1>3. Now(c) = snap.words["time"]
  BY <1>1, <1>2, NowOfSet DEF TimerIsSet, Now
<1>4. cmp = snap.words["cmp"]
  BY <1>1, <1>2 DEF TimerIsSet, Regs
<1>5. \A r \in Regs : IoWord(c, r) = snap.words[r]
  BY <1>3, <1>4 DEF IoWord, Regs
<1>6. snap.mtip \in BOOLEAN
  BY DEF TypeOK
<1>7. (Synthesizes(c) => snap.on) => (VisibleMtip(c) <=> snap.mtip)
  BY <1>2, <1>3, <1>4 DEF VisibleMtip, SnapIsKept, SnapShowsMtip
<1> QED
  BY <1>5, <1>6, <1>7 DEF VisibleMtip

\* A context that was given all another one showed shows the same, as long as
\* it has the timer and the state.
THEOREM ClonesAreFaithful == Spec => []CloneIsFaithful
<1>1. Spec => []SnapIsKept
  BY TypedAlways, InitKept, StepKept, PTL DEF Spec
<1>2. TypeOK /\ TimerIsSet /\ SnapIsKept => CloneIsFaithful
  BY KeptClone
<1> QED
  BY <1>1, <1>2, SetAlways, PTL

-----------------------------------------------------------------------------
(* The comparison with Spike. *)

\* What the guest has done explains where fcsr and the reservation differ.
Explained ==
  /\ "float" \in diff => "early float" \in odd
  /\ "resv" \in diff => odd \cap {"early lr", "reservation"} # {}

\* While the DUT is right, nothing of it differs unexplained, whether Spike
\* has joined or not, and what the comparison relies on is equal once it has.
AgreeInv ==
  /\ DifftestTypeOK
  /\ ~waiting
  /\ irq => interrupted
  /\ NoFalseAlarm
  /\ stop = "no" /\ bugs = {} =>
       /\ Explained
       /\ started => diff \cap {"regs", "prv", "mem"} = {}

LEMMA WritesType == ASSUME NEW k \in Kinds PROVE Writes(k) \subseteq Parts
BY DEF Writes, Parts

LEMMA BugsType ==
  ASSUME NEW k \in Kinds, NEW bug \in Bugs(k) PROVE bug \subseteq Parts
BY WritesType DEF Bugs, Parts

\* What is common to all steps: the history of the bugs and oddities.
LEMMA ExecutesType ==
  ASSUME DifftestTypeOK, NEW k \in Kinds, NEW bug \in Bugs(k), Executes(k, bug)
  PROVE  /\ pending' \in BOOLEAN /\ reserved' \in BOOLEAN
         /\ is_io' \in BOOLEAN /\ force_sync' \in BOOLEAN /\ irq' \in BOOLEAN
         /\ interrupted' \in BOOLEAN
         /\ (irq => interrupted) => (irq' => interrupted')
         /\ bugs' \subseteq Parts
         /\ odd' \subseteq {"early float", "early lr", "reservation", "pending"}
         /\ bugs' = {} => bugs = {} /\ bug = {}
         /\ odd \subseteq odd' /\ Oddity(k) \subseteq odd'
<1>1. bug \subseteq Parts
  BY BugsType
<1>2. pending' \in BOOLEAN
  BY DEF Executes, PendingAfter, DifftestTypeOK
<1>3. reserved' \in BOOLEAN
  BY DEF Executes, ReservedAfter, DifftestTypeOK
<1>4. Oddity(k) \subseteq {"early float", "early lr", "reservation", "pending"}
  BY DEF Oddity
<1>5. irq' \in BOOLEAN /\ interrupted' \in BOOLEAN
      /\ ((irq => interrupted) => (irq' => interrupted'))
  BY DEF Executes, IrqAfter, DifftestTypeOK
<1>6. is_io' \in BOOLEAN
  BY DEF Executes, FlagAfter, IsIo
<1>7. force_sync' \in BOOLEAN
  BY DEF Executes, FlagAfter, ForceSync
<1> QED
  BY <1>1, <1>2, <1>3, <1>4, <1>5, <1>6, <1>7 DEF Executes, DifftestTypeOK

\* A step that is copied is the DUT's own: no other leaves a flag up.
LEMMA CopiedIsOwned ==
  ASSUME DifftestTypeOK, irq => interrupted, NEW k \in Kinds,
         NEW bug \in Bugs(k), Executes(k, bug), is_io' \/ force_sync'
  PROVE  k \in IoAccess \cup Traps \cup {"mipwrite"}
         /\ (\/ k \in IoAccess \cup {"irq", "mipwrite", "lowfault"}
             \/ k = "fetchfault" /\ interrupted)
<1>1. CASE is_io'
  BY <1>1 DEF Executes, FlagAfter, IsIo, Traps
<1>2. CASE force_sync'
  <2>1. k = "mipwrite" \/ (k \in Traps /\ irq')
    BY <1>2 DEF Executes, FlagAfter, ForceSync
  <2>2. irq' => k = "irq" \/ (k = "fetchfault" /\ irq)
    BY DEF Executes, IrqAfter
  <2> QED
    BY <2>1, <2>2 DEF Traps
<1> QED
  BY <1>1, <1>2

\* fcsr and the reservation are written with an excuse before Spike joins,
\* and after it by what Spike does not execute.
LEMMA WritesExplained ==
  ASSUME NEW k \in Kinds,
         ~started \/ k \in IoAccess \cup Traps \cup {"mipwrite"}
  PROVE  /\ "float" \in Writes(k) => "early float" \in Oddity(k)
         /\ "resv" \in Writes(k) =>
              Oddity(k) \cap {"early lr", "reservation"} # {}
BY DEF Writes, Oddity, IoAccess, Traps

LEMMA BootAgrees ==
  ASSUME AgreeInv, NEW k \in Kinds, NEW bug \in Bugs(k), Boot(k, bug)
  PROVE  AgreeInv'
<1>1. DifftestTypeOK /\ Executes(k, bug) /\ bug \subseteq Parts
  BY BugsType DEF AgreeInv, Boot
<1>2. DifftestTypeOK'
  BY <1>1, ExecutesType, WritesType DEF Boot, DifftestTypeOK, Synced, Joined,
     Parts
<1>3. ~waiting' /\ NoFalseAlarm' /\ (irq' => interrupted')
  BY <1>1, ExecutesType DEF Boot, AgreeInv, NoFalseAlarm, Executes
<1>4. ASSUME bugs' = {}
      PROVE  Explained' /\ (started' => diff' \cap {"regs", "prv", "mem"} = {})
  <2>1. bugs = {} /\ bug = {} /\ odd \subseteq odd' /\ Oddity(k) \subseteq odd'
    BY <1>1, <1>4, ExecutesType
  <2>2. Explained
    BY <1>1, <2>1 DEF AgreeInv, Executes
  <2>3. Explained'
    BY <2>1, <2>2, WritesExplained DEF Boot, Explained
  <2> QED
    BY <2>3 DEF Boot, Synced, Joined
<1> QED
  BY <1>2, <1>3, <1>4 DEF AgreeInv

LEMMA CopyAgrees ==
  ASSUME AgreeInv, NEW k \in Kinds, NEW bug \in Bugs(k), Copy(k, bug)
  PROVE  AgreeInv'
<1>1. DifftestTypeOK /\ Executes(k, bug) /\ bug \subseteq Parts
  BY BugsType DEF AgreeInv, Copy
<1>2. DifftestTypeOK'
  BY <1>1, ExecutesType, WritesType
  DEF Copy, DifftestTypeOK, DiffAfterSync, Synced, Parts
<1>3. ~waiting' /\ NoFalseAlarm' /\ (irq' => interrupted')
  BY <1>1, ExecutesType DEF Copy, AgreeInv, NoFalseAlarm, Executes
<1>4. ASSUME bugs' = {}
      PROVE  Explained' /\ diff' \cap {"regs", "prv", "mem"} = {}
  <2>1. bugs = {} /\ bug = {} /\ odd \subseteq odd' /\ Oddity(k) \subseteq odd'
    BY <1>1, <1>4, ExecutesType
  <2>2. Explained /\ diff \cap {"regs", "prv", "mem"} = {}
    BY <1>1, <2>1 DEF AgreeInv, Executes, Copy
  <2>3. diff' \subseteq diff \cup Writes(k)
    BY <2>1 DEF Copy, DiffAfterSync
  <2>4. k \in IoAccess \cup Traps \cup {"mipwrite"}
    BY <1>1, CopiedIsOwned DEF Copy, AgreeInv
  <2>5. Explained'
    BY <2>1, <2>2, <2>3, <2>4, WritesExplained DEF Copy, Explained
  <2>6. "mem" \in Writes(k) => k = "dma"
    BY <2>4 DEF Writes, IoAccess, Traps
  <2>7. diff' \cap {"regs", "prv", "mem"} = {}
    BY <2>1, <2>2, <2>6 DEF Copy, DiffAfterSync, Synced, CopiedByDma
  <2> QED
    BY <2>5, <2>7
<1> QED
  BY <1>2, <1>3, <1>4 DEF AgreeInv

\* What of the parts may differ after a step of both that neither spoilt.
LEMMA CompareAgrees ==
  ASSUME AgreeInv, NEW k \in Kinds, NEW bug \in Bugs(k), Compare(k, bug)
  PROVE  AgreeInv'
<1>1. DifftestTypeOK /\ Executes(k, bug) /\ bug \subseteq Parts /\ ~waiting
  BY BugsType DEF AgreeInv, Compare
<1> DEFINE kept == diff \ (Writes(k) \cup {"regs"})
           lost == IF k = "own" THEN {"resv"} ELSE {}
<1>2. PICK t \in SUBSET Tainted(k, bug) :
        /\ k = "sc" /\ "mem" \in t => "regs" \in t
        /\ diff' = kept \cup bug \cup lost \cup t
  BY <1>1 DEF Compare, DiffsAfterStep
<1>3. Tainted(k, bug) \subseteq bug \cup Writes(k) \cup {"regs"}
  BY DEF Tainted
<1>4. diff' \subseteq Parts
  BY <1>1, <1>2, <1>3, WritesType DEF DifftestTypeOK, Parts
<1>5. DifftestTypeOK'
  BY <1>1, <1>4, ExecutesType DEF Compare, DifftestTypeOK, WaitingAfter
<1>6. ~waiting' /\ (irq' => interrupted')
  BY <1>1, ExecutesType DEF Compare, WaitingAfter, AgreeInv
<1>7. ASSUME bugs' = {}
      PROVE  /\ "regs" \in diff' => odd' # {}
             /\ "regs" \notin diff' =>
                  Explained' /\ diff' \cap {"regs", "prv", "mem"} = {}
  <2>1. bugs = {} /\ bug = {} /\ odd \subseteq odd' /\ Oddity(k) \subseteq odd'
    BY <1>1, <1>7, ExecutesType
  <2>2. Explained /\ diff \cap {"regs", "prv", "mem"} = {} /\ started
    BY <1>1, <2>1 DEF AgreeInv, Executes, Compare
  <2>3. CASE Reads(k) \cap diff = {} /\ ~(k = "mipread" /\ pending)
    <3>1. t \subseteq diff
      BY <2>1, <2>3 DEF Tainted
    <3>2. "regs" \notin diff' /\ diff' \cap {"regs", "prv", "mem"} = {}
      BY <1>2, <2>1, <2>2, <3>1
    <3>3. k = "own" => "reservation" \in odd'
      BY <2>1 DEF Oddity
    <3> QED
      BY <1>2, <2>1, <2>2, <3>1, <3>2, <3>3 DEF Explained
  <2>4. CASE k = "mipread" /\ pending
    <3>1. "pending" \in odd' /\ Writes(k) = {}
      BY <2>1, <2>2, <2>4 DEF Oddity, Writes, Traps
    <3>2. diff' \subseteq diff \cup {"regs"}
      BY <1>2, <1>3, <2>1, <2>4, <3>1
    <3> QED
      BY <2>1, <2>2, <3>1, <3>2 DEF Explained
  <2>5. CASE Reads(k) \cap diff # {}
    <3>1. \/ k = "float" /\ "float" \in diff
          \/ k = "sc" /\ "resv" \in diff
      BY <2>2, <2>5 DEF Reads
    <3>2. CASE k = "float" /\ "float" \in diff
      <4>1. diff' \subseteq diff \cup {"regs", "float"}
        BY <1>2, <1>3, <2>1, <3>2 DEF Writes, Traps
      <4> QED
        BY <2>1, <2>2, <3>2, <4>1 DEF Explained
    <3>3. CASE k = "sc" /\ "resv" \in diff
      <4>1. /\ diff' \subseteq diff \cup {"regs", "mem", "resv"}
            /\ "mem" \in diff' => "regs" \in diff'
        BY <1>2, <1>3, <2>1, <2>2, <3>3 DEF Writes, Traps
      <4> QED
        BY <2>1, <2>2, <3>3, <4>1 DEF Explained
    <3> QED
      BY <3>1, <3>2, <3>3
  <2> QED
    BY <2>3, <2>4, <2>5
<1> QED
  BY <1>5, <1>6, <1>7 DEF AgreeInv, NoFalseAlarm, Compare

LEMMA EndAgrees ==
  ASSUME AgreeInv, End \/ (\E bug \in Bugs("dma") : ThrowOnDma(bug))
  PROVE  AgreeInv'
<1>1. CASE End
  <2>1. PICK k \in {"plain", "iostore"} : \E bug \in Bugs(k) :
          /\ Executes(k, bug)
          /\ stop' = "ended"
          /\ last' = [kind |-> k, bug |-> bug, checked |-> FALSE]
          /\ UNCHANGED <<where, started, diff, waiting>>
    BY <1>1 DEF End
  <2>2. k \in Kinds
    BY <2>1 DEF Kinds, Compute, IoAccess
  <2>3. PICK bug \in Bugs(k) :
          /\ Executes(k, bug)
          /\ stop' = "ended"
          /\ last' = [kind |-> k, bug |-> bug, checked |-> FALSE]
          /\ UNCHANGED <<where, started, diff, waiting>>
    BY <2>1
  <2> QED
    BY <2>2, <2>3, BugsType, ExecutesType DEF AgreeInv, DifftestTypeOK, NoFalseAlarm
<1>2. ASSUME NEW bug \in Bugs("dma"), ThrowOnDma(bug)
      PROVE  AgreeInv'
  <2>1. "dma" \in Kinds
    BY DEF Kinds, IoAccess
  <2> QED
    BY <1>2, <2>1, BugsType, ExecutesType
    DEF AgreeInv, DifftestTypeOK, NoFalseAlarm, ThrowOnDma, Parts
<1> QED
  BY <1>1, <1>2

LEMMA Agrees == DifftestSpec => []AgreeInv
<1>1. DifftestInit => AgreeInv
  <2>1. NoStep \in [kind : Kinds, bug : SUBSET Parts, checked : BOOLEAN]
    BY DEF NoStep, Kinds, Compute
  <2> QED
    BY <2>1 DEF DifftestInit, AgreeInv, DifftestTypeOK, NoFalseAlarm, Explained, Parts
<1>2. AgreeInv /\ [DifftestNext]_difftestVars => AgreeInv'
  <2>1. ASSUME AgreeInv, UNCHANGED difftestVars PROVE AgreeInv'
    <3>1. DifftestTypeOK' /\ NoFalseAlarm' /\ (Explained => Explained')
      BY <2>1, ZenonT(60) DEF difftestVars, flags, AgreeInv, DifftestTypeOK,
         NoFalseAlarm, Explained
    <3>2. ~waiting' /\ (irq' => interrupted')
      BY <2>1, Zenon DEF difftestVars, flags, AgreeInv
    <3> QED
      BY <2>1, <3>1, <3>2 DEF difftestVars, AgreeInv
  <2> QED
    BY <2>1, BootAgrees, CopyAgrees, CompareAgrees, EndAgrees DEF DifftestNext
<1> QED
  BY <1>1, <1>2, PTL DEF DifftestSpec

\* The types are right.
THEOREM ComparisonTypeCorrect == DifftestSpec => []DifftestTypeOK
<1>1. AgreeInv => DifftestTypeOK
  BY DEF AgreeInv
<1> QED
  BY <1>1, Agrees, PTL

\* No mismatch is an artefact of what is copied to Spike and when.
THEOREM AlarmsAreReal == DifftestSpec => []NoFalseAlarm
<1>1. AgreeInv => NoFalseAlarm
  BY DEF AgreeInv
<1> QED
  BY <1>1, Agrees, PTL

\* Spike never runs on a memory or a privilege that has gone wrong unseen.
THEOREM HiddenAgrees == DifftestSpec => []HiddenStateAgrees
<1>1. AgreeInv => HiddenStateAgrees
  BY DEF AgreeInv, HiddenStateAgrees, Explained
<1> QED
  BY <1>1, Agrees, PTL

\* A wrong register of a step that is not the DUT's own is reported on that
\* step: is_io and force_sync tell nothing of the steps before it, and the
\* flags of the interrupts only where a fetch fault follows one.
THEOREM WrongRegistersAreCaught == DifftestSpec => BugsAreCaught
<1>1. ASSUME AgreeInv, DifftestNext, started, "regs" \in last'.bug,
             ~Owned(last', interrupted)
      PROVE  stop' \in {"failed", "ended"}
  <2>1. CASE End
    BY <2>1 DEF End
  <2>2. ASSUME NEW k \in Kinds, NEW bug \in Bugs(k), Boot(k, bug) PROVE FALSE
    BY <1>1, <2>2 DEF Boot
  <2>3. ASSUME NEW k \in Kinds, NEW bug \in Bugs(k), Copy(k, bug) PROVE FALSE
    <3>1. last'.kind = k /\ Executes(k, bug) /\ (is_io' \/ force_sync')
      BY <2>3 DEF Copy
    <3>2. \/ k \in IoAccess \cup {"irq", "mipwrite", "lowfault"}
          \/ k = "fetchfault" /\ interrupted
      BY <1>1, <3>1, CopiedIsOwned DEF AgreeInv
    <3> QED
      BY <1>1, <3>1, <3>2 DEF Owned
  <2>4. ASSUME NEW k \in Kinds, NEW bug \in Bugs(k), Compare(k, bug)
        PROVE  stop' = "failed"
    <3>1. "regs" \in bug
      BY <1>1, <2>4 DEF Compare
    <3>2. bug \subseteq diff'
      BY <1>1, <2>4 DEF Compare, DiffsAfterStep, AgreeInv
    <3> QED
      BY <2>4, <3>1, <3>2 DEF Compare
  <2>5. ASSUME NEW bug \in Bugs("dma"), ThrowOnDma(bug) PROVE FALSE
    BY <1>1, <2>5 DEF ThrowOnDma, Owned, IoAccess
  <2> QED
    BY <1>1, <2>1, <2>2, <2>3, <2>4, <2>5 DEF DifftestNext
<1>2. AgreeInv /\ [DifftestNext]_difftestVars =>
        [started /\ "regs" \in last'.bug /\ ~Owned(last', interrupted)
           => stop' \in {"failed", "ended"}]_difftestVars
  BY <1>1
<1> QED
  BY <1>2, Agrees, PTL DEF DifftestSpec, BugsAreCaught
=============================================================================
