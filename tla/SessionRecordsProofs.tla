-------------------------- MODULE SessionRecordsProofs --------------------------
(***************************************************************************)
(* What the records of a session are worth, for any number of experiments,  *)
(* runs, crashes and failing writes.                                        *)
(***************************************************************************)
EXTENDS SessionRecords, SequenceTheorems, WellFoundedInduction, TLAPS

USE BoundsAssumption
-----------------------------------------------------------------------------
(* The commands on their way, and what they leave in force.                 *)

LEMMA AfterIsOne ==
    ASSUME NEW s, NEW n \in Nat, NEW now, NEW what, NEW v, NEW w,
           After(s, n, now, what, v), After(s, n, now, what, w)
    PROVE  v = w
<1>1. CASE \A j \in 1 .. n : s[j].what # what
  BY <1>1 DEF After
<1>2. ASSUME NEW i \in 1 .. n, s[i].what = what, s[i].value = v, \A k \in i + 1 .. n : s[k].what # what,
             NEW j \in 1 .. n, s[j].what = what, s[j].value = w, \A k \in j + 1 .. n : s[k].what # what
      PROVE  v = w
  <2>1. i = j
    <3>1. ~(i < j)
      BY <1>2
    <3>2. ~(j < i)
      BY <1>2
    <3> QED BY <3>1, <3>2
  <2> QED BY <1>2, <2>1
<1> QED BY <1>1, <1>2 DEF After

\* Commands posted later leave in force what was, up to them ...
LEMMA AfterConcat ==
    ASSUME NEW s \in Seq(Calls), NEW cs \in Seq(Calls), NEW n \in 0 .. Len(s),
           NEW now, NEW what, NEW v
    PROVE  After(s \o cs, n, now, what, v) <=> After(s, n, now, what, v)
<1>1. PICK t : t = s \o cs
  OBVIOUS
<1>2. /\ n \in Nat /\ \A i \in 1 .. n : t[i] = s[i]
      /\ \A j \in 1 .. n : \A k \in j + 1 .. n : t[k] = s[k]
  <2>1. \A i \in 1 .. Len(s) : t[i] = s[i]
    BY <1>1, ConcatProperties, LenProperties
  <2>2. Len(s) \in Nat
    BY LenProperties
  <2> QED BY <2>1, <2>2
<1>3. After(t, n, now, what, v) <=> After(s, n, now, what, v)
  BY <1>2, SMTT(60) DEF After
<1> QED BY <1>1, <1>3

\* ... and what none of them is about.
LEMMA AfterOthers ==
    ASSUME NEW s \in Seq(Calls), NEW cs \in Seq(Calls), NEW now, NEW what, NEW v,
           \A j \in 1 .. Len(cs) : cs[j].what # what,
           After(s, Len(s), now, what, v)
    PROVE  After(s \o cs, Len(s \o cs), now, what, v)
<1>1. PICK t : t = s \o cs
  OBVIOUS
<1>2. /\ Len(s) \in Nat /\ Len(cs) \in Nat /\ Len(t) = Len(s) + Len(cs)
      /\ \A i \in 1 .. Len(s) : t[i] = s[i]
      /\ \A i \in Len(s) + 1 .. Len(t) : t[i] = cs[i - Len(s)]
  BY <1>1, ConcatProperties, LenProperties
<1>3. \A i \in Len(s) + 1 .. Len(t) : t[i].what # what
  <2>1. ASSUME NEW i \in Len(s) + 1 .. Len(t)  PROVE t[i].what # what
    <3>1. i - Len(s) \in 1 .. Len(cs)
      BY <1>2
    <3> QED BY <1>2, <3>1
  <2> QED BY <2>1
<1>4. CASE now = v /\ \A j \in 1 .. Len(s) : s[j].what # what
  <2>1. \A j \in 1 .. Len(t) : t[j].what # what
    <3>1. \A j \in 1 .. Len(t) : j \in 1 .. Len(s) \/ j \in Len(s) + 1 .. Len(t)
      BY <1>2
    <3> QED BY <1>2, <1>3, <1>4, <3>1
  <2> QED BY <1>1, <1>4, <2>1 DEF After
<1>5. ASSUME NEW j \in 1 .. Len(s), s[j].what = what, s[j].value = v,
             \A k \in j + 1 .. Len(s) : s[k].what # what
      PROVE  After(t, Len(t), now, what, v)
  <2>1. j \in 1 .. Len(t) /\ t[j].what = what /\ t[j].value = v
    BY <1>2, <1>5
  <2>2. ASSUME NEW k \in j + 1 .. Len(t)  PROVE t[k].what # what
    <3>1. CASE k \in j + 1 .. Len(s)
      <4>1. k \in 1 .. Len(s)
        BY <1>2, <1>5, <3>1
      <4> QED BY <1>2, <1>5, <3>1, <4>1
    <3>2. CASE k \in Len(s) + 1 .. Len(t)
      BY <1>3, <3>2
    <3>3. k \in j + 1 .. Len(s) \/ k \in Len(s) + 1 .. Len(t)
      BY <1>2, <1>5
    <3> QED BY <3>1, <3>2, <3>3
  <2> QED BY <2>1, <2>2 DEF After
<1> QED BY <1>1, <1>4, <1>5 DEF After

\* The last command about a matter decides it.
LEMMA AfterLast ==
    ASSUME NEW s \in Seq(Calls), NEW cs \in Seq(Calls), NEW now, NEW what, NEW v,
           NEW i \in 1 .. Len(cs), cs[i].what = what, cs[i].value = v,
           \A j \in i + 1 .. Len(cs) : cs[j].what # what
    PROVE  After(s \o cs, Len(s \o cs), now, what, v)
<1>1. PICK t : t = s \o cs
  OBVIOUS
<1>2. /\ Len(s) \in Nat /\ Len(cs) \in Nat /\ Len(t) = Len(s) + Len(cs)
      /\ \A k \in Len(s) + 1 .. Len(t) : t[k] = cs[k - Len(s)]
  BY <1>1, ConcatProperties, LenProperties
<1>3. PICK m : m = Len(s) + i
  OBVIOUS
<1>4. m \in Len(s) + 1 .. Len(t) /\ m \in 1 .. Len(t) /\ m - Len(s) = i
  BY <1>2, <1>3
<1>5. t[m].what = what /\ t[m].value = v
  BY <1>2, <1>4
<1>6. ASSUME NEW k \in m + 1 .. Len(t)  PROVE t[k].what # what
  <2>1. k \in Len(s) + 1 .. Len(t) /\ k - Len(s) \in i + 1 .. Len(cs)
    BY <1>2, <1>3
  <2> QED BY <1>2, <2>1
<1> QED BY <1>1, <1>4, <1>5, <1>6 DEF After

\* Taking the first command installs it.
LEMMA AfterTake ==
    ASSUME NEW s \in Seq(Calls), s # <<>>, NEW n \in 1 .. Len(s), NEW now, NEW what, NEW v,
           NEW then, then = IF s[1].what = what THEN s[1].value ELSE now
    PROVE  After(Tail(s), n - 1, then, what, v) <=> After(s, n, now, what, v)
<1>1. PICK t : t = Tail(s)
  OBVIOUS
<1>2. Len(s) \in Nat /\ Len(t) = Len(s) - 1 /\ \A i \in 1 .. Len(s) - 1 : t[i] = s[i + 1]
  BY <1>1, HeadTailProperties, LenProperties, EmptySeq
<1>3. \A i \in 1 .. n - 1 : i + 1 \in 2 .. n /\ t[i] = s[i + 1]
  BY <1>2
<1>4. \A i \in 2 .. n : i - 1 \in 1 .. n - 1 /\ t[i - 1] = s[i]
  BY <1>3
<1>5. ASSUME After(t, n - 1, then, what, v)  PROVE After(s, n, now, what, v)
  <2>1. CASE then = v /\ \A j \in 1 .. n - 1 : t[j].what # what
    <3>1. \A j \in 2 .. n : s[j].what # what
      BY <1>4, <2>1
    <3>2. CASE s[1].what = what
      <4>1. s[1].value = v /\ \A k \in 1 + 1 .. n : s[k].what # what
        BY <2>1, <3>1, <3>2
      <4> QED BY <3>2, <4>1 DEF After
    <3>3. CASE s[1].what # what
      <4>1. now = v /\ \A j \in 1 .. n : s[j].what # what
        BY <2>1, <3>1, <3>3
      <4> QED BY <4>1 DEF After
    <3> QED BY <3>2, <3>3
  <2>2. ASSUME NEW j \in 1 .. n - 1, t[j].what = what, t[j].value = v,
               \A k \in j + 1 .. n - 1 : t[k].what # what
        PROVE  After(s, n, now, what, v)
    <3> PICK m : m = j + 1
      OBVIOUS
    <3>1. m \in 1 .. n /\ s[m].what = what /\ s[m].value = v
      BY <1>3, <2>2
    <3>2. ASSUME NEW k \in m + 1 .. n  PROVE s[k].what # what
      <4>1. k \in 2 .. n /\ k - 1 \in j + 1 .. n - 1
        OBVIOUS
      <4> QED BY <1>4, <2>2, <4>1
    <3> QED BY <3>1, <3>2 DEF After
  <2> QED BY <1>5, <2>1, <2>2 DEF After
<1>6. ASSUME After(s, n, now, what, v)  PROVE After(t, n - 1, then, what, v)
  <2>1. CASE now = v /\ \A j \in 1 .. n : s[j].what # what
    <3>1. then = v
      BY <2>1
    <3>2. \A j \in 1 .. n - 1 : t[j].what # what
      BY <1>3, <2>1
    <3> QED BY <3>1, <3>2 DEF After
  <2>2. ASSUME NEW j \in 1 .. n, s[j].what = what, s[j].value = v,
               \A k \in j + 1 .. n : s[k].what # what
        PROVE  After(t, n - 1, then, what, v)
    <3>1. CASE j = 1
      <4>1. then = v /\ \A i \in 1 .. n - 1 : t[i].what # what
        BY <1>3, <2>2, <3>1, SMTT(30)
      <4> QED BY <4>1 DEF After
    <3>2. CASE j # 1
      <4> PICK m : m = j - 1
        OBVIOUS
      <4>1. m \in 1 .. n - 1 /\ t[m].what = what /\ t[m].value = v
        BY <1>4, <2>2, <3>2
      <4>2. ASSUME NEW k \in m + 1 .. n - 1  PROVE t[k].what # what
        <5>1. k + 1 \in j + 1 .. n /\ k \in 1 .. n - 1
          BY <3>2
        <5>2. s[k + 1].what # what /\ t[k] = s[k + 1]
          BY <1>3, <2>2, <5>1
        <5> QED BY <5>2
      <4> QED BY <4>1, <4>2 DEF After
    <3> QED BY <3>1, <3>2
  <2> QED BY <1>6, <2>1, <2>2 DEF After
<1> QED BY <1>1, <1>5, <1>6
-----------------------------------------------------------------------------
(* The highest number of a folder.                                          *)

LEMMA MaxIsHighest ==
    ASSUME NEW m \in Nat, NEW S, S \subseteq 0 .. m, S # {}
    PROVE  Max(S) \in S /\ \A y \in S : y <= Max(S)
<1> DEFINE T == {m - x : x \in S}
<1>1. T \subseteq Nat /\ T # {}
  <2>1. T \subseteq Nat
    OBVIOUS
  <2>2. PICK a : a \in S
    OBVIOUS
  <2>3. m - a \in T
    BY <2>2
  <2> QED BY <2>1, <2>3
<1>2. PICK x \in T : \A y \in T : ~(<<y, x>> \in OpToRel(<, Nat))
  BY <1>1, NatLessThanWellFounded, WFMin
<1>3. \A y \in T : ~(y < x)
  BY <1>1, <1>2 DEF OpToRel
<1>4. PICK h \in S : x = m - h
  BY <1>2
<1>5. \A y \in S : h >= y
  <2>1. ASSUME NEW y \in S  PROVE h >= y
    <3>1. m - y \in T
      OBVIOUS
    <3>2. ~(m - y < m - h)
      BY <1>3, <1>4, <3>1
    <3> QED BY <3>2
  <2> QED BY <2>1
<1>6. Max(S) \in S /\ \A y \in S : Max(S) >= y
  BY <1>4, <1>5 DEF Max
<1>7. S \subseteq Int
  OBVIOUS
<1> QED BY <1>6, <1>7
-----------------------------------------------------------------------------
(* Types, numbers, and what is shown of the store.                          *)

\* Every number that was given belongs to a file, and the files of a folder are
\* numbered without a gap.
NumbersAreTaken == \A r \in DOMAIN history : history[r].number \in files[history[r].folder]
FilesAreDense   == \A e \in Experiments : \E k \in Nat : files[e] = 1 .. k

Ind ==
    /\ TypeOK /\ NumbersAreTaken /\ FilesAreDense /\ NumbersAreUnique
    /\ NothingSilentlyStale

LEMMA CallsTyped ==
    /\ \A b \in BOOLEAN : Call("bounded", b) \in Calls /\ Call("attended", b) \in Calls
    /\ \A e \in Experiments \cup {0} : Call("folder", e) \in Calls
    /\ Call("run", 0) \in Calls
<1>1. \A b \in BOOLEAN : Call("bounded", b) \in Calls /\ Call("attended", b) \in Calls
  BY DEF Call, Calls, Settings
<1>2. \A e \in Experiments \cup {0} : Call("folder", e) \in Calls
  BY DEF Call, Calls
<1>3. Call("run", 0) \in Calls
  BY DEF Call, Calls
<1> QED BY <1>1, <1>2, <1>3

LEMMA InstallTyped ==
    ASSUME NEW e \in Experiments, NEW r \in Records
    PROVE  /\ Install(e, r) \in Seq(Calls) /\ Len(Install(e, r)) = 3
           /\ Install(e, r)[1] = Call("bounded", r.bounded)
           /\ Install(e, r)[2] = Call("attended", r.attended)
           /\ Install(e, r)[3] = Call("folder", e)
<1>1. r.bounded \in BOOLEAN /\ r.attended \in BOOLEAN
  BY DEF Records
<1>2. PICK c1 \in Calls, c2 \in Calls, c3 \in Calls :
        c1 = Call("bounded", r.bounded) /\ c2 = Call("attended", r.attended) /\ c3 = Call("folder", e)
  BY <1>1, CallsTyped
<1>3. Install(e, r) = <<c1, c2, c3>>
  BY <1>2 DEF Install
<1>4. <<c1, c2, c3>> \in Seq(Calls)
  OBVIOUS
<1> QED BY <1>2, <1>3, <1>4

\* What the manager and the application's end do, as far as the numbers go.
LEMMA OthersKeepNumbers ==
    ASSUME Ind, files' = files, DOMAIN history' = DOMAIN history,
           \A r \in DOMAIN history : /\ history'[r].number = history[r].number
                                      /\ history'[r].folder = history[r].folder
    PROVE  NumbersAreTaken' /\ FilesAreDense' /\ NumbersAreUnique'
BY DEF Ind, NumbersAreTaken, FilesAreDense, NumbersAreUnique

LEMMA ManagerKeeps ==
    ASSUME Ind, UNCHANGED <<files, engine, history, news>>,
           disk' \in [Experiments -> Records], record' \in Records,
           {pointer', current'} \subseteq Experiments \cup {0}, saveOk' \in BOOLEAN,
           calls' \in Seq(Calls), apart' \subseteq Settings \cup {"folder"}, adrift' \subseteq Experiments,
           troubles' \in 0 .. MaxTroubles, changes' \in Nat,
           saveOk' /\ current' # 0 => disk'[current'] = record'
    PROVE  Ind'
<1>1. TypeOK'
  <2>1. /\ files' \in [Experiments -> SUBSET Nat]
        /\ engine' \in [attended : BOOLEAN, bounded : BOOLEAN, folder : Experiments \cup {0}]
        /\ news' \in Seq([kind : {"started", "owner", "ended"}, run : Nat \ {0}])
        /\ \A i \in DOMAIN news' : news'[i].run \in DOMAIN history'
        /\ history' \in Seq([folder : Experiments, number : Nat, fate : Fates])
    BY DEF Ind, TypeOK
  <2> QED BY <2>1 DEF TypeOK
<1>2. NumbersAreTaken' /\ FilesAreDense' /\ NumbersAreUnique'
  BY OthersKeepNumbers
<1> QED BY <1>1, <1>2 DEF Ind, NothingSilentlyStale

LEMMA PlainTypes ==
    ASSUME Ind
    PROVE  /\ disk \in [Experiments -> Records] /\ record \in Records
           /\ pointer \in Experiments \cup {0} /\ current \in Experiments \cup {0}
           /\ saveOk \in BOOLEAN /\ calls \in Seq(Calls)
           /\ apart \subseteq Settings \cup {"folder"} /\ adrift \subseteq Experiments
           /\ troubles \in 0 .. MaxTroubles /\ changes \in Nat
           /\ engine \in [attended : BOOLEAN, bounded : BOOLEAN, folder : Experiments \cup {0}]
           /\ MaxExperiments \in Nat /\ Experiments \subseteq Nat \ {0}
<1>1. MaxExperiments \in Nat /\ Experiments \subseteq Nat \ {0}
  BY DEF Experiments
<1> QED BY <1>1 DEF Ind, TypeOK

LEMMA Spending ==
    ASSUME troubles \in 0 .. MaxTroubles, NEW n \in Nat, Spend(n)
    PROVE  troubles' \in 0 .. MaxTroubles
BY DEF Spend

LEMMA Posting ==
    ASSUME Ind, NEW cs \in Seq(Calls), Post(cs)
    PROVE  calls' \in Seq(Calls)
BY PlainTypes, ConcatProperties DEF Post

LEMMA Changing ==
    ASSUME Ind, Change
    PROVE  changes' \in Nat
<1>1. changes \in Nat
  BY PlainTypes
<1> QED BY <1>1 DEF Change

\* A record that is written is on the disk, or its failure is shown.
LEMMA Saving ==
    ASSUME Ind, NEW e \in Experiments, NEW r \in Records, NEW ok \in BOOLEAN, Written(e, r, ok)
    PROVE  /\ disk' \in [Experiments -> Records] /\ saveOk' = ok
           /\ ok => disk'[e] = r
           /\ \A x \in Experiments \ {e} : disk'[x] = disk[x]
           /\ ~ok => disk' = disk
BY PlainTypes DEF Written

LEMMA SavingTheCurrent ==
    ASSUME Ind, NEW e \in Experiments, NEW r \in Records, SaveCurrent(e, r)
    PROVE  /\ disk' \in [Experiments -> Records] /\ saveOk' \in BOOLEAN
           /\ saveOk' => disk'[e] = r
           /\ \A x \in Experiments \ {e} : disk'[x] = disk[x]
           /\ disk'[e] \in {disk[e], r}
           /\ troubles' \in 0 .. MaxTroubles
<1>1. PICK ok \in BOOLEAN : Written(e, r, ok) /\ Spend(Failed(ok))
  BY DEF SaveCurrent
<1>2. Failed(ok) \in Nat
  BY DEF Failed
<1>3. troubles' \in 0 .. MaxTroubles
  BY <1>1, <1>2, PlainTypes, Spending
<1>4. /\ disk' \in [Experiments -> Records] /\ saveOk' = ok
      /\ ok => disk'[e] = r
      /\ \A x \in Experiments \ {e} : disk'[x] = disk[x]
      /\ ~ok => disk' = disk
  BY <1>1, Saving
<1> QED BY <1>3, <1>4

LEMMA MixedTyped ==
    ASSUME Ind, NEW es, es \subseteq Experiments
    PROVE  Mixed(es) \subseteq Experiments /\ LetGo \subseteq Experiments
<1>1. Mixed(es) \subseteq Experiments
  BY PlainTypes DEF Mixed
<1>2. LetGo \subseteq Experiments
  BY PlainTypes DEF LetGo
<1> QED BY <1>1, <1>2
-----------------------------------------------------------------------------
(* The steps of the manager.                                                *)

\* A new experiment has a number above those that are there.
LEMMA NewExperiment ==
    ASSUME TypeOK
    PROVE  Max(Stored \cup {0}) + 1 \notin Stored
<1>1. MaxExperiments \in Nat /\ Stored \cup {0} \subseteq 0 .. MaxExperiments
  BY DEF Stored, Experiments
<1>2. \A y \in Stored \cup {0} : y <= Max(Stored \cup {0})
  BY <1>1, MaxIsHighest
<1>3. PICK h \in Nat : h = Max(Stored \cup {0})
  BY <1>1, MaxIsHighest
<1>4. \A y \in Stored \cup {0} : y <= h
  BY <1>2, <1>3
<1>5. ~(h + 1 <= h)
  BY <1>3
<1>6. h + 1 \notin Stored
  BY <1>4, <1>5
<1> QED BY <1>3, <1>6

LEMMA StartExperimentKeeps ==
    ASSUME Ind, NEW attended \in BOOLEAN, NEW bounded \in BOOLEAN, StartExperiment(attended, bounded)
    PROVE  Ind'
<1> PICK e : e = Max(Stored \cup {0}) + 1
  OBVIOUS
<1> PICK r : r = [made |-> TRUE, open |-> TRUE, attended |-> attended, bounded |-> bounded, runs |-> <<>>]
  OBVIOUS
<1>1. /\ current = 0 /\ e \in Experiments /\ disk' = [disk EXCEPT ![e] = r]
      /\ UNCHANGED <<files, engine, history, saveOk, news, changes>>
  BY DEF StartExperiment, engineVars
<1>2. r \in Records /\ r.bounded = bounded /\ r.attended = attended
  <2>1. <<>> \in Seq(Entries)
    BY EmptySeq
  <2> QED BY <2>1 DEF Records
<1>3. disk' \in [Experiments -> Records] /\ disk'[e] = r
  BY <1>1, <1>2, PlainTypes
<1>4. PICK ok \in BOOLEAN :
        /\ Spend(Failed(ok))
        /\ IF ok
           THEN /\ pointer' = e /\ current' = e /\ record' = r
                /\ Post(Install(e, r)) /\ apart' = {} /\ adrift' = adrift \cup Mixed({e})
           ELSE UNCHANGED <<pointer, current, record, calls, apart, adrift>>
  BY DEF StartExperiment
<1>5. troubles' \in 0 .. MaxTroubles
  BY <1>4, PlainTypes, Spending DEF Failed
<1>6. CASE ok
  <2>1. Install(e, r) \in Seq(Calls)
    BY <1>1, <1>2, InstallTyped
  <2>2. calls' \in Seq(Calls) /\ apart' \subseteq Settings \cup {"folder"}
    BY <1>4, <1>6, <2>1, Posting
  <2>3. adrift' \subseteq Experiments
    <3>1. Mixed({e}) \subseteq Experiments
      BY <1>1, MixedTyped
    <3> QED BY <1>4, <1>6, <3>1, PlainTypes
  <2> QED BY <1>1, <1>2, <1>3, <1>4, <1>5, <1>6, <2>2, <2>3, PlainTypes, ManagerKeeps
<1>7. CASE ~ok
  BY <1>1, <1>3, <1>4, <1>5, <1>7, PlainTypes, ManagerKeeps
<1> QED BY <1>4, <1>6, <1>7

LEMMA CloseExperimentKeeps ==
    ASSUME Ind, CloseExperiment
    PROVE  Ind'
<1> PICK r : r = [record EXCEPT !.open = FALSE]
  OBVIOUS
<1>1. /\ current \in Experiments /\ r \in Records /\ record \in Records
      /\ UNCHANGED <<files, engine, history, news, changes>>
  <2>1. record \in Records
    BY PlainTypes
  <2>2. r \in Records
    BY <2>1 DEF Records
  <2> QED BY <2>1, <2>2, PlainTypes DEF CloseExperiment, engineVars
<1>2. PICK ok \in BOOLEAN, points \in BOOLEAN :
             /\ Written(current, r, ok) /\ Spend(Failed(ok) + Failed(points))
             /\ IF points
                THEN /\ pointer' = 0 /\ current' = 0 /\ record' = NoRecord
                     /\ Post(<<Call("bounded", FALSE), Call("folder", 0)>>)
                     /\ apart' = apart \ {"bounded", "folder"}
                     /\ adrift' = adrift \cup (IF ok THEN Mixed({current}) ELSE {current})
                ELSE record' = r /\ UNCHANGED <<pointer, current, calls, apart, adrift>>
  BY DEF CloseExperiment
<1>3. troubles' \in 0 .. MaxTroubles
  <2>1. Failed(ok) + Failed(points) \in Nat
    BY DEF Failed
  <2> QED BY <1>2, <2>1, PlainTypes, Spending
<1>4. /\ disk' \in [Experiments -> Records] /\ saveOk' = ok
      /\ ok => disk'[current] = r
  BY <1>1, <1>2, Saving
<1>5. CASE points
  <2>1. <<Call("bounded", FALSE), Call("folder", 0)>> \in Seq(Calls)
    <3>1. PICK a \in Calls, b \in Calls : a = Call("bounded", FALSE) /\ b = Call("folder", 0)
      BY CallsTyped
    <3>2. <<a, b>> \in Seq(Calls)
      OBVIOUS
    <3> QED BY <3>1, <3>2
  <2>2. calls' \in Seq(Calls)
    BY <1>2, <1>5, <2>1, Posting
  <2>4. adrift' \subseteq Experiments
    <3>1. {current} \subseteq Experiments /\ adrift \subseteq Experiments
      BY <1>1, PlainTypes
    <3>2. adrift' \subseteq adrift \cup Mixed({current}) \cup {current}
      BY <1>2, <1>5
    <3>3. Mixed({current}) \subseteq Experiments
      BY <3>1, MixedTyped
    <3> QED BY <3>1, <3>2, <3>3
  <2>5. apart' \subseteq Settings \cup {"folder"}
    BY <1>2, <1>5, PlainTypes
  <2>3. NoRecord \in Records
    BY EmptySeq DEF NoRecord, Records
  <2> QED BY <1>1, <1>2, <1>3, <1>4, <1>5, <2>2, <2>3, <2>4, <2>5, PlainTypes, ManagerKeeps
<1>6. CASE ~points
  BY <1>1, <1>2, <1>3, <1>4, <1>6, PlainTypes, ManagerKeeps
<1> QED BY <1>5, <1>6

LEMMA SwitchExperimentKeeps ==
    ASSUME Ind, NEW e \in Experiments, SwitchExperiment(e)
    PROVE  Ind'
<1>1. /\ current' = e /\ record' = disk[e]
      /\ UNCHANGED <<files, engine, history, disk, saveOk, news, changes>>
  BY DEF SwitchExperiment, engineVars
<1>2. PICK ok \in BOOLEAN :
        /\ Spend(Failed(ok))
        /\ IF ok
           THEN /\ pointer' = e /\ Post(Install(e, disk[e])) /\ apart' = {}
                /\ adrift' = adrift \cup LetGo \cup Mixed({current, e} \ {0})
           ELSE /\ adrift' = adrift \cup ({current, e} \ {0})
                /\ apart' = Settings \cup {"folder"} /\ UNCHANGED <<pointer, calls>>
  BY DEF SwitchExperiment
<1>3. troubles' \in 0 .. MaxTroubles
  BY <1>2, PlainTypes, Spending DEF Failed
<1>4. calls' \in Seq(Calls) /\ pointer' \in Experiments \cup {0}
  <2>1. Install(e, disk[e]) \in Seq(Calls)
    BY PlainTypes, InstallTyped
  <2> QED BY <1>2, <2>1, PlainTypes, Posting
<1>5. adrift' \subseteq Experiments /\ apart' \subseteq Settings \cup {"folder"}
  <2>1. {current, e} \ {0} \subseteq Experiments /\ adrift \subseteq Experiments
    BY PlainTypes
  <2>2. Mixed({current, e} \ {0}) \subseteq Experiments /\ LetGo \subseteq Experiments
    BY <2>1, MixedTyped
  <2>3. apart' \subseteq Settings \cup {"folder"}
    BY <1>2
  <2>4. adrift' \subseteq Experiments
    BY <1>2, <2>1, <2>2
  <2> QED BY <2>3, <2>4
<1> QED BY <1>1, <1>3, <1>4, <1>5, PlainTypes, ManagerKeeps

LEMMA SetExperimentEnvelopeKeeps ==
    ASSUME Ind, NEW bounded \in BOOLEAN, SetExperimentEnvelope(bounded)
    PROVE  Ind'
<1> PICK r : r = [record EXCEPT !.bounded = bounded]
  OBVIOUS
<1>1. /\ current \in Experiments /\ Change /\ record' = r /\ SaveCurrent(current, r)
      /\ Post(<<Call("bounded", bounded)>>) /\ apart' = apart \ {"bounded"}
      /\ UNCHANGED <<files, engine, history, pointer, current, news, adrift>>
  BY PlainTypes DEF SetExperimentEnvelope, engineVars
<1>2. r \in Records
  BY PlainTypes DEF Records
<1>3. <<Call("bounded", bounded)>> \in Seq(Calls)
  BY CallsTyped
<1>4. apart' \subseteq Settings \cup {"folder"}
  BY <1>1, PlainTypes
<1> QED BY <1>1, <1>2, <1>3, <1>4, PlainTypes, SavingTheCurrent, Posting, Changing, ManagerKeeps

LEMMA SetAttendedKeeps ==
    ASSUME Ind, NEW attended \in BOOLEAN, SetAttended(attended)
    PROVE  Ind'
<1> PICK r : r = [record EXCEPT !.attended = attended]
  OBVIOUS
<1>1. /\ Change /\ Post(<<Call("attended", attended)>>) /\ apart' = apart \ {"attended"}
      /\ UNCHANGED <<files, engine, history, pointer, current, news, adrift>>
  BY DEF SetAttended, engineVars
<1>2. r \in Records
  BY PlainTypes DEF Records
<1>3. <<Call("attended", attended)>> \in Seq(Calls)
  BY CallsTyped
<1>4. calls' \in Seq(Calls) /\ changes' \in Nat /\ apart' \subseteq Settings \cup {"folder"}
  <2>1. apart \subseteq Settings \cup {"folder"}
    BY PlainTypes
  <2> QED BY <1>1, <1>3, <2>1, Posting, Changing
<1>5. CASE current # 0
  <2>1. current \in Experiments /\ record' = r /\ SaveCurrent(current, r)
    BY <1>5, PlainTypes DEF SetAttended
  <2> QED BY <1>1, <1>2, <1>4, <2>1, PlainTypes, SavingTheCurrent, ManagerKeeps
<1>6. CASE current = 0
  <2>1. UNCHANGED <<record, disk, saveOk, troubles>>
    BY <1>6 DEF SetAttended
  <2> QED BY <1>1, <1>4, <1>6, <2>1, PlainTypes, ManagerKeeps
<1> QED BY <1>5, <1>6

LEMMA RequestRunKeeps ==
    ASSUME Ind, RequestRun
    PROVE  Ind'
<1>1. /\ Post(<<Call("run", 0)>>)
      /\ UNCHANGED <<disk, pointer, current, record, saveOk, apart, adrift, files, engine, history,
                     news, troubles, changes>>
  BY DEF RequestRun, clientVars, engineVars
<1>2. <<Call("run", 0)>> \in Seq(Calls)
  BY CallsTyped
<1>3. calls' \in Seq(Calls)
  BY <1>1, <1>2, Posting
<1> QED BY <1>1, <1>3, PlainTypes, ManagerKeeps DEF Ind, NothingSilentlyStale
-----------------------------------------------------------------------------
(* The steps of the engine, and the news.                                   *)

Kinds == {"started", "owner", "ended"}
Items == [kind : Kinds, run : Nat \ {0}]
Fated == [folder : Experiments, number : Nat, fate : Fates]

LEMMA MoreTypes ==
    ASSUME Ind
    PROVE  /\ news \in Seq(Items) /\ history \in Seq(Fated)
           /\ Len(news) \in Nat /\ DOMAIN news = 1 .. Len(news)
           /\ Len(history) \in Nat /\ DOMAIN history = 1 .. Len(history)
           /\ \A i \in DOMAIN news : news[i] \in Items /\ news[i].run \in DOMAIN history
           /\ \A r \in DOMAIN history : history[r] \in Fated
           /\ files \in [Experiments -> SUBSET Nat]
<1>1. /\ news \in Seq(Items) /\ history \in Seq(Fated) /\ files \in [Experiments -> SUBSET Nat]
      /\ \A i \in DOMAIN news : news[i].run \in DOMAIN history
  BY DEF Ind, TypeOK, Items, Kinds, Fated
<1>2. /\ Len(news) \in Nat /\ DOMAIN news = 1 .. Len(news)
      /\ Len(history) \in Nat /\ DOMAIN history = 1 .. Len(history)
  BY <1>1, LenProperties
<1>3. \A i \in DOMAIN news : news[i] \in Items
  BY <1>1, <1>2, ElementOfSeq
<1>4. \A r \in DOMAIN history : history[r] \in Fated
  BY <1>1, <1>2, ElementOfSeq
<1> QED BY <1>1, <1>2, <1>3, <1>4

LEMMA Telling ==
    ASSUME Ind, NEW kinds \in Seq(Kinds), NEW r \in Nat \ {0}, Tell(kinds, r)
    PROVE  /\ news' \in Seq(Items) /\ Len(news') = Len(news) + Len(kinds)
           /\ DOMAIN news' = 1 .. Len(news) + Len(kinds) /\ Len(kinds) \in Nat
           /\ \A i \in 1 .. Len(news) : news'[i] = news[i]
           /\ \A i \in 1 .. Len(kinds) : news'[Len(news) + i] = [kind |-> kinds[i], run |-> r]
<1>1. Len(kinds) \in Nat /\ DOMAIN kinds = 1 .. Len(kinds) /\ \A i \in 1 .. Len(kinds) : kinds[i] \in Kinds
  BY LenProperties, ElementOfSeq
<1>2. PICK more : more = [i \in DOMAIN kinds |-> [kind |-> kinds[i], run |-> r]]
  OBVIOUS
<1>3. more \in [1 .. Len(kinds) -> Items] /\ \A i \in 1 .. Len(kinds) : more[i] = [kind |-> kinds[i], run |-> r]
  BY <1>1, <1>2 DEF Items
<1>4. more \in Seq(Items)
  BY <1>1, <1>3, SeqDef
<1>5. Len(more) = Len(kinds)
  BY <1>1, <1>3, <1>4, LenProperties
<1>6. news' = news \o more
  BY <1>2 DEF Tell
<1>7. news \in Seq(Items) /\ Len(news) \in Nat
  BY MoreTypes
<1>8. /\ news' \in Seq(Items) /\ Len(news') = Len(news) + Len(kinds)
      /\ \A i \in 1 .. Len(news) + Len(kinds) :
            news'[i] = IF i <= Len(news) THEN news[i] ELSE more[i - Len(news)]
  <2>1. /\ news \o more \in Seq(Items) /\ Len(news \o more) = Len(news) + Len(more)
        /\ \A i \in 1 .. Len(news) + Len(more) :
              (news \o more)[i] = IF i <= Len(news) THEN news[i] ELSE more[i - Len(news)]
    BY <1>4, <1>7, ConcatProperties
  <2>2. news' \in Seq(Items) /\ Len(news') = Len(news) + Len(kinds)
    BY <1>5, <1>6, <2>1
  <2>3. \A i \in 1 .. Len(news) + Len(kinds) :
              news'[i] = IF i <= Len(news) THEN news[i] ELSE more[i - Len(news)]
    BY <1>5, <1>6, <2>1
  <2> QED BY <2>2, <2>3
<1>9. \A i \in 1 .. Len(news) : news'[i] = news[i]
  BY <1>1, <1>7, <1>8
<1>10. ASSUME NEW i \in 1 .. Len(kinds)  PROVE news'[Len(news) + i] = [kind |-> kinds[i], run |-> r]
  <2>1. Len(news) + i \in 1 .. Len(news) + Len(kinds) /\ ~(Len(news) + i <= Len(news))
        /\ (Len(news) + i) - Len(news) = i
    BY <1>1, <1>7
  <2> QED BY <1>3, <1>8, <2>1
<1>11. DOMAIN news' = 1 .. Len(news) + Len(kinds)
  BY <1>8, LenProperties
<1> QED BY <1>1, <1>8, <1>9, <1>10, <1>11

\* The number of a new run is that of no file.
LEMMA NewNumber ==
    ASSUME Ind, NEW e \in Experiments
    PROVE  \E k \in Nat : files[e] = 1 .. k /\ NextRunNumber(e) = k + 1
<1>1. PICK k \in Nat : files[e] = 1 .. k
  BY DEF Ind, FilesAreDense
<1>2. PICK S : S = files[e] \cup {0}
  OBVIOUS
<1>3. S \subseteq 0 .. k /\ S # {} /\ k \in S
  BY <1>1, <1>2
<1>4. PICK h \in 0 .. k : h = Max(S) /\ k <= h
  BY <1>3, MaxIsHighest
<1>5. h = k
  BY <1>4
<1> QED BY <1>1, <1>2, <1>4, <1>5 DEF NextRunNumber

LEMMA WhatBeginRunDoes ==
    ASSUME Ind, BeginRun
    PROVE  \/ UNCHANGED <<files, history, news>>
           \/ /\ engine.folder \in Experiments /\ Flying = {}
              /\ files' = [files EXCEPT ![engine.folder] = @ \cup {NextRunNumber(engine.folder)}]
              /\ \E fate \in {"running", "never started"} :
                   /\ history' = Append(history, [folder |-> engine.folder,
                                                  number |-> NextRunNumber(engine.folder), fate |-> fate])
                   /\ IF fate = "running" THEN Tell(<<"started", "owner">>, Len(history) + 1)
                      ELSE news' = news
BY PlainTypes DEF BeginRun

\* The history after a run was placed.
LEMMA Placing ==
    ASSUME Ind, NEW run \in Fated, history' = Append(history, run)
    PROVE  /\ history' \in Seq(Fated) /\ DOMAIN history' = 1 .. Len(history) + 1
           /\ history'[Len(history) + 1] = run
           /\ \A r \in DOMAIN history : history'[r] = history[r] /\ r \in DOMAIN history'
           /\ Len(history) + 1 \notin DOMAIN history
<1>1. history \in Seq(Fated) /\ Len(history) \in Nat /\ DOMAIN history = 1 .. Len(history)
  BY MoreTypes
<1>2. /\ history' \in Seq(Fated) /\ Len(history') = Len(history) + 1
      /\ \A i \in 1 .. Len(history) : history'[i] = history[i]
      /\ history'[Len(history) + 1] = run
  BY <1>1, AppendProperties
<1>3. DOMAIN history' = 1 .. Len(history) + 1
  BY <1>2, LenProperties
<1> QED BY <1>1, <1>2, <1>3

LEMMA TakeCallTypes ==
    ASSUME Ind, TakeCall
    PROVE  /\ calls' \in Seq(Calls)
           /\ engine' \in [attended : BOOLEAN, bounded : BOOLEAN, folder : Experiments \cup {0}]
           /\ calls # <<>> /\ calls' = Tail(calls) /\ Len(calls) \in Nat \ {0}
           /\ calls[1] \in Calls /\ calls[1] = Head(calls)
<1>1. /\ calls \in Seq(Calls) /\ calls # <<>> /\ calls' = Tail(calls)
      /\ engine \in [attended : BOOLEAN, bounded : BOOLEAN, folder : Experiments \cup {0}]
  BY PlainTypes DEF TakeCall
<1>2. PICK c \in Calls : c = Head(calls)
  BY <1>1, HeadTailProperties
<1>3. c = calls[1] /\ Len(calls) \in Nat \ {0} /\ calls' \in Seq(Calls)
  BY <1>1, <1>2, HeadTailProperties, EmptySeq
<1>4. engine' = CASE c.what = "bounded"  -> [engine EXCEPT !.bounded = c.value]
                  [] c.what = "attended" -> [engine EXCEPT !.attended = c.value]
                  [] c.what = "folder"   -> [engine EXCEPT !.folder = c.value]
                  [] OTHER               -> engine
  BY <1>2 DEF TakeCall
<1>5. engine' \in [attended : BOOLEAN, bounded : BOOLEAN, folder : Experiments \cup {0}]
  <2>1. \/ c.what = "bounded" /\ c.value \in BOOLEAN
        \/ c.what = "attended" /\ c.value \in BOOLEAN
        \/ c.what = "folder" /\ c.value \in Experiments \cup {0}
        \/ c.what = "run"
    BY <1>2 DEF Calls, Settings
  <2>2. CASE c.what = "bounded" /\ c.value \in BOOLEAN
    <3>1. engine' = [engine EXCEPT !.bounded = c.value]
      BY <1>4, <2>2
    <3> QED BY <1>1, <2>2, <3>1
  <2>3. CASE c.what = "attended" /\ c.value \in BOOLEAN
    <3>1. engine' = [engine EXCEPT !.attended = c.value]
      BY <1>4, <2>3
    <3> QED BY <1>1, <2>3, <3>1
  <2>4. CASE c.what = "folder" /\ c.value \in Experiments \cup {0}
    <3>1. engine' = [engine EXCEPT !.folder = c.value]
      BY <1>4, <2>4
    <3> QED BY <1>1, <2>4, <3>1
  <2>5. CASE c.what = "run"
    <3>1. engine' = engine
      BY <1>4, <2>5
    <3> QED BY <1>1, <3>1
  <2> QED BY <2>1, <2>2, <2>3, <2>4, <2>5
<1> QED BY <1>1, <1>2, <1>3, <1>5

\* A run that is placed in the folder of e, as far as the numbers go ...
LEMMA RunPlaced ==
    ASSUME Ind, NEW e \in Experiments, NEW k \in Nat, files[e] = 1 .. k,
           NEW run \in Fated, run.folder = e, run.number = k + 1,
           history' = Append(history, run), files' = [files EXCEPT ![e] = 1 .. k + 1]
    PROVE  /\ files' \in [Experiments -> SUBSET Nat] /\ history' \in Seq(Fated)
           /\ NumbersAreTaken' /\ FilesAreDense' /\ NumbersAreUnique'
<1> PICK m : m = Len(history) + 1
  OBVIOUS
<1>1. /\ history' \in Seq(Fated) /\ DOMAIN history' = DOMAIN history \cup {m}
      /\ history'[m] = run /\ m \notin DOMAIN history
      /\ \A r \in DOMAIN history : history'[r] = history[r]
  <2>1. /\ history' \in Seq(Fated) /\ DOMAIN history' = 1 .. Len(history) + 1
        /\ history'[Len(history) + 1] = run
        /\ \A r \in DOMAIN history : history'[r] = history[r]
        /\ Len(history) + 1 \notin DOMAIN history
    BY Placing
  <2>2. Len(history) \in Nat /\ DOMAIN history = 1 .. Len(history)
    BY MoreTypes
  <2>3. DOMAIN history' = DOMAIN history \cup {m}
    BY <2>1, <2>2
  <2> QED BY <2>1, <2>3
<1>2. 1 .. k + 1 \subseteq Nat /\ 1 .. k \subseteq 1 .. k + 1 /\ k + 1 \in 1 .. k + 1 /\ k + 1 \in Nat
      /\ k + 1 \notin 1 .. k
  OBVIOUS
<1>3. /\ files' \in [Experiments -> SUBSET Nat] /\ files'[e] = 1 .. k + 1
      /\ \A x \in Experiments \ {e} : files'[x] = files[x]
  BY <1>2, MoreTypes
<1>4. \A r \in DOMAIN history : /\ history[r].folder \in Experiments
                                /\ history[r].number \in files[history[r].folder]
  <2>1. ASSUME NEW r \in DOMAIN history  PROVE history[r].folder \in Experiments
    <3>1. history[r] \in Fated
      BY MoreTypes
    <3> QED BY <3>1 DEF Fated
  <2> QED BY <2>1 DEF Ind, NumbersAreTaken
<1>5. NumbersAreTaken'
  <2>1. ASSUME NEW r \in DOMAIN history  PROVE history[r].number \in files'[history[r].folder]
    BY <1>2, <1>3, <1>4
  <2>2. run.number \in files'[run.folder]
    BY <1>2, <1>3
  <2> QED BY <1>1, <2>1, <2>2 DEF NumbersAreTaken
<1>6. FilesAreDense'
  <2>1. ASSUME NEW x \in Experiments  PROVE \E j \in Nat : files'[x] = 1 .. j
    <3>1. CASE x = e
      BY <1>2, <1>3, <3>1
    <3>2. CASE x # e
      BY <1>3, <3>2 DEF Ind, FilesAreDense
    <3> QED BY <3>1, <3>2
  <2> QED BY <2>1 DEF FilesAreDense
<1>7. NumbersAreUnique'
  <2>1. \A r \in DOMAIN history : history[r].folder = e => history[r].number # k + 1
    BY <1>2, <1>4
  <2>2. \A r, q \in DOMAIN history :
          r # q /\ history[r].folder = history[q].folder => history[r].number # history[q].number
    BY DEF Ind, NumbersAreUnique
  <2> QED BY <1>1, <2>1, <2>2 DEF NumbersAreUnique
<1> QED BY <1>1, <1>3, <1>5, <1>6, <1>7

\* ... and as far as its news goes.
LEMMA RunAnnounced ==
    ASSUME Ind, NEW m, m = Len(history) + 1, DOMAIN history' = 1 .. Len(history) + 1,
           Tell(<<"started", "owner">>, m)
    PROVE  news' \in Seq(Items) /\ \A i \in DOMAIN news' : news'[i].run \in DOMAIN history'
<1>1. Len(history) \in Nat /\ m \in Nat \ {0} /\ m \in DOMAIN history'
      /\ \A r \in DOMAIN history : r \in DOMAIN history'
  BY MoreTypes
<1>2. PICK kinds \in Seq(Kinds) : kinds = <<"started", "owner">>
  <2>1. PICK a \in Kinds, b \in Kinds : a = "started" /\ b = "owner"
    BY DEF Kinds
  <2>2. <<a, b>> \in Seq(Kinds)
    OBVIOUS
  <2> QED BY <2>1, <2>2
<1>3. Tell(kinds, m)
  BY <1>2
<1>4. /\ news' \in Seq(Items) /\ DOMAIN news' = 1 .. Len(news) + Len(kinds) /\ Len(kinds) \in Nat
      /\ \A i \in 1 .. Len(news) : news'[i] = news[i]
      /\ \A i \in 1 .. Len(kinds) : news'[Len(news) + i] = [kind |-> kinds[i], run |-> m]
  BY <1>1, <1>3, Telling
<1>5. Len(news) \in Nat /\ \A i \in 1 .. Len(news) : news[i].run \in DOMAIN history
  BY MoreTypes
<1>6. ASSUME NEW i \in DOMAIN news'  PROVE news'[i].run \in DOMAIN history'
  <2>1. CASE i \in 1 .. Len(news)
    BY <1>1, <1>4, <1>5, <2>1
  <2>2. CASE i \notin 1 .. Len(news)
    <3>1. PICK j : j = i - Len(news)
      OBVIOUS
    <3>2. j \in 1 .. Len(kinds) /\ i = Len(news) + j
      BY <1>4, <1>5, <2>2, <3>1
    <3>3. news'[i] = [kind |-> kinds[j], run |-> m]
      BY <1>4, <3>2
    <3> QED BY <1>1, <3>3
  <2> QED BY <2>1, <2>2
<1> QED BY <1>4, <1>6

LEMMA TakeCallKeeps ==
    ASSUME Ind, TakeCall
    PROVE  Ind'
<1>1. /\ UNCHANGED <<disk, pointer, current, record, saveOk, apart, adrift, troubles, changes>>
      /\ IF Head(calls).what = "run" THEN BeginRun ELSE UNCHANGED <<files, history, news>>
  BY DEF TakeCall, clientVars
<1>2. /\ calls' \in Seq(Calls)
      /\ engine' \in [attended : BOOLEAN, bounded : BOOLEAN, folder : Experiments \cup {0}]
  BY TakeCallTypes
<1>3. /\ files' \in [Experiments -> SUBSET Nat]
      /\ news' \in Seq(Items) /\ \A i \in DOMAIN news' : news'[i].run \in DOMAIN history'
      /\ history' \in Seq(Fated)
      /\ NumbersAreTaken' /\ FilesAreDense' /\ NumbersAreUnique'
  <2>1. CASE UNCHANGED <<files, history, news>>
    BY <2>1, MoreTypes, OthersKeepNumbers
  <2>2. CASE BeginRun /\ ~UNCHANGED <<files, history, news>>
    <3>1. /\ engine.folder \in Experiments
          /\ files' = [files EXCEPT ![engine.folder] = @ \cup {NextRunNumber(engine.folder)}]
          /\ \E fate \in {"running", "never started"} :
               /\ history' = Append(history, [folder |-> engine.folder,
                                              number |-> NextRunNumber(engine.folder), fate |-> fate])
               /\ IF fate = "running" THEN Tell(<<"started", "owner">>, Len(history) + 1)
                  ELSE news' = news
      BY <2>2, WhatBeginRunDoes
    <3>2. PICK e \in Experiments : e = engine.folder
      BY <3>1
    <3>3. PICK k \in Nat : files[e] = 1 .. k /\ NextRunNumber(e) = k + 1
      BY NewNumber
    <3>4. k + 1 \in Nat /\ 1 .. k + 1 = 1 .. k \cup {k + 1}
      OBVIOUS
    <3>5. files' = [files EXCEPT ![e] = 1 .. k + 1]
      BY <3>1, <3>2, <3>3, <3>4
    <3>6. PICK fate \in {"running", "never started"} :
            /\ history' = Append(history, [folder |-> e, number |-> k + 1, fate |-> fate])
            /\ IF fate = "running" THEN Tell(<<"started", "owner">>, Len(history) + 1)
               ELSE news' = news
      BY <3>1, <3>2, <3>3
    <3>7. PICK run : run = [folder |-> e, number |-> k + 1, fate |-> fate]
      OBVIOUS
    <3>8. run \in Fated /\ run.folder = e /\ run.number = k + 1 /\ history' = Append(history, run)
      BY <3>4, <3>6, <3>7 DEF Fated, Fates
    <3>9. /\ files' \in [Experiments -> SUBSET Nat] /\ history' \in Seq(Fated)
          /\ NumbersAreTaken' /\ FilesAreDense' /\ NumbersAreUnique'
      BY <3>3, <3>5, <3>8, RunPlaced
    <3>10. /\ DOMAIN history' = 1 .. Len(history) + 1
           /\ \A r \in DOMAIN history : r \in DOMAIN history'
      BY <3>8, Placing
    <3>11. news' \in Seq(Items) /\ \A i \in DOMAIN news' : news'[i].run \in DOMAIN history'
      <4>1. CASE fate = "running"
        <5>1. PICK m : m = Len(history) + 1
          OBVIOUS
        <5>2. Tell(<<"started", "owner">>, m)
          BY <3>6, <4>1, <5>1
        <5> QED BY <3>10, <5>1, <5>2, RunAnnounced
      <4>2. CASE fate # "running"
        <5>1. news' = news
          BY <3>6, <4>2
        <5> QED BY <3>10, <5>1, MoreTypes
      <4> QED BY <4>1, <4>2
    <3> QED BY <3>9, <3>11
  <2> QED BY <1>1, <2>1, <2>2
<1>4. TypeOK'
  <2>1. /\ disk' \in [Experiments -> Records] /\ record' \in Records
        /\ pointer' \in Experiments \cup {0} /\ current' \in Experiments \cup {0}
        /\ saveOk' \in BOOLEAN /\ apart' \subseteq Settings \cup {"folder"} /\ adrift' \subseteq Experiments
        /\ troubles' \in 0 .. MaxTroubles /\ changes' \in Nat
    BY <1>1, PlainTypes
  <2> QED BY <1>2, <1>3, <2>1 DEF TypeOK, Items, Kinds, Fated
<1> QED BY <1>1, <1>3, <1>4 DEF Ind, NothingSilentlyStale

\* A step that creates no run.
LEMMA NoRunIsPlaced ==
    ASSUME Ind, files' = files, DOMAIN history' = DOMAIN history, history' \in Seq(Fated),
           \A r \in DOMAIN history : /\ history'[r].number = history[r].number
                                      /\ history'[r].folder = history[r].folder,
           news' \in Seq(Items), \A i \in DOMAIN news' : news'[i].run \in DOMAIN history,
           engine' \in [attended : BOOLEAN, bounded : BOOLEAN, folder : Experiments \cup {0}],
           disk' \in [Experiments -> Records], record' \in Records,
           pointer' \in Experiments \cup {0}, current' \in Experiments \cup {0}, saveOk' \in BOOLEAN,
           calls' \in Seq(Calls), apart' \subseteq Settings \cup {"folder"}, adrift' \subseteq Experiments,
           troubles' \in 0 .. MaxTroubles, changes' \in Nat,
           saveOk' /\ current' # 0 => disk'[current'] = record'
    PROVE  Ind'
<1>1. TypeOK'
  <2>1. files' \in [Experiments -> SUBSET Nat]
    BY MoreTypes
  <2> QED BY <2>1 DEF TypeOK, Items, Kinds, Fated
<1>2. NumbersAreTaken' /\ FilesAreDense' /\ NumbersAreUnique'
  BY OthersKeepNumbers
<1> QED BY <1>1, <1>2 DEF Ind, NothingSilentlyStale

LEMMA PolicyByFileKeeps ==
    ASSUME Ind, NEW what \in Settings, NEW value \in BOOLEAN, PolicyByFile(what, value)
    PROVE  Ind'
<1>1. /\ engine' = [engine EXCEPT ![what] = value] /\ Change
      /\ apart' \subseteq apart \cup {what}
      /\ UNCHANGED <<disk, pointer, current, record, saveOk, adrift, files, calls, news, history, troubles>>
  BY DEF PolicyByFile, clientVars
<1>2. engine' \in [attended : BOOLEAN, bounded : BOOLEAN, folder : Experiments \cup {0}]
  <2>1. engine \in [attended : BOOLEAN, bounded : BOOLEAN, folder : Experiments \cup {0}]
    BY PlainTypes
  <2>2. CASE what = "attended"
    <3>1. engine' = [engine EXCEPT !.attended = value]
      BY <1>1, <2>2
    <3> QED BY <2>1, <3>1
  <2>3. CASE what = "bounded"
    <3>1. engine' = [engine EXCEPT !.bounded = value]
      BY <1>1, <2>3
    <3> QED BY <2>1, <3>1
  <2> QED BY <2>2, <2>3 DEF Settings
<1>3. apart' \subseteq Settings \cup {"folder"} /\ changes' \in Nat
  BY <1>1, PlainTypes, Changing
<1> QED BY <1>1, <1>2, <1>3, PlainTypes, MoreTypes, NoRunIsPlaced DEF Ind, NothingSilentlyStale

LEMMA EndRunKeeps ==
    ASSUME Ind, EndRun
    PROVE  Ind'
<1>1. PICK r \in DOMAIN history :
        /\ history[r].fate = "running"
        /\ history' = [history EXCEPT ![r].fate = IF r % 2 = 1 THEN "done" ELSE "failed"]
        /\ Tell(<<"ended">>, r)
  BY DEF EndRun, Flying
<1>2. UNCHANGED <<disk, pointer, current, record, saveOk, apart, adrift, files, engine, calls, troubles, changes>>
  BY DEF EndRun, clientVars
<1>3. PICK fate \in Fates : fate = IF r % 2 = 1 THEN "done" ELSE "failed"
  BY DEF Fates
<1>4. PICK run \in Fated : run = [history[r] EXCEPT !.fate = fate]
  <2>1. history[r] \in Fated
    BY MoreTypes
  <2> QED BY <2>1 DEF Fated
<1>5. history' = [history EXCEPT ![r] = run]
  BY <1>1, <1>3, <1>4
<1>6. history' \in Seq(Fated) /\ DOMAIN history' = DOMAIN history
  BY <1>5, MoreTypes, ExceptSeq
<1>7. \A q \in DOMAIN history : /\ history'[q].number = history[q].number
                                /\ history'[q].folder = history[q].folder
  <2>1. history[r] \in Fated /\ history'[r] = run
    BY <1>5, MoreTypes
  <2>2. run.number = history[r].number /\ run.folder = history[r].folder
    BY <1>4, <2>1 DEF Fated
  <2>3. \A q \in DOMAIN history \ {r} : history'[q] = history[q]
    BY <1>5
  <2> QED BY <2>1, <2>2, <2>3
<1>8. news' \in Seq(Items) /\ \A i \in DOMAIN news' : news'[i].run \in DOMAIN history
  <2>1. PICK kinds \in Seq(Kinds) : kinds = <<"ended">>
    <3>1. PICK a \in Kinds : a = "ended"
      BY DEF Kinds
    <3>2. <<a>> \in Seq(Kinds)
      OBVIOUS
    <3> QED BY <3>1, <3>2
  <2>2. r \in Nat \ {0}
    BY MoreTypes
  <2>3. /\ news' \in Seq(Items) /\ DOMAIN news' = 1 .. Len(news) + Len(kinds) /\ Len(kinds) \in Nat
        /\ \A i \in 1 .. Len(news) : news'[i] = news[i]
        /\ \A i \in 1 .. Len(kinds) : news'[Len(news) + i] = [kind |-> kinds[i], run |-> r]
    <3>1. Tell(kinds, r)
      BY <1>1, <2>1
    <3> QED BY <2>2, <3>1, Telling
  <2>4. Len(news) \in Nat /\ \A i \in 1 .. Len(news) : news[i].run \in DOMAIN history
    BY MoreTypes
  <2>5. ASSUME NEW i \in DOMAIN news'  PROVE news'[i].run \in DOMAIN history
    <3>1. CASE i \in 1 .. Len(news)
      BY <2>3, <2>4, <3>1
    <3>2. CASE i \notin 1 .. Len(news)
      <4>1. PICK j : j = i - Len(news)
        OBVIOUS
      <4>2. j \in 1 .. Len(kinds) /\ i = Len(news) + j
        BY <2>3, <2>4, <3>2, <4>1
      <4>3. news'[i] = [kind |-> kinds[j], run |-> r]
        BY <2>3, <4>2
      <4> QED BY <4>3
    <3> QED BY <3>1, <3>2
  <2> QED BY <2>3, <2>5
<1> QED BY <1>2, <1>6, <1>7, <1>8, PlainTypes, NoRunIsPlaced DEF Ind, NothingSilentlyStale

\* The records the manager makes of what it hears are records.
LEMMA HeardTyped ==
    ASSUME Ind, NEW r \in DOMAIN history
    PROVE  /\ RunStarted(r) \in Records
           /\ \A i \in DOMAIN record.runs : OwnerStamped(i, r) \in Records /\ RunFinished(i, r) \in Records
<1>1. record \in Records /\ r \in Nat \ {0} /\ history[r] \in Fated
  BY PlainTypes, MoreTypes
<1>2. history[r].number \in Nat /\ history[r].fate \in Fates
  BY <1>1 DEF Fated
<1>3. record.runs \in Seq(Entries)
  BY <1>1 DEF Records
<1>4. RunStarted(r) \in Records
  <2>1. PICK entry \in Entries : entry = [number |-> history[r].number, run |-> r, owner |-> 0, status |-> "running"]
    BY <1>1, <1>2 DEF Entries, Fates
  <2>2. Append(record.runs, entry) \in Seq(Entries)
    BY <1>3, AppendProperties
  <2>3. RunStarted(r) = [record EXCEPT !.runs = Append(record.runs, entry)]
    BY <2>1 DEF RunStarted
  <2> QED BY <1>1, <2>2, <2>3 DEF Records
<1>5. ASSUME NEW i \in DOMAIN record.runs  PROVE OwnerStamped(i, r) \in Records /\ RunFinished(i, r) \in Records
  <2>1. record.runs[i] \in Entries
    BY <1>3, ElementOfSeq, LenProperties
  <2>2. PICK x \in Entries : x = [record.runs[i] EXCEPT !.owner = r]
    BY <1>1, <2>1 DEF Entries
  <2>3. PICK y \in Entries : y = [record.runs[i] EXCEPT !.status = history[r].fate]
    BY <1>2, <2>1 DEF Entries
  <2>4. [record.runs EXCEPT ![i] = x] \in Seq(Entries) /\ [record.runs EXCEPT ![i] = y] \in Seq(Entries)
    BY <1>3, ExceptSeq
  <2>5. /\ OwnerStamped(i, r) = [record EXCEPT !.runs = [record.runs EXCEPT ![i] = x]]
        /\ RunFinished(i, r) = [record EXCEPT !.runs = [record.runs EXCEPT ![i] = y]]
    BY <2>2, <2>3 DEF OwnerStamped, RunFinished
  <2> QED BY <1>1, <2>4, <2>5 DEF Records
<1> QED BY <1>4, <1>5

LEMMA WhatHearDoes ==
    ASSUME Ind, Hear
    PROVE  /\ news # <<>> /\ news' = Tail(news)
           /\ UNCHANGED <<files, engine, history, pointer, current, calls, apart, adrift, changes>>
           /\ \/ UNCHANGED <<record, disk, saveOk, troubles>>
              \/ /\ current \in Experiments /\ record' \in Records /\ SaveCurrent(current, record')
<1>1. /\ news # <<>> /\ news' = Tail(news)
      /\ UNCHANGED <<files, engine, history, pointer, current, calls, apart, adrift, changes>>
  BY DEF Hear, engineVars
<1>2. Head(news).run \in DOMAIN history
  <2>1. news \in Seq(Items) /\ Head(news) = news[1] /\ 1 \in DOMAIN news
    BY <1>1, MoreTypes, HeadTailProperties, EmptySeq
  <2> QED BY <2>1, MoreTypes
<1>3. PICK x \in DOMAIN history : x = Head(news).run
  BY <1>2
<1>4. ASSUME NEW r, r \in Records, current # 0, record' = r, SaveCurrent(current, r)
      PROVE  current \in Experiments /\ record' \in Records /\ SaveCurrent(current, record')
  BY <1>4, PlainTypes
<1>5. /\ RunStarted(x) \in Records
      /\ \A i \in DOMAIN record.runs : OwnerStamped(i, x) \in Records /\ RunFinished(i, x) \in Records
  BY HeardTyped
<1>6. \/ UNCHANGED <<record, disk, saveOk, troubles>>
      \/ current # 0 /\ record' = RunStarted(x) /\ SaveCurrent(current, RunStarted(x))
      \/ current # 0 /\ \E i \in DOMAIN record.runs :
            record' = OwnerStamped(i, x) /\ SaveCurrent(current, OwnerStamped(i, x))
      \/ current # 0 /\ \E i \in DOMAIN record.runs :
            record' = RunFinished(i, x) /\ SaveCurrent(current, RunFinished(i, x))
  BY <1>3 DEF Hear, Found
<1> QED BY <1>1, <1>4, <1>5, <1>6

LEMMA HearKeeps ==
    ASSUME Ind, Hear
    PROVE  Ind'
<1>1. news' \in Seq(Items) /\ \A i \in DOMAIN news' : news'[i].run \in DOMAIN history
  <2>1. news \in Seq(Items) /\ news # <<>> /\ news' = Tail(news)
    BY MoreTypes, WhatHearDoes
  <2>2. /\ news' \in Seq(Items) /\ Len(news') = Len(news) - 1
        /\ \A i \in 1 .. Len(news') : news'[i] = news[i + 1]
    BY <2>1, HeadTailProperties
  <2>3. Len(news) \in Nat /\ DOMAIN news' = 1 .. Len(news') /\ DOMAIN news = 1 .. Len(news)
    BY <2>2, MoreTypes, LenProperties
  <2>4. \A i \in DOMAIN news' : i + 1 \in DOMAIN news /\ news'[i] = news[i + 1]
    BY <2>2, <2>3
  <2> QED BY <2>2, <2>4, MoreTypes
<1>2. /\ disk' \in [Experiments -> Records] /\ record' \in Records /\ saveOk' \in BOOLEAN
      /\ troubles' \in 0 .. MaxTroubles
      /\ saveOk' /\ current # 0 => disk'[current] = record'
  <2>1. CASE UNCHANGED <<record, disk, saveOk, troubles>>
    BY <2>1, PlainTypes DEF Ind, NothingSilentlyStale
  <2>2. CASE current \in Experiments /\ record' \in Records /\ SaveCurrent(current, record')
    <3> PICK r : r = record'
      OBVIOUS
    <3> QED BY <2>2, SavingTheCurrent
  <2> QED BY <2>1, <2>2, WhatHearDoes
<1>3. UNCHANGED <<files, engine, history, pointer, current, calls, apart, adrift, changes>>
  BY WhatHearDoes
<1> QED BY <1>1, <1>2, <1>3, PlainTypes, MoreTypes, NoRunIsPlaced

\* What a restart finds of a record, and what it posts.
LEMMA ResumedTyped ==
    ASSUME NEW r \in Records
    PROVE  Resumed(r) \in Records /\ Resumed(r).bounded = r.bounded /\ Resumed(r).attended = r.attended
<1>1. r.runs \in Seq(Entries)
  BY DEF Records
<1>2. PICK n \in Nat : r.runs \in [1 .. n -> Entries]
  BY <1>1, SeqDef
<1>3. PICK t : t = [i \in DOMAIN r.runs |->
        IF r.runs[i].status = "running" THEN [r.runs[i] EXCEPT !.status = "failed"] ELSE r.runs[i]]
  OBVIOUS
<1>4. t \in [1 .. n -> Entries]
  <2>1. ASSUME NEW x \in Entries  PROVE [x EXCEPT !.status = "failed"] \in Entries
    BY DEF Entries, Fates
  <2> QED BY <1>2, <1>3, <2>1
<1>5. t \in Seq(Entries)
  BY <1>4, SeqDef
<1>6. Resumed(r) = [r EXCEPT !.runs = t]
  BY <1>3 DEF Resumed
<1> QED BY <1>5, <1>6 DEF Records

LEMMA WhatRestartDoes ==
    ASSUME Ind, Restart
    PROVE  /\ UNCHANGED <<files, changes>>
           /\ engine' = [attended |-> TRUE, bounded |-> FALSE, folder |-> 0]
           /\ news' = <<>> /\ apart' = {} /\ adrift' = adrift \cup LetGo
           /\ troubles' \in 0 .. MaxTroubles
           /\ \/ /\ pointer \in Experiments /\ disk[pointer] \in Records /\ disk[pointer].open
                 /\ pointer' = pointer /\ current' = pointer /\ record' = Resumed(disk[pointer])
                 /\ disk' \in [Experiments -> Records] /\ saveOk' \in BOOLEAN
                 /\ saveOk' => disk'[pointer] = Resumed(disk[pointer])
                 /\ disk'[pointer] \in {disk[pointer], Resumed(disk[pointer])}
                 /\ \A x \in Experiments \ {pointer} : disk'[x] = disk[x]
                 /\ calls' = <<Call("folder", 0)>> \o Install(pointer, Resumed(disk[pointer]))
              \/ /\ pointer \in Experiments => ~disk[pointer].open
                 /\ pointer' \in {pointer, 0} /\ current' = 0 /\ record' = NoRecord /\ saveOk' = TRUE
                 /\ calls' = <<Call("folder", 0)>> /\ disk' = disk
<1>1. /\ UNCHANGED <<files, changes>>
      /\ engine' = [attended |-> TRUE, bounded |-> FALSE, folder |-> 0]
      /\ news' = <<>> /\ apart' = {} /\ adrift' = adrift \cup LetGo
  BY DEF Restart
<1>2. CASE pointer # 0 /\ disk[pointer].open
  <2>1. PICK e \in Experiments : e = pointer
    BY <1>2, PlainTypes
  <2>2. PICK r \in Records : r = Resumed(disk[e])
    BY PlainTypes, ResumedTyped
  <2>3. /\ pointer' = pointer /\ current' = pointer /\ record' = Resumed(disk[pointer])
        /\ \E ok \in BOOLEAN : Written(pointer, Resumed(disk[pointer]), ok) /\ Spend(1 + Failed(ok))
        /\ calls' = <<Call("folder", 0)>> \o Install(pointer, Resumed(disk[pointer]))
    BY <1>2 DEF Restart
  <2>4. PICK ok \in BOOLEAN : Written(e, r, ok) /\ Spend(1 + Failed(ok))
    BY <2>1, <2>2, <2>3
  <2>5. /\ disk' \in [Experiments -> Records] /\ saveOk' = ok /\ (ok => disk'[e] = r)
        /\ disk'[e] \in {disk[e], r} /\ \A x \in Experiments \ {e} : disk'[x] = disk[x]
    BY <2>4, Saving
  <2>6. troubles' \in 0 .. MaxTroubles
    <3>1. 1 + Failed(ok) \in Nat
      BY DEF Failed
    <3> QED BY <2>4, <3>1, PlainTypes, Spending
  <2>7. disk[pointer] \in Records
    BY <2>1, PlainTypes
  <2>8. saveOk' \in BOOLEAN /\ (saveOk' => disk'[pointer] = Resumed(disk[pointer]))
    BY <2>1, <2>2, <2>5
  <2>9. /\ disk'[pointer] \in {disk[pointer], Resumed(disk[pointer])}
        /\ \A x \in Experiments \ {pointer} : disk'[x] = disk[x]
    BY <2>1, <2>2, <2>5
  <2> QED BY <1>1, <1>2, <2>1, <2>3, <2>5, <2>6, <2>7, <2>8, <2>9
<1>3. CASE ~(pointer # 0 /\ disk[pointer].open)
  <2>1. /\ pointer' \in {pointer, 0} /\ current' = 0 /\ record' = NoRecord /\ saveOk' = TRUE
        /\ calls' = <<Call("folder", 0)>> /\ Spend(1) /\ disk' = disk
    BY <1>3 DEF Restart
  <2>2. \A x \in Experiments : x # 0
    BY DEF Experiments
  <2> QED BY <1>1, <1>3, <2>1, <2>2, PlainTypes, Spending
<1> QED BY <1>2, <1>3

LEMMA NoRecordTyped == NoRecord \in Records
<1>1. <<>> \in Seq(Entries)
  OBVIOUS
<1> QED BY <1>1 DEF NoRecord, Records

LEMMA RestartHistory ==
    ASSUME Ind, Restart
    PROVE  /\ history' \in Seq(Fated) /\ DOMAIN history' = DOMAIN history
           /\ \A r \in DOMAIN history : /\ history'[r].number = history[r].number
                                        /\ history'[r].folder = history[r].folder
<1>1. PICK Untold \in SUBSET DOMAIN history :
        history' = [x \in DOMAIN history |->
                      IF x \in Untold THEN [history[x] EXCEPT !.fate = "lost"] ELSE history[x]]
  <2>1. PICK U : U = {x \in DOMAIN history : history[x].fate = "running" \/ \E i \in DOMAIN news : news[i].run = x}
    OBVIOUS
  <2>2. history' = [x \in DOMAIN history |->
                      IF x \in U THEN [history[x] EXCEPT !.fate = "lost"] ELSE history[x]]
    BY <2>1 DEF Restart
  <2> QED BY <2>1, <2>2
<1>2. ASSUME NEW x \in Fated
      PROVE  /\ [x EXCEPT !.fate = "lost"] \in Fated
             /\ [x EXCEPT !.fate = "lost"].number = x.number /\ [x EXCEPT !.fate = "lost"].folder = x.folder
  BY DEF Fated, Fates
<1>3. Len(history) \in Nat /\ DOMAIN history = 1 .. Len(history) /\ \A r \in DOMAIN history : history[r] \in Fated
  BY MoreTypes
<1>4. history' \in [1 .. Len(history) -> Fated]
  BY <1>1, <1>2, <1>3
<1>5. history' \in Seq(Fated)
  BY <1>3, <1>4, SeqDef
<1>6. DOMAIN history' = DOMAIN history
  BY <1>1
<1>7. \A r \in DOMAIN history : /\ history'[r].number = history[r].number
                                /\ history'[r].folder = history[r].folder
  BY <1>1, <1>2, <1>3
<1> QED BY <1>5, <1>6, <1>7

LEMMA RestartKeeps ==
    ASSUME Ind, Restart
    PROVE  Ind'
<1>1. news' \in Seq(Items) /\ \A i \in DOMAIN news' : news'[i].run \in DOMAIN history
  BY WhatRestartDoes
<1>2. /\ engine' \in [attended : BOOLEAN, bounded : BOOLEAN, folder : Experiments \cup {0}]
      /\ apart' \subseteq Settings \cup {"folder"} /\ adrift' \subseteq Experiments
      /\ troubles' \in 0 .. MaxTroubles /\ changes' \in Nat
  <2>1. LetGo \subseteq Experiments
    BY MixedTyped
  <2>2. /\ engine' = [attended |-> TRUE, bounded |-> FALSE, folder |-> 0] /\ apart' = {}
        /\ adrift' = adrift \cup LetGo /\ changes' = changes /\ troubles' \in 0 .. MaxTroubles
    BY WhatRestartDoes
  <2>3. engine' \in [attended : BOOLEAN, bounded : BOOLEAN, folder : Experiments \cup {0}]
    BY <2>2
  <2>4. adrift \subseteq Experiments /\ changes \in Nat
    BY PlainTypes
  <2> QED BY <2>1, <2>2, <2>3, <2>4
<1>3. /\ disk' \in [Experiments -> Records] /\ record' \in Records
      /\ pointer' \in Experiments \cup {0} /\ current' \in Experiments \cup {0}
      /\ saveOk' \in BOOLEAN /\ calls' \in Seq(Calls)
      /\ saveOk' /\ current' # 0 => disk'[current'] = record'
  <2>0. PICK c \in Calls : c = Call("folder", 0)
    BY CallsTyped
  <2>1. CASE /\ pointer \in Experiments /\ disk[pointer] \in Records
             /\ pointer' = pointer /\ current' = pointer /\ record' = Resumed(disk[pointer])
             /\ disk' \in [Experiments -> Records] /\ saveOk' \in BOOLEAN
             /\ saveOk' => disk'[pointer] = Resumed(disk[pointer])
             /\ calls' = <<Call("folder", 0)>> \o Install(pointer, Resumed(disk[pointer]))
    <3>1. PICK e \in Experiments, r \in Records : e = pointer /\ r = Resumed(disk[pointer])
      BY <2>1, ResumedTyped
    <3>2. <<c>> \in Seq(Calls) /\ Install(e, r) \in Seq(Calls)
      BY InstallTyped
    <3>3. calls' \in Seq(Calls)
      BY <2>0, <2>1, <3>1, <3>2, ConcatProperties
    <3> QED BY <2>1, <3>1, <3>3
  <2>2. CASE /\ pointer' \in {pointer, 0} /\ current' = 0 /\ record' = NoRecord /\ saveOk' = TRUE
             /\ calls' = <<Call("folder", 0)>> /\ disk' = disk
    <3>1. <<c>> \in Seq(Calls)
      OBVIOUS
    <3> QED BY <2>0, <2>2, <3>1, PlainTypes, NoRecordTyped
  <2> QED BY <2>1, <2>2, WhatRestartDoes
<1>4. files' = files
  BY WhatRestartDoes
<1> QED BY <1>1, <1>2, <1>3, <1>4, RestartHistory, NoRunIsPlaced
-----------------------------------------------------------------------------
LEMMA InitHolds == Init => Ind
<1> SUFFICES ASSUME Init  PROVE Ind
  OBVIOUS
<1>1. TypeOK
  <2>1. disk \in [Experiments -> Records] /\ record \in Records
    <3>1. \A b \in BOOLEAN : [NoRecord EXCEPT !.made = b, !.open = b] \in Records
      BY NoRecordTyped DEF Records
    <3>2. \A e \in Experiments : (e \in MovedIn) \in BOOLEAN
      OBVIOUS
    <3>3. disk = [e \in Experiments |-> [NoRecord EXCEPT !.made = e \in MovedIn, !.open = e \in MovedIn]]
          /\ record = NoRecord
      BY DEF Init
    <3>4. \A e \in Experiments :
            [NoRecord EXCEPT !.made = e \in MovedIn, !.open = e \in MovedIn] \in Records
      BY <3>1, <3>2
    <3> QED BY <3>3, <3>4, NoRecordTyped
  <2>2. /\ {pointer, current} \subseteq Experiments \cup {0}
        /\ files \in [Experiments -> SUBSET Nat] /\ saveOk \in BOOLEAN
        /\ engine \in [attended : BOOLEAN, bounded : BOOLEAN, folder : Experiments \cup {0}]
        /\ apart \subseteq Settings \cup {"folder"} /\ adrift \subseteq Experiments
    BY DEF Init
  <2>3. /\ calls \in Seq(Calls)
        /\ news \in Seq([kind : {"started", "owner", "ended"}, run : Nat \ {0}])
        /\ history \in Seq([folder : Experiments, number : Nat, fate : Fates])
        /\ \A i \in DOMAIN news : news[i].run \in DOMAIN history
    <3>1. calls = <<>> /\ news = <<>> /\ history = <<>>
      BY DEF Init
    <3>2. \A S : <<>> \in Seq(S)
      OBVIOUS
    <3>3. DOMAIN news = {}
      BY <3>1
    <3> QED BY <3>1, <3>2, <3>3
  <2>4. troubles \in 0 .. MaxTroubles /\ changes \in Nat
    <3>1. troubles = 0 /\ changes = 0
      BY DEF Init
    <3> QED BY <3>1
  <2> QED BY <2>1, <2>2, <2>3, <2>4 DEF TypeOK
<1>2. NumbersAreTaken /\ NumbersAreUnique
  <2>1. history = <<>>
    BY DEF Init
  <2>2. DOMAIN history = {}
    BY <2>1
  <2> QED BY <2>2 DEF NumbersAreTaken, NumbersAreUnique
<1>3. FilesAreDense
  <2>1. 0 \in Nat /\ 1 .. 0 = {}
    OBVIOUS
  <2> QED BY <2>1 DEF Init, FilesAreDense
<1>4. NothingSilentlyStale
  BY DEF Init, NothingSilentlyStale
<1> QED BY <1>1, <1>2, <1>3, <1>4 DEF Ind

LEMMA StepHolds == Ind /\ [Next]_vars => Ind'
<1> SUFFICES ASSUME Ind, [Next]_vars  PROVE Ind'
  OBVIOUS
<1>1. CASE UNCHANGED vars
  BY <1>1 DEF vars, Ind, TypeOK, NumbersAreTaken, FilesAreDense, NumbersAreUnique, NothingSilentlyStale
<1>2. ASSUME NEW p \in Asked, StartExperiment(p.attended, p.bounded)  PROVE Ind'
  <2>1. p.attended \in BOOLEAN /\ p.bounded \in BOOLEAN
    OBVIOUS
  <2> QED BY <1>2, <2>1, StartExperimentKeeps
<1> QED BY <1>1, <1>2, CloseExperimentKeeps, SwitchExperimentKeeps, SetExperimentEnvelopeKeeps,
           SetAttendedKeeps, RequestRunKeeps, TakeCallKeeps, PolicyByFileKeeps, EndRunKeeps, HearKeeps,
           RestartKeeps DEF Next

\* Every variable has its type, whatever the bounds.
THEOREM TypesAreKept == Spec => []TypeOK
<1>1. Ind => TypeOK
  BY DEF Ind
<1> QED BY <1>1, InitHolds, StepHolds, PTL DEF Spec

\* While the store is shown as sound the live record is the one on the disk:
\* "so a stale disk copy is never silent" (_save_current).
THEOREM StalenessIsShown == Spec => []NothingSilentlyStale
<1>1. Ind => NothingSilentlyStale
  BY DEF Ind
<1> QED BY <1>1, InitHolds, StepHolds, PTL DEF Spec

\* No two runs of one experiment have one number, whatever crashes and whichever
\* runs never start (next_run_number).
THEOREM RunsAreNumberedApart == Spec => []NumbersAreUnique
<1>1. Ind => NumbersAreUnique
  BY DEF Ind
<1> QED BY <1>1, InitHolds, StepHolds, PTL DEF Spec
-----------------------------------------------------------------------------
(* The policy that the commands on their way install.                       *)

\* What the engine eng will have in force after the commands s, in all but what
\* is loose.
Enforced(s, eng, folder, bounded, attended, loose) ==
    /\ "folder" \notin loose => After(s, Len(s), eng.folder, "folder", folder)
    /\ "bounded" \notin loose => After(s, Len(s), eng.bounded, "bounded", bounded)
    /\ folder # 0 /\ "attended" \notin loose => After(s, Len(s), eng.attended, "attended", attended)

Bounded  == current # 0 /\ record.bounded
Followed == Enforced(calls, engine, current, Bounded, record.attended, apart)

LEMMA FollowedMeans == PolicyFollowsTheRecord <=> Followed
BY DEF PolicyFollowsTheRecord, Followed, Enforced, Bounded

LEMMA InstallEnforces ==
    ASSUME NEW s \in Seq(Calls), NEW eng, NEW e \in Experiments, NEW r \in Records
    PROVE  Enforced(s \o Install(e, r), eng, e, r.bounded, r.attended, {})
<1>1. PICK cs \in Seq(Calls) :
        /\ cs = Install(e, r) /\ Len(cs) = 3 /\ cs[1] = Call("bounded", r.bounded)
        /\ cs[2] = Call("attended", r.attended) /\ cs[3] = Call("folder", e)
  BY InstallTyped
<1>2. /\ cs[1].what = "bounded" /\ cs[1].value = r.bounded
      /\ cs[2].what = "attended" /\ cs[2].value = r.attended
      /\ cs[3].what = "folder" /\ cs[3].value = e
  BY <1>1 DEF Call
<1>3. /\ 1 \in 1 .. Len(cs) /\ 2 \in 1 .. Len(cs) /\ 3 \in 1 .. Len(cs)
      /\ 1 + 1 .. Len(cs) = {2, 3} /\ 2 + 1 .. Len(cs) = {3} /\ 3 + 1 .. Len(cs) = {}
  BY <1>1
<1>4. After(s \o cs, Len(s \o cs), eng.folder, "folder", e)
  <2>1. \A j \in 3 + 1 .. Len(cs) : cs[j].what # "folder"
    BY <1>3
  <2> QED BY <1>2, <1>3, <2>1, AfterLast
<1>5. After(s \o cs, Len(s \o cs), eng.bounded, "bounded", r.bounded)
  <2>1. \A j \in 1 + 1 .. Len(cs) : cs[j].what # "bounded"
    BY <1>2, <1>3
  <2> QED BY <1>2, <1>3, <2>1, AfterLast
<1>6. After(s \o cs, Len(s \o cs), eng.attended, "attended", r.attended)
  <2>1. \A j \in 2 + 1 .. Len(cs) : cs[j].what # "attended"
    BY <1>2, <1>3
  <2> QED BY <1>2, <1>3, <2>1, AfterLast
<1> QED BY <1>1, <1>4, <1>5, <1>6 DEF Enforced

LEMMA CloseEnforces ==
    ASSUME NEW s \in Seq(Calls), NEW eng, NEW attended, NEW loose
    PROVE  Enforced(s \o <<Call("bounded", FALSE), Call("folder", 0)>>, eng, 0, FALSE, attended, loose)
<1>1. PICK cs \in Seq(Calls) :
        /\ cs = <<Call("bounded", FALSE), Call("folder", 0)>> /\ Len(cs) = 2
        /\ cs[1] = Call("bounded", FALSE) /\ cs[2] = Call("folder", 0)
  <2>1. PICK a \in Calls, b \in Calls : a = Call("bounded", FALSE) /\ b = Call("folder", 0)
    BY CallsTyped
  <2>2. <<a, b>> \in Seq(Calls) /\ Len(<<a, b>>) = 2 /\ <<a, b>>[1] = a /\ <<a, b>>[2] = b
    OBVIOUS
  <2> QED BY <2>1, <2>2
<1>2. /\ cs[1].what = "bounded" /\ cs[1].value = FALSE
      /\ cs[2].what = "folder" /\ cs[2].value = 0
  BY <1>1 DEF Call
<1>3. /\ 1 \in 1 .. Len(cs) /\ 2 \in 1 .. Len(cs)
      /\ 1 + 1 .. Len(cs) = {2} /\ 2 + 1 .. Len(cs) = {}
  BY <1>1
<1>4. After(s \o cs, Len(s \o cs), eng.folder, "folder", 0)
  <2>1. \A j \in 2 + 1 .. Len(cs) : cs[j].what # "folder"
    BY <1>3
  <2> QED BY <1>2, <1>3, <2>1, AfterLast
<1>5. After(s \o cs, Len(s \o cs), eng.bounded, "bounded", FALSE)
  <2>1. \A j \in 1 + 1 .. Len(cs) : cs[j].what # "bounded"
    BY <1>2, <1>3
  <2> QED BY <1>2, <1>3, <2>1, AfterLast
<1> QED BY <1>1, <1>4, <1>5 DEF Enforced

\* One more command decides its own matter and leaves the others.
LEMMA OneMore ==
    ASSUME NEW s \in Seq(Calls), NEW c \in Calls, NEW now, NEW what, NEW v
    PROVE  /\ c.what = what => After(s \o <<c>>, Len(s \o <<c>>), now, what, c.value)
           /\ c.what # what /\ After(s, Len(s), now, what, v)
                => After(s \o <<c>>, Len(s \o <<c>>), now, what, v)
<1>1. PICK cs \in Seq(Calls) : cs = <<c>> /\ Len(cs) = 1 /\ cs[1] = c
  <2>1. <<c>> \in Seq(Calls) /\ Len(<<c>>) = 1 /\ <<c>>[1] = c
    OBVIOUS
  <2> QED BY <2>1
<1>2. 1 \in 1 .. Len(cs) /\ 1 + 1 .. Len(cs) = {} /\ \A j \in 1 .. Len(cs) : cs[j] = c
  BY <1>1
<1>3. ASSUME c.what = what  PROVE After(s \o cs, Len(s \o cs), now, what, c.value)
  <2>1. \A j \in 1 + 1 .. Len(cs) : cs[j].what # what
    BY <1>2
  <2> QED BY <1>1, <1>2, <1>3, <2>1, AfterLast
<1>4. ASSUME c.what # what, After(s, Len(s), now, what, v)
      PROVE  After(s \o cs, Len(s \o cs), now, what, v)
  <2>1. \A j \in 1 .. Len(cs) : cs[j].what # what
    BY <1>2, <1>4
  <2> QED BY <1>4, <2>1, AfterOthers
<1> QED BY <1>1, <1>3, <1>4

\* Taking a command changes nothing of what will be enforced.
LEMMA TakingEnforces ==
    ASSUME NEW s \in Seq(Calls), s # <<>>, NEW eng, NEW then,
           then.folder = (IF s[1].what = "folder" THEN s[1].value ELSE eng.folder),
           then.bounded = (IF s[1].what = "bounded" THEN s[1].value ELSE eng.bounded),
           then.attended = (IF s[1].what = "attended" THEN s[1].value ELSE eng.attended),
           NEW folder, NEW bounded, NEW attended, NEW loose,
           Enforced(s, eng, folder, bounded, attended, loose)
    PROVE  Enforced(Tail(s), then, folder, bounded, attended, loose)
<1>1. Len(s) \in 1 .. Len(s) /\ Len(Tail(s)) = Len(s) - 1
  BY HeadTailProperties, EmptySeq, LenProperties
<1>2. "folder" \notin loose => After(Tail(s), Len(s) - 1, then.folder, "folder", folder)
  BY <1>1, AfterTake DEF Enforced
<1>3. "bounded" \notin loose => After(Tail(s), Len(s) - 1, then.bounded, "bounded", bounded)
  BY <1>1, AfterTake DEF Enforced
<1>4. folder # 0 /\ "attended" \notin loose
        => After(Tail(s), Len(s) - 1, then.attended, "attended", attended)
  BY <1>1, AfterTake DEF Enforced
<1> QED BY <1>1, <1>2, <1>3, <1>4 DEF Enforced

\* A record that becomes live, once its policy is on the way.
LEMMA LiveIsFollowed ==
    ASSUME NEW e \in Experiments, NEW r \in Records, current' = e, record' = r,
           engine' = engine, apart' = {}, Enforced(calls', engine, e, r.bounded, r.attended, {})
    PROVE  Followed'
<1>1. r.bounded \in BOOLEAN /\ e # 0
  BY DEF Records, Experiments
<1>2. (e # 0 /\ r.bounded) = r.bounded
  BY <1>1
<1>3. Bounded' = r.bounded
  BY <1>2 DEF Bounded
<1> QED BY <1>3 DEF Followed

LEMMA Posted ==
    ASSUME NEW cs, Post(cs)
    PROVE  calls' = calls \o cs
BY DEF Post

LEMMA NothingChanges ==
    ASSUME Followed, calls' = calls, engine' = engine, current' = current, apart' = apart,
           record'.bounded = record.bounded, record'.attended = record.attended
    PROVE  Followed'
<1>1. Bounded' = Bounded
  BY DEF Bounded
<1> QED BY <1>1 DEF Followed

LEMMA StartExperimentFollows ==
    ASSUME Ind, Followed, NEW attended \in BOOLEAN, NEW bounded \in BOOLEAN,
           StartExperiment(attended, bounded)
    PROVE  Followed'
<1> PICK e : e = Max(Stored \cup {0}) + 1
  OBVIOUS
<1> PICK r : r = [made |-> TRUE, open |-> TRUE, attended |-> attended, bounded |-> bounded, runs |-> <<>>]
  OBVIOUS
<1>1. /\ e \in Experiments /\ engine' = engine
      /\ \/ current' = e /\ record' = r /\ Post(Install(e, r)) /\ apart' = {}
         \/ UNCHANGED <<current, record, calls, apart>>
  BY DEF StartExperiment, engineVars
<1>2. r \in Records
  <2>1. <<>> \in Seq(Entries)
    OBVIOUS
  <2> QED BY <2>1 DEF Records
<1>3. CASE current' = e /\ record' = r /\ Post(Install(e, r)) /\ apart' = {}
  <2>1. Enforced(calls \o Install(e, r), engine, e, r.bounded, r.attended, {})
    BY <1>1, <1>2, PlainTypes, InstallEnforces
  <2>2. calls' = calls \o Install(e, r)
    BY <1>3, Posted
  <2> QED BY <1>1, <1>2, <1>3, <2>1, <2>2, LiveIsFollowed
<1> QED BY <1>1, <1>3, NothingChanges

LEMMA CloseExperimentFollows ==
    ASSUME Ind, Followed, CloseExperiment
    PROVE  Followed'
<1>1. /\ engine' = engine
      /\ \/ /\ current' = 0 /\ record' = NoRecord
            /\ Post(<<Call("bounded", FALSE), Call("folder", 0)>>)
         \/ record' = [record EXCEPT !.open = FALSE] /\ UNCHANGED <<current, calls, apart>>
  BY DEF CloseExperiment, engineVars
<1>2. CASE /\ current' = 0 /\ record' = NoRecord
           /\ Post(<<Call("bounded", FALSE), Call("folder", 0)>>)
  <2>1. Enforced(calls \o <<Call("bounded", FALSE), Call("folder", 0)>>, engine, 0, FALSE,
                 record'.attended, apart')
    <3> PICK a, loose : a = record'.attended /\ loose = apart'
      OBVIOUS
    <3> QED BY PlainTypes, CloseEnforces
  <2>2. calls' = calls \o <<Call("bounded", FALSE), Call("folder", 0)>>
    BY <1>2, Posted
  <2>3. Bounded' = FALSE
    BY <1>2 DEF Bounded
  <2> QED BY <1>1, <1>2, <2>1, <2>2, <2>3 DEF Followed
<1>3. CASE record' = [record EXCEPT !.open = FALSE] /\ UNCHANGED <<current, calls, apart>>
  <2>1. record'.bounded = record.bounded /\ record'.attended = record.attended
    BY <1>3, PlainTypes DEF Records
  <2> QED BY <1>1, <1>3, <2>1, NothingChanges
<1> QED BY <1>1, <1>2, <1>3

LEMMA SwitchExperimentFollows ==
    ASSUME Ind, Followed, NEW e \in Experiments, SwitchExperiment(e)
    PROVE  Followed'
<1>1. /\ engine' = engine /\ current' = e /\ record' = disk[e]
      /\ \/ Post(Install(e, disk[e])) /\ apart' = {}
         \/ apart' = Settings \cup {"folder"}
  BY DEF SwitchExperiment, engineVars
<1>2. PICK r \in Records : r = disk[e]
  BY PlainTypes
<1>3. CASE Post(Install(e, disk[e])) /\ apart' = {}
  <2>1. Enforced(calls \o Install(e, r), engine, e, r.bounded, r.attended, {})
    BY PlainTypes, InstallEnforces
  <2>2. calls' = calls \o Install(e, r)
    BY <1>2, <1>3, Posted
  <2> QED BY <1>1, <1>2, <1>3, <2>1, <2>2, LiveIsFollowed
<1>4. CASE apart' = Settings \cup {"folder"}
  BY <1>4 DEF Followed, Enforced, Settings
<1> QED BY <1>1, <1>3, <1>4

LEMMA SetExperimentEnvelopeFollows ==
    ASSUME Ind, Followed, NEW bounded \in BOOLEAN, SetExperimentEnvelope(bounded)
    PROVE  Followed'
<1>1. /\ engine' = engine /\ current # 0 /\ current' = current
      /\ record' = [record EXCEPT !.bounded = bounded] /\ Post(<<Call("bounded", bounded)>>)
      /\ apart' = apart \ {"bounded"}
  BY DEF SetExperimentEnvelope, engineVars
<1>2. PICK c \in Calls : c = Call("bounded", bounded)
  BY CallsTyped
<1>3. c.what = "bounded" /\ c.value = bounded /\ c.what # "folder" /\ c.what # "attended"
  BY <1>2 DEF Call
<1>4. calls' = calls \o <<c>> /\ calls \in Seq(Calls)
  BY <1>1, <1>2, Posted, PlainTypes
<1>5. record'.bounded = bounded /\ record'.attended = record.attended
  BY <1>1, PlainTypes DEF Records
<1>6. Bounded' = bounded
  BY <1>1, <1>5 DEF Bounded
<1>7. "folder" \notin apart => After(calls \o <<c>>, Len(calls \o <<c>>), engine.folder, "folder", current)
  BY <1>3, <1>4, OneMore DEF Followed, Enforced
<1>8. After(calls \o <<c>>, Len(calls \o <<c>>), engine.bounded, "bounded", bounded)
  BY <1>3, <1>4, OneMore
<1>9. current # 0 /\ "attended" \notin apart
        => After(calls \o <<c>>, Len(calls \o <<c>>), engine.attended, "attended", record.attended)
  BY <1>3, <1>4, OneMore DEF Followed, Enforced
<1>10. Enforced(calls \o <<c>>, engine, current, bounded, record.attended, apart')
  BY <1>1, <1>7, <1>8, <1>9 DEF Enforced
<1> QED BY <1>1, <1>4, <1>5, <1>6, <1>10 DEF Followed

LEMMA SetAttendedFollows ==
    ASSUME Ind, Followed, NEW attended \in BOOLEAN, SetAttended(attended)
    PROVE  Followed'
<1>1. /\ engine' = engine /\ current' = current /\ Post(<<Call("attended", attended)>>)
      /\ apart' = apart \ {"attended"}
      /\ IF current # 0 THEN record' = [record EXCEPT !.attended = attended] ELSE record' = record
  BY DEF SetAttended, engineVars
<1>2. PICK c \in Calls : c = Call("attended", attended)
  BY CallsTyped
<1>3. c.what = "attended" /\ c.value = attended /\ c.what # "folder" /\ c.what # "bounded"
  BY <1>2 DEF Call
<1>4. calls' = calls \o <<c>> /\ calls \in Seq(Calls)
  BY <1>1, <1>2, Posted, PlainTypes
<1>5. record'.bounded = record.bounded /\ (current # 0 => record'.attended = attended)
  BY <1>1, PlainTypes DEF Records
<1>6. Bounded' = Bounded
  BY <1>1, <1>5 DEF Bounded
<1>7. "folder" \notin apart => After(calls \o <<c>>, Len(calls \o <<c>>), engine.folder, "folder", current)
  BY <1>3, <1>4, OneMore DEF Followed, Enforced
<1>8. "bounded" \notin apart => After(calls \o <<c>>, Len(calls \o <<c>>), engine.bounded, "bounded", Bounded)
  BY <1>3, <1>4, OneMore DEF Followed, Enforced
<1>9. After(calls \o <<c>>, Len(calls \o <<c>>), engine.attended, "attended", attended)
  BY <1>3, <1>4, OneMore
<1>10. Enforced(calls \o <<c>>, engine, current, Bounded, record'.attended, apart')
  BY <1>1, <1>5, <1>7, <1>8, <1>9 DEF Enforced
<1> QED BY <1>1, <1>4, <1>6, <1>10 DEF Followed

LEMMA RequestRunFollows ==
    ASSUME Ind, Followed, RequestRun
    PROVE  Followed'
<1>1. UNCHANGED <<engine, current, record, apart>> /\ Post(<<Call("run", 0)>>)
  BY DEF RequestRun, engineVars, clientVars
<1>2. PICK c \in Calls : c = Call("run", 0)
  BY CallsTyped
<1>3. c.what # "attended" /\ c.what # "folder" /\ c.what # "bounded"
  BY <1>2 DEF Call
<1>4. calls' = calls \o <<c>> /\ calls \in Seq(Calls)
  BY <1>1, <1>2, Posted, PlainTypes
<1>5. Bounded' = Bounded
  BY <1>1 DEF Bounded
<1>7. "folder" \notin apart => After(calls \o <<c>>, Len(calls \o <<c>>), engine.folder, "folder", current)
  BY <1>3, <1>4, OneMore DEF Followed, Enforced
<1>8. "bounded" \notin apart => After(calls \o <<c>>, Len(calls \o <<c>>), engine.bounded, "bounded", Bounded)
  BY <1>3, <1>4, OneMore DEF Followed, Enforced
<1>9. current # 0 /\ "attended" \notin apart
        => After(calls \o <<c>>, Len(calls \o <<c>>), engine.attended, "attended", record.attended)
  BY <1>3, <1>4, OneMore DEF Followed, Enforced
<1>10. Enforced(calls \o <<c>>, engine, current, Bounded, record.attended, apart)
  BY <1>7, <1>8, <1>9 DEF Enforced
<1> QED BY <1>1, <1>4, <1>5, <1>10 DEF Followed

LEMMA TakeCallFollows ==
    ASSUME Ind, Followed, TakeCall
    PROVE  Followed'
<1>1. calls \in Seq(Calls) /\ calls # <<>> /\ calls' = Tail(calls) /\ UNCHANGED <<current, record, apart>>
  BY TakeCallTypes, PlainTypes DEF TakeCall, clientVars
<1>2. PICK c \in Calls : c = calls[1] /\ c = Head(calls)
  BY TakeCallTypes
<1>3. PICK then : then = engine'
  OBVIOUS
<1>4. /\ then.folder = (IF calls[1].what = "folder" THEN calls[1].value ELSE engine.folder)
      /\ then.bounded = (IF calls[1].what = "bounded" THEN calls[1].value ELSE engine.bounded)
      /\ then.attended = (IF calls[1].what = "attended" THEN calls[1].value ELSE engine.attended)
  <2>1. engine' = CASE c.what = "bounded"  -> [engine EXCEPT !.bounded = c.value]
                    [] c.what = "attended" -> [engine EXCEPT !.attended = c.value]
                    [] c.what = "folder"   -> [engine EXCEPT !.folder = c.value]
                    [] OTHER               -> engine
    BY <1>2 DEF TakeCall
  <2>2. engine \in [attended : BOOLEAN, bounded : BOOLEAN, folder : Experiments \cup {0}]
    BY PlainTypes
  <2>3. CASE c.what = "bounded"
    BY <1>2, <1>3, <2>1, <2>2, <2>3
  <2>4. CASE c.what = "attended"
    BY <1>2, <1>3, <2>1, <2>2, <2>4
  <2>5. CASE c.what = "folder"
    BY <1>2, <1>3, <2>1, <2>2, <2>5
  <2>6. CASE c.what \notin {"bounded", "attended", "folder"}
    BY <1>2, <1>3, <2>1, <2>2, <2>6
  <2> QED BY <2>3, <2>4, <2>5, <2>6
<1>5. Enforced(Tail(calls), then, current, Bounded, record.attended, apart)
  <2>1. Enforced(calls, engine, current, Bounded, record.attended, apart)
    BY DEF Followed
  <2> QED BY <1>1, <1>4, <2>1, TakingEnforces
<1>6. Bounded' = Bounded
  BY <1>1 DEF Bounded
<1> QED BY <1>1, <1>3, <1>5, <1>6 DEF Followed

\* A request file that sets what a command on its way is about changes nothing of
\* what will be in force; otherwise what it sets is apart from then on.
LEMMA PolicyByFileFollows ==
    ASSUME Ind, Followed, NEW what \in Settings, NEW value \in BOOLEAN, PolicyByFile(what, value)
    PROVE  Followed'
<1>1. /\ engine' = [engine EXCEPT ![what] = value] /\ UNCHANGED <<current, record, calls>>
      /\ \/ apart' = apart /\ \E i \in DOMAIN calls : calls[i].what = what
         \/ apart' = apart \cup {what}
  BY DEF PolicyByFile, clientVars
<1>2. engine \in [attended : BOOLEAN, bounded : BOOLEAN, folder : Experiments \cup {0}]
      /\ calls \in Seq(Calls)
  BY PlainTypes
<1>3. DOMAIN calls = 1 .. Len(calls) /\ Len(calls) \in Nat
  BY <1>2, LenProperties
<1>4. engine'.folder = engine.folder
  BY <1>1, <1>2 DEF Settings
<1>5. what # "bounded" => engine'.bounded = engine.bounded
  BY <1>1, <1>2
<1>6. what # "attended" => engine'.attended = engine.attended
  BY <1>1, <1>2
<1>7. ASSUME NEW x \in Settings, NEW v, NEW then, NEW now, x \notin apart',
             x # what => then = now, After(calls, Len(calls), now, x, v)
      PROVE  After(calls, Len(calls), then, x, v)
  <2>1. CASE x # what
    BY <1>7, <2>1
  <2>2. CASE x = what
    <3>1. PICK i \in 1 .. Len(calls) : calls[i].what = x
      BY <1>1, <1>3, <1>7, <2>2
    <3> QED BY <1>7, <3>1 DEF After
  <2> QED BY <2>1, <2>2
<1>8. apart \subseteq apart' /\ Bounded' = Bounded
  BY <1>1 DEF Bounded
<1>9. PICK then : then = engine'
  OBVIOUS
<1>10. "folder" \notin apart' => After(calls, Len(calls), then.folder, "folder", current)
  BY <1>4, <1>8, <1>9 DEF Followed, Enforced
<1>11. "bounded" \notin apart' => After(calls, Len(calls), then.bounded, "bounded", Bounded)
  BY <1>5, <1>7, <1>8, <1>9 DEF Followed, Enforced, Settings
<1>12. current # 0 /\ "attended" \notin apart'
         => After(calls, Len(calls), then.attended, "attended", record.attended)
  BY <1>6, <1>7, <1>8, <1>9 DEF Followed, Enforced, Settings
<1>13. Enforced(calls, then, current, Bounded, record.attended, apart')
  BY <1>10, <1>11, <1>12 DEF Enforced
<1> QED BY <1>1, <1>8, <1>9, <1>13 DEF Followed

LEMMA HearFollows ==
    ASSUME Ind, Followed, Hear
    PROVE  Followed'
<1>1. UNCHANGED <<engine, current, calls, apart>>
  BY WhatHearDoes
<1>2. record'.bounded = record.bounded /\ record'.attended = record.attended
  <2>1. record \in Records
    BY PlainTypes
  <2>2. record' = record \/ \E runs : record' = [record EXCEPT !.runs = runs]
    BY DEF Hear, RunStarted, OwnerStamped, RunFinished
  <2> QED BY <2>1, <2>2 DEF Records
<1> QED BY <1>1, <1>2, NothingChanges

LEMMA RestartFollows ==
    ASSUME Ind, Restart
    PROVE  Followed'
<1>1. PICK eng : eng = [attended |-> TRUE, bounded |-> FALSE, folder |-> 0] /\ engine' = eng
  BY WhatRestartDoes
<1>2. PICK c \in Calls : c = Call("folder", 0)
  BY CallsTyped
<1>3. <<c>> \in Seq(Calls) /\ Len(<<c>>) = 1 /\ <<c>>[1] = c /\ c.what = "folder" /\ c.value = 0
  BY <1>2 DEF Call
<1>6. apart' = {}
  BY WhatRestartDoes
<1>4. CASE /\ pointer \in Experiments /\ disk[pointer] \in Records
           /\ current' = pointer /\ record' = Resumed(disk[pointer])
           /\ calls' = <<Call("folder", 0)>> \o Install(pointer, Resumed(disk[pointer]))
  <2>1. PICK e \in Experiments, r \in Records : e = pointer /\ r = Resumed(disk[pointer])
    BY <1>4, ResumedTyped
  <2>2. calls' = <<c>> \o Install(e, r)
    BY <1>2, <1>4, <2>1
  <2>3. Enforced(<<c>> \o Install(e, r), eng, e, r.bounded, r.attended, {})
    BY <1>3, InstallEnforces
  <2>4. (e # 0 /\ r.bounded) = r.bounded
    <3>1. r.bounded \in BOOLEAN /\ e # 0
      BY DEF Records, Experiments
    <3> QED BY <3>1
  <2>5. Bounded' = r.bounded
    BY <1>4, <2>1, <2>4 DEF Bounded
  <2> QED BY <1>1, <1>4, <1>6, <2>1, <2>2, <2>3, <2>5 DEF Followed
<1>5. CASE current' = 0 /\ calls' = <<Call("folder", 0)>>
  <2>1. Enforced(<<c>>, eng, 0, FALSE, record'.attended, {})
    <3>1. 1 .. Len(<<c>>) = {1} /\ 1 + 1 .. Len(<<c>>) = {}
      BY <1>3
    <3> HIDE DEF Call
    <3>2. After(<<c>>, Len(<<c>>), eng.folder, "folder", 0)
      BY <1>3, <3>1 DEF After
    <3>3. After(<<c>>, Len(<<c>>), eng.bounded, "bounded", FALSE)
      BY <1>1, <1>3, <3>1 DEF After
    <3> QED BY <3>2, <3>3 DEF Enforced
  <2>2. Bounded' = FALSE
    BY <1>5 DEF Bounded
  <2> QED BY <1>1, <1>2, <1>5, <1>6, <2>1, <2>2 DEF Followed
<1> QED BY <1>4, <1>5, WhatRestartDoes
-----------------------------------------------------------------------------
LEMMA FollowedAtFirst == Init => Followed
<1> SUFFICES ASSUME Init  PROVE Followed
  OBVIOUS
<1>1. /\ calls = <<>> /\ current = 0 /\ engine = [attended |-> TRUE, bounded |-> FALSE, folder |-> 0]
  BY DEF Init
<1>2. Len(calls) = 0 /\ 1 .. Len(calls) = {}
  BY <1>1
<1>3. Bounded = FALSE
  BY <1>1 DEF Bounded
<1> QED BY <1>1, <1>2, <1>3 DEF Followed, Enforced, After

LEMMA FollowedAfterAStep == Ind /\ Followed /\ [Next]_vars => Followed'
<1> SUFFICES ASSUME Ind, Followed, [Next]_vars  PROVE Followed'
  OBVIOUS
<1>1. CASE UNCHANGED vars
  BY <1>1, NothingChanges DEF vars
<1>2. ASSUME NEW p \in Asked, StartExperiment(p.attended, p.bounded)  PROVE Followed'
  <2>1. p.attended \in BOOLEAN /\ p.bounded \in BOOLEAN
    OBVIOUS
  <2> QED BY <1>2, <2>1, StartExperimentFollows
<1>3. CASE EndRun
  BY <1>3, NothingChanges DEF EndRun, clientVars
<1> QED BY <1>1, <1>2, <1>3, CloseExperimentFollows, SwitchExperimentFollows,
           SetExperimentEnvelopeFollows, SetAttendedFollows, RequestRunFollows, TakeCallFollows,
           PolicyByFileFollows, HearFollows, RestartFollows DEF Next

\* Whatever is started, closed, switched, toggled or resumed, and whatever a request
\* file sets in between, the engine comes to enforce the policy of the live record,
\* and runs nothing with none open: but for what a switch whose pointer could not be
\* written, or a request file, has set apart and no later command has mended
\* (start_experiment, switch_experiment, close_experiment, set_attended, the resume).
THEOREM PolicyIsFollowed == Spec => []PolicyFollowsTheRecord
<1>1. Init => Ind /\ Followed
  BY InitHolds, FollowedAtFirst
<1>2. Ind /\ Followed /\ [Next]_vars => (Ind /\ Followed)'
  BY StepHolds, FollowedAfterAStep
<1>3. Followed => PolicyFollowsTheRecord
  BY FollowedMeans
<1> QED BY <1>1, <1>2, <1>3, PTL DEF Spec
-----------------------------------------------------------------------------
(* What the records say of the runs: the books of one experiment, against   *)
(* the history h and the news w that is on its way.                         *)

Coming(w, r, kind) == \E i \in DOMAIN w : w[i].run = r /\ w[i].kind = kind
Quiet(w, r)        == \A i \in DOMAIN w : w[i].run # r

\* The news of a run comes in its order: its start first and its end last, which
\* comes for every run that has ended and whose start is still to be heard.
InOrder(h, w) ==
    /\ \A i, j \in DOMAIN w : i < j /\ w[i].run = w[j].run => w[i].kind # "ended" /\ w[j].kind # "started"
    /\ \A i \in DOMAIN w :
          /\ h[w[i].run].fate \in {"running", "done", "failed"}
          /\ w[i].kind = "ended" => h[w[i].run].fate # "running"
          /\ w[i].kind = "started" => h[w[i].run].fate = "running" \/ Coming(w, w[i].run, "ended")

\* An entry is that of a run of this experiment whose start has been heard, and
\* nothing more comes of a run whose end is recorded.  o says that the record is open.
TrueEntry(x, e, h, w, o) ==
    /\ x.run \in DOMAIN h /\ h[x.run].folder = e /\ h[x.run].number = x.number
    /\ x.owner \in {0, x.run}
    /\ \/ x.status = "running" /\ (h[x.run].fate = "running" \/ Coming(w, x.run, "ended"))
       \/ x.status = h[x.run].fate
       \/ x.status = "failed" /\ h[x.run].fate = "lost"
       \/ x.status = "running" /\ h[x.run].fate = "lost" /\ ~o
    /\ ~Coming(w, x.run, "started")
    /\ x.status # "running" => Quiet(w, x.run)

Distinct(runs) == \A i, j \in DOMAIN runs : i # j => runs[i].run # runs[j].run

Complete(runs, e, h, w) ==
    \A r \in DOMAIN h :
        h[r].folder = e /\ h[r].fate \notin {"never started", "lost"} /\ ~Coming(w, r, "started")
            => \E i \in DOMAIN runs : runs[i].run = r

TrueBook(runs, e, h, w, o) ==
    /\ \A i \in DOMAIN runs : TrueEntry(runs[i], e, h, w, o)
    /\ Distinct(runs) /\ Complete(runs, e, h, w)

\* A run that was placed: its start is on the way, or it never started.
LEMMA BookAfterPlacing ==
    ASSUME NEW runs, NEW e, NEW o, NEW h, NEW w, NEW g, NEW v, NEW m,
           TrueBook(runs, e, h, w, o),
           m \notin DOMAIN h, DOMAIN g = DOMAIN h \cup {m}, \A r \in DOMAIN h : g[r] = h[r],
           \A r \in DOMAIN h : \A k \in Kinds : Coming(v, r, k) <=> Coming(w, r, k),
           \A r \in DOMAIN h : Quiet(w, r) => Quiet(v, r),
           g[m].fate = "never started" \/ Coming(v, m, "started")
    PROVE  TrueBook(runs, e, g, v, o)
<1>1. ASSUME NEW i \in DOMAIN runs  PROVE TrueEntry(runs[i], e, g, v, o)
  <2>1. TrueEntry(runs[i], e, h, w, o)
    BY DEF TrueBook
  <2>2. "ended" \in Kinds /\ "started" \in Kinds
    BY DEF Kinds
  <2> QED BY <2>1, <2>2 DEF TrueEntry
<1>2. Complete(runs, e, g, v)
  BY DEF TrueBook, Complete, Kinds
<1> QED BY <1>1, <1>2 DEF TrueBook

\* A run that ends, with its end on the way.
LEMMA BookAfterEnding ==
    ASSUME NEW runs, NEW e, NEW o, NEW h, NEW w, NEW g, NEW v, NEW m,
           TrueBook(runs, e, h, w, o),
           m \in DOMAIN h, DOMAIN g = DOMAIN h, \A r \in DOMAIN h \ {m} : g[r] = h[r],
           g[m].folder = h[m].folder, g[m].number = h[m].number, h[m].fate = "running",
           Coming(v, m, "ended"),
           \A r \in DOMAIN h : Coming(w, r, "ended") => Coming(v, r, "ended"),
           \A r \in DOMAIN h : Coming(v, r, "started") <=> Coming(w, r, "started"),
           \A r \in DOMAIN h \ {m} : Quiet(w, r) => Quiet(v, r)
    PROVE  TrueBook(runs, e, g, v, o)
<1>1. ASSUME NEW i \in DOMAIN runs  PROVE TrueEntry(runs[i], e, g, v, o)
  <2>1. TrueEntry(runs[i], e, h, w, o)
    BY DEF TrueBook
  <2>2. CASE runs[i].run = m
    <3>1. runs[i].status = "running"
      BY <2>1, <2>2 DEF TrueEntry
    <3> QED BY <2>1, <2>2, <3>1 DEF TrueEntry
  <2>3. CASE runs[i].run # m
    BY <2>1, <2>3 DEF TrueEntry
  <2> QED BY <2>2, <2>3
<1>2. Complete(runs, e, g, v)
  BY ZenonT(60) DEF TrueBook, Complete
<1> QED BY <1>1, <1>2 DEF TrueBook

\* The news of the run m has been taken from w, and v is left of it.
Taken(w, v, m, kind) ==
    /\ \A r, k : Coming(w, r, k) <=> Coming(v, r, k) \/ (r = m /\ k = kind)
    /\ \A r : Quiet(w, r) <=> Quiet(v, r) /\ r # m

LEMMA TakenFromTheFront ==
    ASSUME NEW w \in Seq(Items), w # <<>>
    PROVE  Taken(w, Tail(w), w[1].run, w[1].kind)
<1>1. PICK v : v = Tail(w)
  OBVIOUS
<1>2. /\ Len(w) \in Nat \ {0} /\ DOMAIN w = 1 .. Len(w) /\ DOMAIN v = 1 .. Len(w) - 1
      /\ \A i \in DOMAIN v : v[i] = w[i + 1]
  <2>1. Len(w) \in Nat /\ DOMAIN w = 1 .. Len(w) /\ Len(w) # 0
    BY LenProperties, EmptySeq
  <2>2. v \in Seq(Items) /\ Len(v) = Len(w) - 1 /\ \A i \in 1 .. Len(v) : v[i] = w[i + 1]
    BY <1>1, HeadTailProperties
  <2>3. DOMAIN v = 1 .. Len(v)
    BY <2>2, LenProperties
  <2> QED BY <2>1, <2>2, <2>3
<1>3. \A i \in DOMAIN w : i = 1 \/ (i - 1 \in DOMAIN v /\ v[i - 1] = w[i])
  BY <1>2
<1>4. 1 \in DOMAIN w /\ \A i \in DOMAIN v : i + 1 \in DOMAIN w /\ w[i + 1] = v[i]
  BY <1>2
<1>5. \A r, k : Coming(w, r, k) <=> Coming(v, r, k) \/ (r = w[1].run /\ k = w[1].kind)
  BY <1>3, <1>4 DEF Coming
<1>6. \A r : Quiet(w, r) <=> Quiet(v, r) /\ r # w[1].run
  BY <1>3, <1>4 DEF Quiet
<1> QED BY <1>1, <1>5, <1>6 DEF Taken

\* The news of a run of another experiment.
LEMMA BookAfterOthersNews ==
    ASSUME NEW runs, NEW e, NEW o, NEW h, NEW w, NEW v, NEW m, NEW kind,
           TrueBook(runs, e, h, w, o), Taken(w, v, m, kind), h[m].folder # e
    PROVE  TrueBook(runs, e, h, v, o)
<1>1. ASSUME NEW i \in DOMAIN runs  PROVE TrueEntry(runs[i], e, h, v, o)
  <2>1. TrueEntry(runs[i], e, h, w, o) /\ runs[i].run # m
    BY DEF TrueBook, TrueEntry
  <2>2. /\ \A k : Coming(w, runs[i].run, k) <=> Coming(v, runs[i].run, k)
        /\ Quiet(w, runs[i].run) => Quiet(v, runs[i].run)
    BY <2>1 DEF Taken
  <2> QED BY <2>1, <2>2 DEF TrueEntry
<1>2. Complete(runs, e, h, v)
  <2>1. ASSUME NEW r \in DOMAIN h, h[r].folder = e, h[r].fate \notin {"never started", "lost"},
               ~Coming(v, r, "started")
        PROVE  \E i \in DOMAIN runs : runs[i].run = r
    <3>1. r # m
      BY <2>1
    <3>2. ~Coming(w, r, "started")
      BY <2>1, <3>1 DEF Taken
    <3>3. Complete(runs, e, h, w)
      BY DEF TrueBook
    <3> QED BY <2>1, <3>2, <3>3 DEF Complete
  <2> QED BY <2>1 DEF Complete
<1> QED BY <1>1, <1>2 DEF TrueBook

\* The start of a run of this experiment, which makes its entry.
LEMMA BookAfterStart ==
    ASSUME NEW runs \in Seq(Entries), NEW e, NEW o, NEW h, NEW w, NEW v, NEW m \in DOMAIN h,
           TrueBook(runs, e, h, w, o), Taken(w, v, m, "started"), h[m].folder = e,
           h[m].fate = "running" \/ Coming(v, m, "ended"), ~Coming(v, m, "started"),
           NEW x \in Entries, x = [number |-> h[m].number, run |-> m, owner |-> 0, status |-> "running"]
    PROVE  TrueBook(Append(runs, x), e, h, v, o)
<1> PICK more : more = Append(runs, x)
  OBVIOUS
<1> PICK n : n = Len(runs) + 1
  OBVIOUS
<1>1. /\ DOMAIN more = DOMAIN runs \cup {n} /\ n \notin DOMAIN runs /\ more[n] = x
      /\ \A i \in DOMAIN runs : more[i] = runs[i]
  <2>1. /\ more \in Seq(Entries) /\ Len(more) = Len(runs) + 1 /\ more[Len(runs) + 1] = x
        /\ \A i \in 1 .. Len(runs) : more[i] = runs[i]
    BY AppendProperties
  <2>2. DOMAIN more = 1 .. Len(runs) + 1 /\ DOMAIN runs = 1 .. Len(runs) /\ Len(runs) \in Nat
    BY <2>1, LenProperties
  <2> QED BY <2>1, <2>2
<1>2. Coming(w, m, "started")
  BY DEF Taken
<1>3. \A i \in DOMAIN runs : TrueEntry(runs[i], e, h, w, o) /\ runs[i].run # m
  BY <1>2 DEF TrueBook, TrueEntry
<1>4. ASSUME NEW i \in DOMAIN runs  PROVE TrueEntry(runs[i], e, h, v, o)
  <2>1. /\ \A k : Coming(w, runs[i].run, k) <=> Coming(v, runs[i].run, k)
        /\ Quiet(w, runs[i].run) => Quiet(v, runs[i].run)
    BY <1>3 DEF Taken
  <2> QED BY <1>3, <2>1 DEF TrueEntry
<1>5. TrueEntry(x, e, h, v, o)
  BY DEF TrueEntry
<1>6. Distinct(more)
  <2>1. Distinct(runs) /\ x.run = m
    BY DEF TrueBook
  <2> QED BY <1>1, <1>3, <2>1 DEF Distinct
<1>7. Complete(more, e, h, v)
  <2>1. ASSUME NEW r \in DOMAIN h, h[r].folder = e, h[r].fate \notin {"never started", "lost"},
               ~Coming(v, r, "started")
        PROVE  \E i \in DOMAIN more : more[i].run = r
    <3>1. CASE r = m
      BY <1>1, <3>1
    <3>2. CASE r # m
      <4>1. ~Coming(w, r, "started")
        BY <2>1, <3>2 DEF Taken
      <4>2. Complete(runs, e, h, w)
        BY DEF TrueBook
      <4>3. PICK i \in DOMAIN runs : runs[i].run = r
        BY <2>1, <4>1, <4>2 DEF Complete
      <4> QED BY <1>1, <4>3
    <3> QED BY <3>1, <3>2
  <2> QED BY <2>1 DEF Complete
<1> QED BY <1>1, <1>4, <1>5, <1>6, <1>7 DEF TrueBook

\* More of a run whose entry has been found by its number: that entry is its own,
\* because a number is that of one run.
LEMMA FoundIsItsOwn ==
    ASSUME NEW runs, NEW e, NEW o, NEW h, NEW w, NEW m \in DOMAIN h, NEW i \in DOMAIN runs,
           TrueBook(runs, e, h, w, o), h[m].folder = e, runs[i].number = h[m].number,
           \A r, q \in DOMAIN h : r # q /\ h[r].folder = h[q].folder => h[r].number # h[q].number
    PROVE  runs[i].run = m
<1>1. /\ runs[i].run \in DOMAIN h /\ h[runs[i].run].folder = e
      /\ h[runs[i].run].number = runs[i].number
  BY DEF TrueBook, TrueEntry
<1> QED BY <1>1

LEMMA BookAfterOwner ==
    ASSUME NEW runs \in Seq(Entries), NEW e, NEW o, NEW h, NEW w, NEW v, NEW m \in DOMAIN h, NEW i \in DOMAIN runs,
           TrueBook(runs, e, h, w, o), Taken(w, v, m, "owner"), runs[i].run = m,
           NEW x \in Entries, x = [runs[i] EXCEPT !.owner = m]
    PROVE  TrueBook([runs EXCEPT ![i] = x], e, h, v, o)
<1> PICK next : next = [runs EXCEPT ![i] = x]
  OBVIOUS
<1>1. DOMAIN next = DOMAIN runs /\ next[i] = x /\ \A j \in DOMAIN runs \ {i} : next[j] = runs[j]
  OBVIOUS
<1>2. x.run = m /\ x.number = runs[i].number /\ x.status = runs[i].status /\ x.owner = m
  <2>1. runs[i] \in Entries
    BY ElementOfSeq, LenProperties
  <2> QED BY <2>1 DEF Entries
<1>3. /\ \A r : Coming(w, r, "started") <=> Coming(v, r, "started")
      /\ \A r : Coming(w, r, "ended") <=> Coming(v, r, "ended")
      /\ \A r : Quiet(w, r) => Quiet(v, r)
  BY DEF Taken
<1>4. \A j \in DOMAIN runs : TrueEntry(runs[j], e, h, w, o)
  BY DEF TrueBook
<1>5. TrueEntry(x, e, h, v, o)
  BY <1>2, <1>3, <1>4 DEF TrueEntry
<1>6. \A j \in DOMAIN runs : TrueEntry(runs[j], e, h, v, o)
  BY <1>3, <1>4 DEF TrueEntry
<1>7. \A j \in DOMAIN runs : next[j].run = runs[j].run
  BY <1>1, <1>2
<1>8. Distinct(next)
  BY <1>1, <1>7 DEF TrueBook, Distinct
<1>9. Complete(next, e, h, v)
  BY <1>1, <1>3, <1>7, ZenonT(60) DEF TrueBook, Complete
<1> QED BY <1>1, <1>5, <1>6, <1>8, <1>9 DEF TrueBook

\* An owner that finds no entry, or whose news nobody heeds.
LEMMA BookAfterOwnerUnheard ==
    ASSUME NEW runs, NEW e, NEW o, NEW h, NEW w, NEW v, NEW m,
           TrueBook(runs, e, h, w, o), Taken(w, v, m, "owner")
    PROVE  TrueBook(runs, e, h, v, o)
<1>1. /\ \A r : Coming(w, r, "started") <=> Coming(v, r, "started")
      /\ \A r : Coming(w, r, "ended") <=> Coming(v, r, "ended")
      /\ \A r : Quiet(w, r) => Quiet(v, r)
  BY DEF Taken
<1>2. \A j \in DOMAIN runs : TrueEntry(runs[j], e, h, v, o)
  BY <1>1 DEF TrueBook, TrueEntry
<1>3. Complete(runs, e, h, v)
  BY <1>1 DEF TrueBook, Complete
<1> QED BY <1>2, <1>3 DEF TrueBook

LEMMA BookAfterEnd ==
    ASSUME NEW runs \in Seq(Entries), NEW e, NEW o, NEW h, NEW w, NEW v, NEW m \in DOMAIN h, NEW i \in DOMAIN runs,
           TrueBook(runs, e, h, w, o), Taken(w, v, m, "ended"), runs[i].run = m, Quiet(v, m),
           NEW x \in Entries, x = [runs[i] EXCEPT !.status = h[m].fate]
    PROVE  TrueBook([runs EXCEPT ![i] = x], e, h, v, o)
<1> PICK next : next = [runs EXCEPT ![i] = x]
  OBVIOUS
<1>1. DOMAIN next = DOMAIN runs /\ next[i] = x /\ \A j \in DOMAIN runs \ {i} : next[j] = runs[j]
  OBVIOUS
<1>2. x.run = m /\ x.number = runs[i].number /\ x.status = h[m].fate /\ x.owner = runs[i].owner
  <2>1. runs[i] \in Entries
    BY ElementOfSeq, LenProperties
  <2> QED BY <2>1 DEF Entries
<1>3. \A j \in DOMAIN runs : TrueEntry(runs[j], e, h, w, o)
  BY DEF TrueBook
<1>4. TrueEntry(x, e, h, v, o)
  <2>1. ~Coming(v, m, "started")
    BY DEF Coming, Quiet
  <2> QED BY <1>2, <1>3, <2>1 DEF TrueEntry
<1>5. ASSUME NEW j \in DOMAIN runs, j # i  PROVE TrueEntry(runs[j], e, h, v, o)
  <2>1. runs[j].run # m
    BY <1>5 DEF TrueBook, Distinct
  <2>2. /\ \A k : Coming(w, runs[j].run, k) <=> Coming(v, runs[j].run, k)
        /\ Quiet(w, runs[j].run) => Quiet(v, runs[j].run)
    BY <2>1 DEF Taken
  <2> QED BY <1>3, <2>2 DEF TrueEntry
<1>6. \A j \in DOMAIN runs : next[j].run = runs[j].run
  BY <1>1, <1>2
<1>7. Distinct(next)
  BY <1>1, <1>6 DEF TrueBook, Distinct
<1>8. Complete(next, e, h, v)
  <2>1. \A r : Coming(w, r, "started") <=> Coming(v, r, "started")
    BY DEF Taken
  <2> QED BY <1>1, <1>6, <2>1, ZenonT(60) DEF TrueBook, Complete
<1> QED BY <1>1, <1>4, <1>5, <1>7, <1>8 DEF TrueBook

\* After a crash: what was not told is lost.
LEMMA BookAfterCrash ==
    ASSUME NEW runs, NEW next, NEW e, NEW o, NEW h, NEW w, NEW g,
           TrueBook(runs, e, h, w, o), DOMAIN g = DOMAIN h,
           \A r \in DOMAIN h : g[r].folder = h[r].folder /\ g[r].number = h[r].number,
           \A r \in DOMAIN h : g[r].fate = IF h[r].fate = "running" \/ ~Quiet(w, r) THEN "lost" ELSE h[r].fate,
           DOMAIN next = DOMAIN runs,
           \A i \in DOMAIN runs :
              /\ next[i].run = runs[i].run /\ next[i].number = runs[i].number
              /\ next[i].owner = runs[i].owner
              /\ next[i].status # "running" \/ ~o
              /\ next[i].status = runs[i].status \/ (runs[i].status = "running" /\ next[i].status = "failed")
    PROVE  TrueBook(next, e, g, <<>>, o)
<1>1. DOMAIN <<>> = {}
  OBVIOUS
<1>2. \A r, k : ~Coming(<<>>, r, k) /\ Quiet(<<>>, r)
  BY <1>1 DEF Coming, Quiet
<1>3. ASSUME NEW i \in DOMAIN next  PROVE TrueEntry(next[i], e, g, <<>>, o)
  <2>1. TrueEntry(runs[i], e, h, w, o)
    BY DEF TrueBook
  <2>2. PICK r : r = runs[i].run /\ r \in DOMAIN h
    BY <2>1 DEF TrueEntry
  <2>3. CASE runs[i].status = "running"
    <3>1. h[r].fate = "running" \/ ~Quiet(w, r) \/ h[r].fate = "lost"
      BY <2>1, <2>2, <2>3 DEF TrueEntry, Coming, Quiet
    <3>2. g[r].fate = "lost" /\ (next[i].status = "failed" \/ (next[i].status = "running" /\ ~o))
      BY <2>2, <2>3, <3>1
    <3> QED BY <1>2, <2>1, <2>2, <3>2, ZenonT(60) DEF TrueEntry
  <2>4. CASE runs[i].status # "running"
    <3>1. Quiet(w, r) /\ h[r].fate # "running"
      BY <2>1, <2>2, <2>4 DEF TrueEntry
    <3>2. g[r].fate = h[r].fate /\ next[i].status = runs[i].status
      BY <2>2, <2>4, <3>1
    <3> QED BY <1>2, <2>1, <2>2, <2>4, <3>2, ZenonT(60) DEF TrueEntry
  <2> QED BY <2>3, <2>4
<1>4. Distinct(next)
  BY DEF TrueBook, Distinct
<1>5. Complete(next, e, g, <<>>)
  <2>1. ASSUME NEW r \in DOMAIN g, g[r].folder = e, g[r].fate \notin {"never started", "lost"}
        PROVE  \E i \in DOMAIN next : next[i].run = r
    <3>1. h[r].fate = g[r].fate /\ h[r].folder = e /\ Quiet(w, r)
      BY <2>1
    <3>2. ~Coming(w, r, "started")
      BY <3>1 DEF Coming, Quiet
    <3>3. Complete(runs, e, h, w)
      BY DEF TrueBook
    <3>4. PICK i \in DOMAIN runs : runs[i].run = r
      BY <2>1, <3>1, <3>2, <3>3 DEF Complete
    <3> QED BY <3>4
  <2> QED BY <2>1 DEF Complete
<1> QED BY <1>3, <1>4, <1>5 DEF TrueBook

\* A record that is closed, or one that was empty.
LEMMA BookOfAnother ==
    ASSUME NEW runs, NEW e, NEW h, NEW w, NEW o, NEW p, TrueBook(runs, e, h, w, o),
           p => o \/ runs = <<>>
    PROVE  TrueBook(runs, e, h, w, p)
<1>1. CASE runs = <<>>
  <2>1. DOMAIN runs = {}
    BY <1>1
  <2> QED BY <2>1 DEF TrueBook
<1>2. CASE p => o
  BY <1>2 DEF TrueBook, TrueEntry
<1> QED BY <1>1, <1>2
-----------------------------------------------------------------------------
(* What is kept around the books.                                           *)

\* The pointer is that of the live experiment, but for one that was switched to
\* half-way; its record is there, and an experiment that was never made has no
\* entries.
PointerIsCurrent ==
    /\ current # 0 /\ current \notin adrift => pointer = current
    /\ current # 0 => disk[current].made /\ record.made
    /\ pointer # 0 => disk[pointer].made
    /\ \A e \in Experiments : ~disk[e].made => disk[e].runs = <<>>

\* Something is under way, or asked for, in the folder of f.
Concerned(f) ==
    \/ \E i \in DOMAIN calls : calls[i].what = "run" /\ After(calls, i - 1, engine.folder, "folder", f)
    \/ \E r \in Flying : history[r].folder = f
    \/ \E i \in DOMAIN news : history[news[i].run].folder = f

\* It is in that of the live experiment, or of one whose news went astray.
OnlyTheirs ==
    \A f \in Experiments : Concerned(f) => f = current \/ (current \in adrift \cup {0} /\ f \in adrift)

\* The folder that a switch has left half-way is no longer anybody's, or that of
\* one whose news goes astray.
Headed ==
    "folder" \in apart =>
        \E f \in Experiments \cup {0} :
            /\ After(calls, Len(calls), engine.folder, "folder", f)
            /\ f = 0 \/ {f, current} \subseteq adrift

BooksAreTrue ==
    \A e \in Experiments \ adrift : TrueBook(Book(e).runs, e, history, news, Book(e).open)

Right == PointerIsCurrent /\ OnlyTheirs /\ Headed /\ InOrder(history, news) /\ BooksAreTrue

LEMMA ConcernedIsBusy ==
    ASSUME NEW f, Concerned(f)
    PROVE  Busy
<1>1. CASE \E i \in DOMAIN news : history[news[i].run].folder = f
  <2>1. news # <<>>
    <3>1. DOMAIN <<>> = {}
      OBVIOUS
    <3> QED BY <1>1, <3>1
  <2> QED BY <2>1 DEF Busy
<1>2. CASE \E r \in Flying : history[r].folder = f
  BY <1>2 DEF Busy
<1>3. CASE \E i \in DOMAIN calls : calls[i].what = "run"
  BY <1>3 DEF Busy
<1> QED BY <1>1, <1>2, <1>3 DEF Concerned

\* Commands that ask for no run concern nobody.
LEMMA ConcernsStay ==
    ASSUME Ind, history' = history, news' = news, engine' = engine,
           NEW cs \in Seq(Calls), calls' = calls \o cs, \A j \in 1 .. Len(cs) : cs[j].what # "run",
           NEW f, Concerned(f)'
    PROVE  Concerned(f)
<1>1. CASE \E r \in Flying' : history'[r].folder = f
  BY <1>1 DEF Concerned, Flying
<1>2. CASE \E i \in DOMAIN news' : history'[news'[i].run].folder = f
  BY <1>2 DEF Concerned
<1>3. ASSUME NEW i \in DOMAIN calls', calls'[i].what = "run", After(calls', i - 1, engine'.folder, "folder", f)
      PROVE  Concerned(f)
  <2>1. calls \in Seq(Calls)
    BY PlainTypes
  <2>2. /\ Len(calls) \in Nat /\ DOMAIN calls = 1 .. Len(calls) /\ Len(cs) \in Nat
        /\ DOMAIN calls' = 1 .. Len(calls) + Len(cs)
        /\ \A j \in 1 .. Len(calls) : calls'[j] = calls[j]
        /\ \A j \in Len(calls) + 1 .. Len(calls) + Len(cs) : calls'[j] = cs[j - Len(calls)]
    <3>1. /\ calls \o cs \in Seq(Calls) /\ Len(calls \o cs) = Len(calls) + Len(cs)
          /\ Len(calls) \in Nat /\ DOMAIN calls = 1 .. Len(calls) /\ Len(cs) \in Nat
      BY <2>1, ConcatProperties, LenProperties
    <3>2. DOMAIN (calls \o cs) = 1 .. Len(calls) + Len(cs)
      BY <3>1, LenProperties
    <3> QED BY <2>1, <3>1, <3>2, ConcatProperties
  <2>3. i \in 1 .. Len(calls)
    <3>1. CASE i \in Len(calls) + 1 .. Len(calls) + Len(cs)
      <4>1. i - Len(calls) \in 1 .. Len(cs)
        BY <2>2, <3>1
      <4> QED BY <1>3, <2>2, <3>1, <4>1
    <3>2. i \in 1 .. Len(calls) \/ i \in Len(calls) + 1 .. Len(calls) + Len(cs)
      BY <2>2, <1>3
    <3> QED BY <3>1, <3>2
  <2>4. calls[i].what = "run" /\ i \in DOMAIN calls
    BY <1>3, <2>2, <2>3
  <2>5. i - 1 \in 0 .. Len(calls)
    BY <2>2, <2>3
  <2>6. After(calls, i - 1, engine.folder, "folder", f)
    BY <1>3, <2>1, <2>5, AfterConcat
  <2> QED BY <2>4, <2>6 DEF Concerned
<1> QED BY <1>1, <1>2, <1>3 DEF Concerned

\* What a step of the manager must see to.
LEMMA ManagerStaysRight ==
    ASSUME Ind, Right, history' = history, news' = news, engine' = engine,
           \/ calls' = calls
           \/ \E cs \in Seq(Calls) : calls' = calls \o cs /\ \A j \in 1 .. Len(cs) : cs[j].what # "run",
           PointerIsCurrent', Headed',
           \/ current' = current /\ adrift' = adrift
           \/ adrift \cup Mixed({current, current'} \ {0}) \subseteq adrift',
           current' \in Experiments \cup {0},
           \A e \in Experiments \ adrift' :
              /\ Book(e)'.runs = Book(e).runs
              /\ Book(e)'.open => Book(e).open \/ Book(e).runs = <<>>
    PROVE  Right'
<1>1. \A f : Concerned(f)' => Concerned(f)
  <2>1. CASE calls' = calls
    BY <2>1 DEF Concerned, Flying
  <2>2. CASE \E cs \in Seq(Calls) : calls' = calls \o cs /\ \A j \in 1 .. Len(cs) : cs[j].what # "run"
    BY <2>2, ConcernsStay
  <2> QED BY <2>1, <2>2
<1>2. adrift \subseteq adrift'
  OBVIOUS
<1>3. OnlyTheirs'
  <2>1. ASSUME NEW f \in Experiments, Concerned(f)'
        PROVE  f = current' \/ (current' \in adrift' \cup {0} /\ f \in adrift')
    <3>1. Concerned(f) /\ (f = current \/ (current \in adrift \cup {0} /\ f \in adrift))
      BY <1>1, <2>1 DEF Right, OnlyTheirs
    <3>2. CASE current' = current /\ adrift' = adrift
      BY <3>1, <3>2
    <3>3. CASE adrift \cup Mixed({current, current'} \ {0}) \subseteq adrift'
      <4>1. adrift \cup ({current, current'} \ {0}) \subseteq adrift'
        BY <3>1, <3>3, ConcernedIsBusy DEF Mixed
      <4>2. f # 0
        BY DEF Experiments
      <4> QED BY <3>1, <4>1, <4>2
    <3> QED BY <3>2, <3>3
  <2> QED BY <2>1 DEF OnlyTheirs
<1>4. BooksAreTrue'
  <2>1. ASSUME NEW e \in Experiments \ adrift'
        PROVE  TrueBook(Book(e)'.runs, e, history', news', Book(e)'.open)
    <3>1. TrueBook(Book(e).runs, e, history, news, Book(e).open)
      BY <1>2 DEF Right, BooksAreTrue
    <3>2. PICK p : p = Book(e)'.open
      OBVIOUS
    <3>3. p => Book(e).open \/ Book(e).runs = <<>>
      BY <3>2
    <3>4. TrueBook(Book(e).runs, e, history, news, p)
      BY <3>1, <3>3, BookOfAnother
    <3> QED BY <3>2, <3>4
  <2> QED BY <2>1 DEF BooksAreTrue
<1>5. InOrder(history, news)'
  BY DEF Right
<1> QED BY <1>3, <1>4, <1>5 DEF Right

\* Commands about something else leave the folder's way as it is.
LEMMA HeadedStays ==
    ASSUME Ind, Headed, engine'.folder = engine.folder, current' = current, adrift \subseteq adrift',
           "folder" \in apart' => "folder" \in apart,
           \/ calls' = calls
           \/ \E cs \in Seq(Calls) : calls' = calls \o cs /\ \A j \in 1 .. Len(cs) : cs[j].what # "folder"
    PROVE  Headed'
<1> SUFFICES ASSUME "folder" \in apart'
             PROVE  \E f \in Experiments \cup {0} :
                       /\ After(calls', Len(calls'), engine'.folder, "folder", f)
                       /\ f = 0 \/ {f, current'} \subseteq adrift'
  BY DEF Headed
<1>1. PICK f \in Experiments \cup {0} :
        /\ After(calls, Len(calls), engine.folder, "folder", f)
        /\ f = 0 \/ {f, current} \subseteq adrift
  BY DEF Headed
<1>2. PICK now : now = engine.folder /\ now = engine'.folder
  OBVIOUS
<1>3. After(calls', Len(calls'), now, "folder", f)
  <2>1. CASE calls' = calls
    BY <1>1, <1>2, <2>1
  <2>2. ASSUME NEW cs \in Seq(Calls), calls' = calls \o cs, \A j \in 1 .. Len(cs) : cs[j].what # "folder"
        PROVE  After(calls', Len(calls'), now, "folder", f)
    <3>1. After(calls \o cs, Len(calls \o cs), now, "folder", f)
      BY <1>1, <1>2, <2>2, PlainTypes, AfterOthers
    <3> QED BY <2>2, <3>1
  <2> QED BY <2>1, <2>2
<1> QED BY <1>1, <1>2, <1>3

\* A change of the live record.
LEMMA PointerStays ==
    ASSUME Ind, PointerIsCurrent, current \in Experiments, pointer' = pointer, current' = current,
           adrift' = adrift, record'.made = record.made,
           disk'[current] \in {disk[current], record'},
           \A x \in Experiments \ {current} : disk'[x] = disk[x]
    PROVE  PointerIsCurrent'
<1> PICK c \in Experiments : c = current
  OBVIOUS
<1>1. c # 0
  BY DEF Experiments
<1>2. disk[c].made /\ record.made
  BY <1>1 DEF PointerIsCurrent
<1>3. disk'[c].made /\ record'.made
  BY <1>2
<1>4. \A e \in Experiments : ~disk'[e].made => disk'[e].runs = <<>>
  BY <1>3 DEF PointerIsCurrent
<1>5. pointer # 0 => disk'[pointer].made
  BY <1>3, PlainTypes DEF PointerIsCurrent
<1> QED BY <1>3, <1>4, <1>5 DEF PointerIsCurrent

LEMMA InstallAsksForNoRun ==
    ASSUME NEW e \in Experiments, NEW r \in Records, Post(Install(e, r))
    PROVE  \E cs \in Seq(Calls) : calls' = calls \o cs /\ \A j \in 1 .. Len(cs) : cs[j].what # "run"
<1>1. PICK cs \in Seq(Calls) :
        /\ cs = Install(e, r) /\ Len(cs) = 3 /\ cs[1] = Call("bounded", r.bounded)
        /\ cs[2] = Call("attended", r.attended) /\ cs[3] = Call("folder", e)
  BY InstallTyped
<1>2. cs[1].what # "run" /\ cs[2].what # "run" /\ cs[3].what # "run"
  BY <1>1 DEF Call
<1>3. 1 .. Len(cs) = {1, 2, 3}
  BY <1>1
<1>4. calls' = calls \o cs
  BY <1>1, Posted
<1> QED BY <1>2, <1>3, <1>4

LEMMA StartExperimentIsRight ==
    ASSUME Ind, Right, NEW attended \in BOOLEAN, NEW bounded \in BOOLEAN,
           StartExperiment(attended, bounded)
    PROVE  Right'
<1> PICK e : e = Max(Stored \cup {0}) + 1
  OBVIOUS
<1> PICK r : r = [made |-> TRUE, open |-> TRUE, attended |-> attended, bounded |-> bounded, runs |-> <<>>]
  OBVIOUS
<1>1. /\ current = 0 /\ e \in Experiments /\ disk' = [disk EXCEPT ![e] = r]
      /\ \/ /\ pointer' = e /\ current' = e /\ record' = r /\ adrift' = adrift \cup Mixed({e})
            /\ apart' = {} /\ Post(Install(e, r))
         \/ UNCHANGED <<pointer, current, record, calls, apart, adrift>>
      /\ UNCHANGED <<files, engine, history, saveOk, news, changes>>
  BY DEF StartExperiment, engineVars
<1>2. r \in Records /\ r.made /\ r.open /\ r.runs = <<>>
  <2>1. <<>> \in Seq(Entries)
    OBVIOUS
  <2> QED BY <2>1 DEF Records
<1>3. disk'[e] = r /\ \A x \in Experiments \ {e} : disk'[x] = disk[x]
  BY <1>1, PlainTypes
<1>4. disk[e].runs = <<>>
  <2>1. e \notin Stored
    BY NewExperiment DEF Ind
  <2> QED BY <1>1, <2>1 DEF Stored, Right, PointerIsCurrent
<1>5. e # 0 /\ \A x \in Experiments : x # 0
  BY <1>1 DEF Experiments
<1>6. PointerIsCurrent'
  <2>1. \A x \in Experiments : disk[x].made => disk'[x].made
    BY <1>2, <1>3
  <2>2. pointer # 0 => disk'[pointer].made
    BY <2>1, PlainTypes DEF Right, PointerIsCurrent
  <2> QED BY <1>1, <1>2, <1>3, <2>2 DEF Right, PointerIsCurrent
<1>7. \A x \in Experiments : /\ Book(x)'.runs = Book(x).runs
                             /\ Book(x)'.open => Book(x).open \/ Book(x).runs = <<>>
  BY <1>1, <1>2, <1>3, <1>4, <1>5 DEF Book
<1>8. CASE /\ pointer' = e /\ current' = e /\ record' = r /\ adrift' = adrift \cup Mixed({e})
           /\ apart' = {} /\ Post(Install(e, r))
  <2>1. PICK cs \in Seq(Calls) : calls' = calls \o cs /\ \A j \in 1 .. Len(cs) : cs[j].what # "run"
    BY <1>1, <1>2, <1>8, InstallAsksForNoRun
  <2>2. {current, current'} \ {0} = {e}
    BY <1>1, <1>5, <1>8
  <2>3. adrift \cup Mixed({current, current'} \ {0}) \subseteq adrift'
    BY <1>8, <2>2
  <2>4. Headed'
    BY <1>8 DEF Headed
  <2> QED BY <1>1, <1>6, <1>7, <1>8, <2>1, <2>3, <2>4, ManagerStaysRight
<1>9. CASE UNCHANGED <<pointer, current, record, calls, apart, adrift>>
  <2>1. Headed'
    BY <1>1, <1>9 DEF Right, Headed
  <2> QED BY <1>1, <1>6, <1>7, <1>9, <2>1, PlainTypes, ManagerStaysRight
<1> QED BY <1>1, <1>8, <1>9

LEMMA CloseExperimentIsRight ==
    ASSUME Ind, Right, CloseExperiment
    PROVE  Right'
<1> PICK r : r = [record EXCEPT !.open = FALSE]
  OBVIOUS
<1> PICK c : c = current
  OBVIOUS
<1>1. PICK ok \in BOOLEAN :
        /\ c \in Experiments /\ c # 0 /\ Written(c, r, ok)
        /\ \/ /\ pointer' = 0 /\ current' = 0 /\ record' = NoRecord
              /\ Post(<<Call("bounded", FALSE), Call("folder", 0)>>)
              /\ apart' = apart \ {"bounded", "folder"}
              /\ adrift' = adrift \cup (IF ok THEN Mixed({c}) ELSE {c})
           \/ record' = r /\ UNCHANGED <<pointer, current, calls, apart, adrift>>
        /\ engine' = engine /\ history' = history /\ news' = news
  <2>1. c # 0 /\ engine' = engine /\ history' = history /\ news' = news
    BY DEF CloseExperiment, engineVars
  <2>2. PICK ok \in BOOLEAN, points \in BOOLEAN :
             /\ Written(current, r, ok)
             /\ IF points
                THEN /\ pointer' = 0 /\ current' = 0 /\ record' = NoRecord
                     /\ Post(<<Call("bounded", FALSE), Call("folder", 0)>>)
                     /\ apart' = apart \ {"bounded", "folder"}
                     /\ adrift' = adrift \cup (IF ok THEN Mixed({current}) ELSE {current})
                ELSE record' = r /\ UNCHANGED <<pointer, current, calls, apart, adrift>>
    BY DEF CloseExperiment
  <2> QED BY <2>1, <2>2, PlainTypes
<1>2. r \in Records /\ r.runs = record.runs /\ r.made = record.made /\ ~r.open
  BY PlainTypes DEF Records
<1>3. /\ ok => disk'[c] = r
      /\ \A x \in Experiments \ {c} : disk'[x] = disk[x]
      /\ ~ok => disk' = disk
  BY <1>1, <1>2, Saving
<1>4. record.made
  BY <1>1 DEF Right, PointerIsCurrent
<1>5. \A x \in Experiments : x # 0
  BY DEF Experiments
<1>6. CASE /\ pointer' = 0 /\ current' = 0 /\ record' = NoRecord
           /\ Post(<<Call("bounded", FALSE), Call("folder", 0)>>)
           /\ apart' = apart \ {"bounded", "folder"}
           /\ adrift' = adrift \cup (IF ok THEN Mixed({c}) ELSE {c})
  <2>1. PointerIsCurrent'
    <3>1. \A x \in Experiments : ~disk'[x].made => disk'[x].runs = <<>>
      BY <1>2, <1>3, <1>4 DEF Right, PointerIsCurrent
    <3> QED BY <1>6, <3>1 DEF PointerIsCurrent
  <2>2. ASSUME NEW x \in Experiments \ adrift'
        PROVE  /\ Book(x)'.runs = Book(x).runs
               /\ Book(x)'.open => Book(x).open \/ Book(x).runs = <<>>
    <3>1. Book(x)' = disk'[x]
      BY <1>5, <1>6 DEF Book
    <3>2. CASE x = c
      <4>1. ok
        BY <1>6, <3>2
      <4>2. Book(x)' = r /\ Book(x) = record
        BY <1>3, <3>1, <3>2, <4>1 DEF Book
      <4> QED BY <1>2, <4>2
    <3>3. CASE x # c
      <4>1. Book(x)' = Book(x)
        BY <1>3, <3>1, <3>3 DEF Book
      <4> QED BY <4>1
    <3> QED BY <3>2, <3>3
  <2>3. PICK cs \in Seq(Calls) : calls' = calls \o cs /\ \A j \in 1 .. Len(cs) : cs[j].what # "run"
    <3>1. PICK a \in Calls, b \in Calls : a = Call("bounded", FALSE) /\ b = Call("folder", 0)
      BY CallsTyped
    <3>2. a.what # "run" /\ b.what # "run"
      BY <3>1 DEF Call
    <3>3. <<a, b>> \in Seq(Calls) /\ \A j \in 1 .. Len(<<a, b>>) : <<a, b>>[j] = a \/ <<a, b>>[j] = b
      OBVIOUS
    <3>4. calls' = calls \o <<a, b>>
      BY <1>6, <3>1, Posted
    <3> QED BY <3>2, <3>3, <3>4
  <2>4. {current, current'} \ {0} = {c}
    BY <1>1, <1>6
  <2>5. Mixed({c}) \subseteq {c}
    BY DEF Mixed
  <2>6. adrift \cup Mixed({current, current'} \ {0}) \subseteq adrift' /\ current' \in Experiments \cup {0}
    BY <1>6, <2>4, <2>5
  <2>7. Headed'
    BY <1>6 DEF Headed
  <2> QED BY <1>1, <2>1, <2>2, <2>3, <2>6, <2>7, ManagerStaysRight
<1>7. CASE record' = r /\ UNCHANGED <<pointer, current, calls, apart, adrift>>
  <2>1. PointerIsCurrent'
    BY <1>1, <1>2, <1>3, <1>7, PointerStays DEF Right
  <2>2. \A x \in Experiments : /\ Book(x)'.runs = Book(x).runs
                               /\ Book(x)'.open => Book(x).open \/ Book(x).runs = <<>>
    BY <1>1, <1>2, <1>3, <1>7 DEF Book
  <2>3. Headed'
    BY <1>1, <1>7 DEF Right, Headed
  <2> QED BY <1>1, <1>7, <2>1, <2>2, <2>3, PlainTypes, ManagerStaysRight
<1> QED BY <1>1, <1>6, <1>7

\* Where the pointer cannot be written the commands on their way still lead to the
\* folder of before, whose experiment is adrift from then on, as the new one is.
LEMMA SwitchExperimentIsRight ==
    ASSUME Ind, Followed, Right, NEW e \in Experiments, SwitchExperiment(e)
    PROVE  Right'
<1>1. /\ disk[e].made /\ disk[e].open /\ current' = e /\ record' = disk[e]
      /\ \/ /\ pointer' = e /\ Post(Install(e, disk[e])) /\ apart' = {}
            /\ adrift' = adrift \cup LetGo \cup Mixed({current, e} \ {0})
         \/ /\ adrift' = adrift \cup ({current, e} \ {0})
            /\ UNCHANGED <<pointer, calls>>
      /\ disk' = disk /\ engine' = engine /\ history' = history /\ news' = news
  BY DEF SwitchExperiment, engineVars, Stored
<1>2. e # 0 /\ \A x \in Experiments : x # 0
  BY DEF Experiments
<1>3. CASE /\ pointer' = e /\ Post(Install(e, disk[e])) /\ apart' = {}
           /\ adrift' = adrift \cup LetGo \cup Mixed({current, e} \ {0})
  <2>1. PointerIsCurrent' /\ Headed'
    BY <1>1, <1>3 DEF Right, PointerIsCurrent, Headed
  <2>2. \A x \in Experiments \ adrift' : Book(x)' = Book(x)
    BY <1>1, <1>2, <1>3 DEF Book, LetGo
  <2>3. PICK cs \in Seq(Calls) : calls' = calls \o cs /\ \A j \in 1 .. Len(cs) : cs[j].what # "run"
    <3>1. PICK r \in Records : r = disk[e]
      BY PlainTypes
    <3> QED BY <1>3, <3>1, InstallAsksForNoRun
  <2>4. adrift \cup Mixed({current, current'} \ {0}) \subseteq adrift' /\ current' \in Experiments \cup {0}
    BY <1>1, <1>3
  <2> QED BY <1>1, <2>1, <2>2, <2>3, <2>4, ManagerStaysRight
<1>4. CASE adrift' = adrift \cup ({current, e} \ {0}) /\ UNCHANGED <<pointer, calls>>
  <2>1. PointerIsCurrent'
    BY <1>1, <1>2, <1>4 DEF Right, PointerIsCurrent
  <2>2. Headed'
    <3>1. PICK f \in Experiments \cup {0} :
            /\ After(calls, Len(calls), engine.folder, "folder", f)
            /\ f = 0 \/ f = current \/ f \in adrift
      <4>1. CASE "folder" \in apart
        BY <4>1 DEF Right, Headed
      <4>2. CASE "folder" \notin apart
        BY <4>2, PlainTypes DEF Followed, Enforced
      <4> QED BY <4>1, <4>2
    <3>2. f = 0 \/ {f, e} \subseteq adrift'
      BY <1>2, <1>4, <3>1
    <3>3. After(calls', Len(calls'), engine'.folder, "folder", f)
      BY <1>1, <1>4, <3>1
    <3> QED BY <1>1, <3>2, <3>3 DEF Headed
  <2>3. \A x \in Experiments \ adrift' : Book(x)' = Book(x)
    BY <1>1, <1>2, <1>4 DEF Book
  <2>4. adrift \cup Mixed({current, current'} \ {0}) \subseteq adrift' /\ current' \in Experiments \cup {0}
    BY <1>1, <1>4 DEF Mixed
  <2> QED BY <1>1, <1>4, <2>1, <2>2, <2>3, <2>4, ManagerStaysRight
<1> QED BY <1>1, <1>3, <1>4

\* A change of the policy of the live record.
LEMMA PolicyChangeIsRight ==
    ASSUME Ind, Right, current \in Experiments, NEW r \in Records, record' = r, SaveCurrent(current, r),
           r.made = record.made, r.open = record.open, r.runs = record.runs,
           NEW c \in Calls, c.what \notin {"run", "folder"}, Post(<<c>>), apart' \subseteq apart,
           UNCHANGED <<files, engine, history, pointer, current, news, adrift>>
    PROVE  Right'
<1> PICK x : x = current
  OBVIOUS
<1>1. disk'[x] \in {disk[x], r} /\ \A y \in Experiments \ {x} : disk'[y] = disk[y]
  BY SavingTheCurrent
<1>2. PointerIsCurrent'
  BY <1>1, PointerStays DEF Right
<1>3. \A e \in Experiments : Book(e)'.runs = Book(e).runs /\ Book(e)'.open = Book(e).open
  BY <1>1 DEF Book
<1>4. PICK cs \in Seq(Calls) :
        calls' = calls \o cs /\ \A j \in 1 .. Len(cs) : cs[j].what \notin {"run", "folder"}
  <2>1. <<c>> \in Seq(Calls) /\ \A j \in 1 .. Len(<<c>>) : <<c>>[j] = c
    OBVIOUS
  <2>2. calls' = calls \o <<c>>
    BY Posted
  <2> QED BY <2>1, <2>2
<1>5. Headed'
  BY <1>4, PlainTypes, HeadedStays DEF Right
<1> QED BY <1>2, <1>3, <1>4, <1>5, PlainTypes, ManagerStaysRight

LEMMA SetExperimentEnvelopeIsRight ==
    ASSUME Ind, Right, NEW bounded \in BOOLEAN, SetExperimentEnvelope(bounded)
    PROVE  Right'
<1> PICK r : r = [record EXCEPT !.bounded = bounded]
  OBVIOUS
<1>1. /\ current \in Experiments /\ record' = r /\ SaveCurrent(current, r)
      /\ Post(<<Call("bounded", bounded)>>) /\ apart' \subseteq apart
      /\ UNCHANGED <<files, engine, history, pointer, current, news, adrift>>
  BY PlainTypes DEF SetExperimentEnvelope, engineVars
<1>2. r \in Records /\ r.made = record.made /\ r.open = record.open /\ r.runs = record.runs
  BY PlainTypes DEF Records
<1>3. PICK c \in Calls : c = Call("bounded", bounded) /\ c.what \notin {"run", "folder"}
  <2>1. Call("bounded", bounded).what \notin {"run", "folder"}
    BY DEF Call
  <2> QED BY <2>1, CallsTyped
<1> QED BY <1>1, <1>2, <1>3, PolicyChangeIsRight

LEMMA SetAttendedIsRight ==
    ASSUME Ind, Right, NEW attended \in BOOLEAN, SetAttended(attended)
    PROVE  Right'
<1> PICK r : r = [record EXCEPT !.attended = attended]
  OBVIOUS
<1>1. /\ Post(<<Call("attended", attended)>>) /\ apart' \subseteq apart
      /\ UNCHANGED <<files, engine, history, pointer, current, news, adrift>>
  BY DEF SetAttended, engineVars
<1>2. r \in Records /\ r.made = record.made /\ r.open = record.open /\ r.runs = record.runs
  BY PlainTypes DEF Records
<1>3. PICK c \in Calls : c = Call("attended", attended) /\ c.what \notin {"run", "folder"}
  <2>1. Call("attended", attended).what \notin {"run", "folder"}
    BY DEF Call
  <2> QED BY <2>1, CallsTyped
<1>4. CASE current # 0
  <2>1. current \in Experiments /\ record' = r /\ SaveCurrent(current, r)
    BY <1>4, PlainTypes DEF SetAttended
  <2> QED BY <1>1, <1>2, <1>3, <2>1, PolicyChangeIsRight
<1>5. CASE current = 0
  <2>1. UNCHANGED <<record, disk>>
    BY <1>5 DEF SetAttended
  <2>2. PointerIsCurrent' /\ \A e \in Experiments : Book(e)' = Book(e)
    BY <1>1, <2>1 DEF Right, PointerIsCurrent, Book
  <2>3. PICK cs \in Seq(Calls) :
          calls' = calls \o cs /\ \A j \in 1 .. Len(cs) : cs[j].what \notin {"run", "folder"}
    <3>1. <<c>> \in Seq(Calls) /\ \A j \in 1 .. Len(<<c>>) : <<c>>[j] = c
      OBVIOUS
    <3>2. calls' = calls \o <<c>>
      BY <1>1, <1>3, Posted
    <3> QED BY <1>3, <3>1, <3>2
  <2>4. Headed'
    BY <1>1, <2>3, PlainTypes, HeadedStays DEF Right
  <2> QED BY <1>1, <2>2, <2>3, <2>4, PlainTypes, ManagerStaysRight
<1> QED BY <1>4, <1>5

\* A run is asked for in the folder of the live experiment, or in one whose news goes
\* astray.
LEMMA RequestRunIsRight ==
    ASSUME Ind, Followed, Right, RequestRun
    PROVE  Right'
<1>1. /\ Post(<<Call("run", 0)>>)
      /\ UNCHANGED <<disk, pointer, current, record, apart, adrift, engine, history, news>>
  BY DEF RequestRun, clientVars, engineVars
<1>2. PICK c \in Calls : c = Call("run", 0)
  BY CallsTyped
<1>3. /\ calls \in Seq(Calls) /\ <<c>> \in Seq(Calls) /\ calls' = calls \o <<c>>
      /\ Len(calls) \in Nat /\ DOMAIN calls = 1 .. Len(calls)
      /\ DOMAIN calls' = 1 .. Len(calls) + 1
      /\ \A j \in 1 .. Len(calls) : calls'[j] = calls[j]
  <2>1. calls \in Seq(Calls) /\ <<c>> \in Seq(Calls) /\ calls' = calls \o <<c>> /\ Len(<<c>>) = 1
    <3>1. <<c>> \in Seq(Calls) /\ Len(<<c>>) = 1
      OBVIOUS
    <3>2. calls' = calls \o <<c>>
      BY <1>1, <1>2, Posted
    <3> QED BY <3>1, <3>2, PlainTypes
  <2>2. /\ calls \o <<c>> \in Seq(Calls) /\ Len(calls \o <<c>>) = Len(calls) + 1
        /\ Len(calls) \in Nat /\ DOMAIN calls = 1 .. Len(calls)
        /\ \A j \in 1 .. Len(calls) : (calls \o <<c>>)[j] = calls[j]
    BY <2>1, ConcatProperties, LenProperties
  <2>3. DOMAIN (calls \o <<c>>) = 1 .. Len(calls) + 1
    BY <2>2, LenProperties
  <2> QED BY <2>1, <2>2, <2>3
<1>4. ASSUME NEW f \in Experiments, Concerned(f)'
      PROVE  Concerned(f) \/ f = current \/ {f, current} \subseteq adrift
  <2>1. CASE \E r \in Flying' : history'[r].folder = f
    BY <1>1, <2>1 DEF Concerned, Flying
  <2>2. CASE \E i \in DOMAIN news' : history'[news'[i].run].folder = f
    BY <1>1, <2>2 DEF Concerned
  <2>3. ASSUME NEW i \in DOMAIN calls', calls'[i].what = "run", After(calls', i - 1, engine'.folder, "folder", f)
        PROVE  Concerned(f) \/ f = current \/ {f, current} \subseteq adrift
    <3>1. i - 1 \in 0 .. Len(calls)
      BY <1>3
    <3>2. After(calls, i - 1, engine.folder, "folder", f)
      BY <1>1, <1>3, <2>3, <3>1, AfterConcat
    <3>3. CASE i \in 1 .. Len(calls)
      BY <1>3, <2>3, <3>2, <3>3 DEF Concerned
    <3>4. CASE i = Len(calls) + 1
      <4>1. After(calls, Len(calls), engine.folder, "folder", f)
        <5>1. i - 1 = Len(calls)
          BY <1>3, <3>4
        <5> QED BY <3>2, <5>1
      <4>2. CASE "folder" \notin apart
        <5>1. After(calls, Len(calls), engine.folder, "folder", current)
          BY <4>2 DEF Followed, Enforced
        <5> QED BY <1>3, <4>1, <5>1, AfterIsOne
      <4>3. CASE "folder" \in apart
        <5>1. PICK g \in Experiments \cup {0} :
                /\ After(calls, Len(calls), engine.folder, "folder", g)
                /\ g = 0 \/ {g, current} \subseteq adrift
          BY <4>3 DEF Right, Headed
        <5>2. g = f
          BY <1>3, <4>1, <5>1, AfterIsOne
        <5>3. f # 0
          BY DEF Experiments
        <5> QED BY <5>1, <5>2, <5>3
      <4> QED BY <4>2, <4>3
    <3> QED BY <1>3, <3>3, <3>4
  <2> QED BY <1>4, <2>1, <2>2, <2>3 DEF Concerned
<1>5. OnlyTheirs'
  BY <1>1, <1>4 DEF Right, OnlyTheirs
<1>6. PointerIsCurrent' /\ InOrder(history, news)' /\ BooksAreTrue'
  BY <1>1 DEF Right, PointerIsCurrent, BooksAreTrue, Book
<1>7. Headed'
  <2>1. \A j \in 1 .. Len(<<c>>) : <<c>>[j].what # "folder"
    <3>1. c.what # "folder"
      BY <1>2 DEF Call
    <3>2. \A j \in 1 .. Len(<<c>>) : <<c>>[j] = c
      OBVIOUS
    <3> QED BY <3>1, <3>2
  <2> QED BY <1>1, <1>3, <2>1, HeadedStays DEF Right
<1> QED BY <1>5, <1>6, <1>7 DEF Right
-----------------------------------------------------------------------------
\* The news v is the news w with those of kinds K of the run m after it.
Adds(w, v, m, K) ==
    /\ DOMAIN w \subseteq DOMAIN v /\ DOMAIN v \subseteq Nat
    /\ \A i \in DOMAIN w : v[i] = w[i]
    /\ \A i \in DOMAIN v \ DOMAIN w : v[i].run = m /\ v[i].kind \in K /\ \A j \in DOMAIN w : j < i
    /\ \A k \in K : \E i \in DOMAIN v \ DOMAIN w : v[i].kind = k
    /\ \A i, j \in DOMAIN v \ DOMAIN w : i < j => v[i].kind # "ended" /\ v[j].kind # "started"

LEMMA AddsMeans ==
    ASSUME NEW w, NEW v, NEW m, NEW K, Adds(w, v, m, K)
    PROVE  /\ \A r, k : Coming(v, r, k) <=> Coming(w, r, k) \/ (r = m /\ k \in K)
           /\ \A r : Quiet(w, r) /\ r # m => Quiet(v, r)
<1>1. \A r, k : Coming(w, r, k) => Coming(v, r, k)
  BY DEF Adds, Coming
<1>2. \A k \in K : Coming(v, m, k)
  BY DEF Adds, Coming
<1>3. \A r, k : Coming(v, r, k) => Coming(w, r, k) \/ (r = m /\ k \in K)
  BY DEF Adds, Coming
<1>4. \A r : Quiet(w, r) /\ r # m => Quiet(v, r)
  BY DEF Adds, Quiet
<1> QED BY <1>1, <1>2, <1>3, <1>4

LEMMA TellingAdds ==
    ASSUME Ind, NEW m \in Nat \ {0}
    PROVE  /\ Tell(<<"started", "owner">>, m) => Adds(news, news', m, {"started", "owner"})
           /\ Tell(<<"ended">>, m) => Adds(news, news', m, {"ended"})
<1> PICK n \in Nat : n = Len(news) /\ DOMAIN news = 1 .. n
  BY MoreTypes
<1>1. ASSUME Tell(<<"started", "owner">>, m)  PROVE Adds(news, news', m, {"started", "owner"})
  <2>1. PICK kinds \in Seq(Kinds) :
          kinds = <<"started", "owner">> /\ Len(kinds) = 2 /\ kinds[1] = "started" /\ kinds[2] = "owner"
    <3>1. PICK a \in Kinds, b \in Kinds : a = "started" /\ b = "owner"
      BY DEF Kinds
    <3>2. <<a, b>> \in Seq(Kinds) /\ Len(<<a, b>>) = 2 /\ <<a, b>>[1] = a /\ <<a, b>>[2] = b
      OBVIOUS
    <3> QED BY <3>1, <3>2
  <2>2. /\ DOMAIN news' = 1 .. n + 2 /\ \A i \in 1 .. n : news'[i] = news[i]
        /\ news'[n + 1] = [kind |-> "started", run |-> m] /\ news'[n + 2] = [kind |-> "owner", run |-> m]
    <3>1. Tell(kinds, m)
      BY <1>1, <2>1
    <3>2. /\ DOMAIN news' = 1 .. Len(news) + Len(kinds)
          /\ \A i \in 1 .. Len(news) : news'[i] = news[i]
          /\ \A i \in 1 .. Len(kinds) : news'[Len(news) + i] = [kind |-> kinds[i], run |-> m]
      BY <3>1, Telling
    <3>3. 1 \in 1 .. Len(kinds) /\ 2 \in 1 .. Len(kinds)
      BY <2>1
    <3> QED BY <2>1, <3>2, <3>3
  <2>3. /\ DOMAIN news' \ DOMAIN news = {n + 1, n + 2} /\ DOMAIN news \subseteq DOMAIN news'
        /\ DOMAIN news' \subseteq Nat
        /\ \A j \in DOMAIN news : j < n + 1 /\ j < n + 2
    BY <2>2
  <2>4. \A i, j \in {n + 1, n + 2} : i < j => i = n + 1 /\ j = n + 2
    OBVIOUS
  <2>5. /\ news'[n + 1].kind = "started" /\ news'[n + 1].run = m
        /\ news'[n + 2].kind = "owner" /\ news'[n + 2].run = m
    BY <2>2
  <2>6. \A i \in {n + 1, n + 2} : /\ news'[i].run = m /\ news'[i].kind \in {"started", "owner"}
                                  /\ \A j \in DOMAIN news : j < i
    BY <2>3, <2>5
  <2>7. \A k \in {"started", "owner"} : \E i \in {n + 1, n + 2} : news'[i].kind = k
    BY <2>5
  <2>8. \A i, j \in {n + 1, n + 2} : i < j => news'[i].kind # "ended" /\ news'[j].kind # "started"
    BY <2>4, <2>5
  <2> QED BY <2>2, <2>3, <2>6, <2>7, <2>8, SMTT(30) DEF Adds
<1>2. ASSUME Tell(<<"ended">>, m)  PROVE Adds(news, news', m, {"ended"})
  <2>1. PICK kinds \in Seq(Kinds) : kinds = <<"ended">> /\ Len(kinds) = 1 /\ kinds[1] = "ended"
    <3>1. PICK a \in Kinds : a = "ended"
      BY DEF Kinds
    <3>2. <<a>> \in Seq(Kinds) /\ Len(<<a>>) = 1 /\ <<a>>[1] = a
      OBVIOUS
    <3> QED BY <3>1, <3>2
  <2>2. /\ DOMAIN news' = 1 .. n + 1 /\ \A i \in 1 .. n : news'[i] = news[i]
        /\ news'[n + 1] = [kind |-> "ended", run |-> m]
    <3>1. Tell(kinds, m)
      BY <1>2, <2>1
    <3>2. /\ DOMAIN news' = 1 .. Len(news) + Len(kinds)
          /\ \A i \in 1 .. Len(news) : news'[i] = news[i]
          /\ \A i \in 1 .. Len(kinds) : news'[Len(news) + i] = [kind |-> kinds[i], run |-> m]
      BY <3>1, Telling
    <3>3. 1 \in 1 .. Len(kinds)
      BY <2>1
    <3> QED BY <2>1, <3>2, <3>3
  <2>3. /\ DOMAIN news' \ DOMAIN news = {n + 1} /\ DOMAIN news \subseteq DOMAIN news'
        /\ DOMAIN news' \subseteq Nat /\ \A j \in DOMAIN news : j < n + 1
    BY <2>2
  <2>4. \A i, j \in {n + 1} : ~(i < j)
    OBVIOUS
  <2> QED BY <2>2, <2>3, <2>4 DEF Adds
<1> QED BY <1>1, <1>2

LEMMA OneFurther ==
    ASSUME NEW n \in Nat
    PROVE  n + 1 \in Nat \ {0} /\ 1 .. n + 1 = 1 .. n \cup {n + 1}
OBVIOUS

\* A call that is taken changes the news and the history only when it places a run.
LEMMA WhatTakeCallDoes ==
    ASSUME Ind, TakeCall
    PROVE  \/ history' = history /\ news' = news
           \/ /\ calls[1].what = "run" /\ engine.folder \in Experiments /\ Flying = {}
              /\ \E m \in Nat \ {0} :
                   /\ m \notin DOMAIN history /\ DOMAIN history' = DOMAIN history \cup {m}
                   /\ \A r \in DOMAIN history : history'[r] = history[r]
                   /\ history'[m].folder = engine.folder
                   /\ \/ history'[m].fate = "never started" /\ news' = news
                      \/ /\ history'[m].fate = "running"
                         /\ Adds(news, news', m, {"started", "owner"})
<1>1. calls[1] = Head(calls)
  BY TakeCallTypes
<1>2. CASE Head(calls).what # "run"
  BY <1>2 DEF TakeCall
<1>3. CASE Head(calls).what = "run" /\ history' = history /\ news' = news
  BY <1>3
<1>4. CASE Head(calls).what = "run" /\ ~(history' = history /\ news' = news)
  <2>1. /\ engine.folder \in Experiments /\ Flying = {}
        /\ \E fate \in {"running", "never started"} :
             /\ history' = Append(history, [folder |-> engine.folder,
                                            number |-> NextRunNumber(engine.folder), fate |-> fate])
             /\ IF fate = "running" THEN Tell(<<"started", "owner">>, Len(history) + 1)
                ELSE news' = news
    <3>1. BeginRun
      BY <1>4 DEF TakeCall
    <3> QED BY <1>4, <3>1, WhatBeginRunDoes
  <2>2. PICK e \in Experiments : e = engine.folder
    BY <2>1
  <2>3. PICK k \in Nat : k = NextRunNumber(e)
    <3>1. \E j \in Nat : NextRunNumber(e) = j + 1
      BY NewNumber
    <3> QED BY <3>1
  <2>4. PICK fate \in {"running", "never started"} :
             /\ history' = Append(history, [folder |-> e, number |-> k, fate |-> fate])
             /\ IF fate = "running" THEN Tell(<<"started", "owner">>, Len(history) + 1)
                ELSE news' = news
    BY <2>1, <2>2, <2>3
  <2>5. PICK run \in Fated : run = [folder |-> e, number |-> k, fate |-> fate]
    BY DEF Fated, Fates
  <2>6. PICK m \in Nat \ {0} : m = Len(history) + 1
    <3>1. Len(history) \in Nat
      BY MoreTypes
    <3> QED BY <3>1, OneFurther
  <2>7. /\ m \notin DOMAIN history /\ DOMAIN history' = DOMAIN history \cup {m}
        /\ \A r \in DOMAIN history : history'[r] = history[r]
        /\ history'[m] = run
    <3>1. /\ DOMAIN history' = 1 .. Len(history) + 1 /\ history'[Len(history) + 1] = run
          /\ \A r \in DOMAIN history : history'[r] = history[r]
          /\ Len(history) + 1 \notin DOMAIN history
      BY <2>4, <2>5, Placing
    <3>2. PICK n \in Nat : n = Len(history) /\ DOMAIN history = 1 .. n
      BY MoreTypes
    <3>3. 1 .. n + 1 = 1 .. n \cup {n + 1}
      BY OneFurther
    <3>4. DOMAIN history' = DOMAIN history \cup {m}
      BY <2>6, <3>1, <3>2, <3>3
    <3> QED BY <2>6, <3>1, <3>4
  <2>8. history'[m].folder = e /\ history'[m].fate = fate
    <3>1. run.folder = e /\ run.fate = fate
      BY <2>5
    <3> QED BY <2>7, <3>1
  <2>9. CASE fate = "running"
    <3>1. Tell(<<"started", "owner">>, m)
      BY <2>4, <2>6, <2>9
    <3>2. Adds(news, news', m, {"started", "owner"})
      BY <3>1, TellingAdds
    <3> QED BY <1>1, <1>4, <2>1, <2>2, <2>7, <2>8, <2>9, <3>2
  <2>10. CASE fate = "never started"
    <3>1. news' = news
      BY <2>4, <2>10
    <3> QED BY <1>1, <1>4, <2>1, <2>2, <2>7, <2>8, <2>10, <3>1
  <2> QED BY <2>9, <2>10
<1> QED BY <1>2, <1>3, <1>4

\* The order of the news after a run was placed, and after one has ended.
LEMMA OrderAfterPlacing ==
    ASSUME NEW h, NEW g, NEW w, NEW v, NEW m, InOrder(h, w),
           m \notin DOMAIN h, \A r \in DOMAIN h : g[r] = h[r],
           \A i \in DOMAIN w : w[i].run \in DOMAIN h,
           g[m].fate = "running", Adds(w, v, m, {"started", "owner"})
    PROVE  InOrder(g, v)
<1>1. \A r, k : Coming(w, r, k) => Coming(v, r, k)
  BY AddsMeans
<1>2. \A i \in DOMAIN w : v[i] = w[i] /\ v[i].run # m /\ g[v[i].run] = h[w[i].run]
  BY DEF Adds
<1>3. \A i \in DOMAIN v \ DOMAIN w : v[i].run = m /\ v[i].kind # "ended"
  BY DEF Adds
<1>4. \A i, j \in DOMAIN v : i < j /\ v[i].run = v[j].run => v[i].kind # "ended" /\ v[j].kind # "started"
  <2>1. ASSUME NEW i \in DOMAIN v, NEW j \in DOMAIN v, i < j, v[i].run = v[j].run
        PROVE  v[i].kind # "ended" /\ v[j].kind # "started"
    <3>1. CASE i \in DOMAIN w /\ j \in DOMAIN w
      BY <1>2, <2>1, <3>1 DEF InOrder
    <3>2. CASE i \notin DOMAIN w /\ j \notin DOMAIN w
      BY <2>1, <3>2 DEF Adds
    <3>3. ~(i \in DOMAIN w /\ j \notin DOMAIN w) /\ ~(i \notin DOMAIN w /\ j \in DOMAIN w)
      BY <1>2, <1>3, <2>1
    <3> QED BY <3>1, <3>2, <3>3
  <2> QED BY <2>1
<1>5. ASSUME NEW i \in DOMAIN v
      PROVE  /\ g[v[i].run].fate \in {"running", "done", "failed"}
             /\ v[i].kind = "ended" => g[v[i].run].fate # "running"
             /\ v[i].kind = "started" => g[v[i].run].fate = "running" \/ Coming(v, v[i].run, "ended")
  <2>1. CASE i \in DOMAIN w
    <3>1. /\ h[w[i].run].fate \in {"running", "done", "failed"}
          /\ w[i].kind = "ended" => h[w[i].run].fate # "running"
          /\ w[i].kind = "started" => h[w[i].run].fate = "running" \/ Coming(w, w[i].run, "ended")
      BY <2>1 DEF InOrder
    <3>2. v[i] = w[i] /\ g[v[i].run] = h[w[i].run]
      BY <1>2, <2>1
    <3> QED BY <1>1, <3>1, <3>2
  <2>2. CASE i \notin DOMAIN w
    BY <1>3, <2>2
  <2> QED BY <2>1, <2>2
<1> QED BY <1>4, <1>5 DEF InOrder

LEMMA OrderAfterEnding ==
    ASSUME NEW h, NEW g, NEW w, NEW v, NEW m, InOrder(h, w),
           \A r \in DOMAIN h \ {m} : g[r] = h[r], h[m].fate = "running",
           g[m].fate \in {"done", "failed"},
           \A i \in DOMAIN w : w[i].run \in DOMAIN h, Adds(w, v, m, {"ended"})
    PROVE  InOrder(g, v)
<1>1. (\A r, k : Coming(w, r, k) => Coming(v, r, k)) /\ Coming(v, m, "ended")
  BY AddsMeans
<1>2. \A i \in DOMAIN w : v[i] = w[i] /\ (v[i].run # m => g[v[i].run] = h[w[i].run])
  BY DEF Adds
<1>3. \A i \in DOMAIN v \ DOMAIN w : v[i].run = m /\ v[i].kind = "ended" /\ \A j \in DOMAIN w : j < i
  BY DEF Adds
<1>4. DOMAIN v \subseteq Nat
  BY DEF Adds
<1>5. \A i, j \in DOMAIN v : i < j /\ v[i].run = v[j].run => v[i].kind # "ended" /\ v[j].kind # "started"
  <2>1. ASSUME NEW i \in DOMAIN v, NEW j \in DOMAIN v, i < j, v[i].run = v[j].run
        PROVE  v[i].kind # "ended" /\ v[j].kind # "started"
    <3>1. CASE i \in DOMAIN w /\ j \in DOMAIN w
      BY <1>2, <2>1, <3>1 DEF InOrder
    <3>2. CASE i \notin DOMAIN w /\ j \notin DOMAIN w
      BY <2>1, <3>2 DEF Adds
    <3>3. CASE i \in DOMAIN w /\ j \notin DOMAIN w
      <4>1. v[j].kind = "ended" /\ v[i].run = m /\ v[i] = w[i]
        BY <1>2, <1>3, <2>1, <3>3
      <4>2. w[i].kind # "ended"
        BY <3>3, <4>1 DEF InOrder
      <4> QED BY <4>1, <4>2
    <3>4. ~(i \notin DOMAIN w /\ j \in DOMAIN w)
      <4>1. i \notin DOMAIN w /\ j \in DOMAIN w => j < i
        BY <1>3
      <4>2. i \in Nat /\ j \in Nat /\ ~(j < i)
        BY <1>4, <2>1
      <4> QED BY <4>1, <4>2
    <3> QED BY <3>1, <3>2, <3>3, <3>4
  <2> QED BY <2>1
<1>6. ASSUME NEW i \in DOMAIN v
      PROVE  /\ g[v[i].run].fate \in {"running", "done", "failed"}
             /\ v[i].kind = "ended" => g[v[i].run].fate # "running"
             /\ v[i].kind = "started" => g[v[i].run].fate = "running" \/ Coming(v, v[i].run, "ended")
  <2>1. CASE v[i].run = m
    BY <1>1, <2>1
  <2>2. CASE v[i].run # m
    <3>1. i \in DOMAIN w
      BY <1>3, <2>2
    <3>2. /\ h[w[i].run].fate \in {"running", "done", "failed"}
          /\ w[i].kind = "ended" => h[w[i].run].fate # "running"
          /\ w[i].kind = "started" => h[w[i].run].fate = "running" \/ Coming(w, w[i].run, "ended")
      BY <3>1 DEF InOrder
    <3>3. v[i] = w[i] /\ g[v[i].run] = h[w[i].run]
      BY <1>2, <2>2, <3>1
    <3> QED BY <1>1, <3>2, <3>3
  <2> QED BY <2>1, <2>2
<1> QED BY <1>5, <1>6 DEF InOrder

LEMMA TakeCallIsRight ==
    ASSUME Ind, Right, TakeCall
    PROVE  Right'
<1>1. UNCHANGED <<disk, pointer, current, record, apart, adrift>> /\ calls' = Tail(calls)
  BY TakeCallTypes DEF TakeCall, clientVars
<1>2. PointerIsCurrent'
  BY <1>1 DEF Right, PointerIsCurrent
<1>3. \A e \in Experiments : Book(e)' = Book(e)
  BY <1>1 DEF Book
<1>4. /\ calls \in Seq(Calls) /\ calls # <<>> /\ DOMAIN calls = 1 .. Len(calls) /\ Len(calls) \in Nat \ {0}
      /\ DOMAIN calls' = 1 .. Len(calls) - 1 /\ \A i \in DOMAIN calls' : calls'[i] = calls[i + 1]
  <2>1. calls \in Seq(Calls) /\ calls # <<>> /\ Len(calls) \in Nat \ {0}
    BY TakeCallTypes, PlainTypes
  <2>2. /\ calls' \in Seq(Calls) /\ Len(calls') = Len(calls) - 1
        /\ \A i \in 1 .. Len(calls') : calls'[i] = calls[i + 1]
    BY <1>1, <2>1, HeadTailProperties
  <2> QED BY <2>1, <2>2, LenProperties
<1>5. engine'.folder = IF calls[1].what = "folder" THEN calls[1].value ELSE engine.folder
  <2>1. PICK c : c = calls[1] /\ c = Head(calls)
    BY TakeCallTypes
  <2>2. engine' = CASE c.what = "bounded"  -> [engine EXCEPT !.bounded = c.value]
                    [] c.what = "attended" -> [engine EXCEPT !.attended = c.value]
                    [] c.what = "folder"   -> [engine EXCEPT !.folder = c.value]
                    [] OTHER               -> engine
    BY <2>1 DEF TakeCall
  <2>3. engine \in [attended : BOOLEAN, bounded : BOOLEAN, folder : Experiments \cup {0}]
    BY PlainTypes
  <2>4. CASE c.what = "folder"
    BY <2>1, <2>2, <2>3, <2>4
  <2>5. CASE c.what # "folder"
    BY <2>1, <2>2, <2>3, <2>5
  <2> QED BY <2>4, <2>5
<1>6. ASSUME NEW f, NEW i \in DOMAIN calls', calls'[i].what = "run",
             After(calls', i - 1, engine'.folder, "folder", f)
      PROVE  Concerned(f)
  <2>1. i \in 1 .. Len(calls) /\ i + 1 \in DOMAIN calls /\ (i + 1) - 1 = i
    BY <1>4
  <2>2. PICK then : then = engine'.folder
    OBVIOUS
  <2>3. After(Tail(calls), i - 1, then, "folder", f)
    BY <1>1, <1>6, <2>2
  <2>4. After(calls, i, engine.folder, "folder", f)
    BY <1>4, <1>5, <2>1, <2>2, <2>3, AfterTake
  <2>5. calls[i + 1].what = "run"
    BY <1>4, <1>6
  <2> QED BY <2>1, <2>4, <2>5 DEF Concerned
<1>9. Headed'
  <2>1. ASSUME "folder" \in apart
        PROVE  \E f \in Experiments \cup {0} :
                  /\ After(Tail(calls), Len(Tail(calls)), engine'.folder, "folder", f)
                  /\ f = 0 \/ {f, current} \subseteq adrift
    <3>1. PICK f \in Experiments \cup {0} :
            /\ After(calls, Len(calls), engine.folder, "folder", f)
            /\ f = 0 \/ {f, current} \subseteq adrift
      BY <2>1 DEF Right, Headed
    <3>2. PICK then : then = engine'.folder
      OBVIOUS
    <3>3. Len(calls) \in 1 .. Len(calls) /\ Len(Tail(calls)) = Len(calls) - 1
      BY <1>4, HeadTailProperties
    <3>4. After(Tail(calls), Len(calls) - 1, then, "folder", f)
      BY <1>4, <1>5, <3>1, <3>2, <3>3, AfterTake
    <3> QED BY <3>1, <3>2, <3>3, <3>4
  <2> QED BY <1>1, <2>1 DEF Headed
<1>7. CASE history' = history /\ news' = news
  <2>1. \A f : Concerned(f)' => Concerned(f)
    BY <1>6, <1>7 DEF Concerned, Flying
  <2>2. OnlyTheirs'
    BY <1>1, <2>1 DEF Right, OnlyTheirs
  <2>3. BooksAreTrue' /\ InOrder(history, news)'
    BY <1>1, <1>3, <1>7 DEF Right, BooksAreTrue
  <2> QED BY <1>2, <1>9, <2>2, <2>3 DEF Right
<1>8. ASSUME calls[1].what = "run", engine.folder \in Experiments, Flying = {},
             NEW m \in Nat \ {0},
             m \notin DOMAIN history, DOMAIN history' = DOMAIN history \cup {m},
             \A r \in DOMAIN history : history'[r] = history[r],
             history'[m].folder = engine.folder,
             \/ history'[m].fate = "never started" /\ news' = news
             \/ history'[m].fate = "running" /\ Adds(news, news', m, {"started", "owner"})
      PROVE  Right'
  <2>0. \A i \in DOMAIN news : news[i].run \in DOMAIN history
    BY MoreTypes
  <2>1. Concerned(engine.folder)
    <3>1. PICK f : f = engine.folder
      BY <1>8
    <3>2. After(calls, 1 - 1, engine.folder, "folder", f)
      <4>1. 1 .. 1 - 1 = {}
        OBVIOUS
      <4> QED BY <3>1, <4>1 DEF After
    <3>3. 1 \in DOMAIN calls
      BY <1>4
    <3> QED BY <1>8, <3>1, <3>2, <3>3 DEF Concerned
  <2>2. ASSUME NEW f, Concerned(f)'  PROVE Concerned(f)
    <3>1. CASE \E r \in Flying' : history'[r].folder = f
      <4>1. PICK r \in DOMAIN history' : history'[r].fate = "running" /\ history'[r].folder = f
        BY <3>1 DEF Flying
      <4>2. CASE r = m
        BY <1>8, <2>1, <4>1, <4>2
      <4>3. CASE r # m
        BY <1>8, <4>1, <4>3 DEF Flying
      <4> QED BY <4>2, <4>3
    <3>2. CASE \E i \in DOMAIN news' : history'[news'[i].run].folder = f
      <4>1. PICK i \in DOMAIN news' : history'[news'[i].run].folder = f
        BY <3>2
      <4>2. CASE news'[i].run = m
        BY <1>8, <2>1, <4>1, <4>2
      <4>3. CASE news'[i].run # m
        <5>1. i \in DOMAIN news /\ news'[i] = news[i]
          BY <1>8, <4>3 DEF Adds
        <5>2. history[news[i].run].folder = f
          BY <1>8, <2>0, <4>1, <5>1
        <5> QED BY <5>1, <5>2 DEF Concerned
      <4> QED BY <4>2, <4>3
    <3> QED BY <1>6, <2>2, <3>1, <3>2 DEF Concerned
  <2>3. OnlyTheirs'
    BY <1>1, <2>2 DEF Right, OnlyTheirs
  <2>4. InOrder(history, news)'
    <3>0. InOrder(history, news)
      BY DEF Right
    <3>1. CASE history'[m].fate = "running" /\ Adds(news, news', m, {"started", "owner"})
      BY <1>8, <2>0, <3>0, <3>1, OrderAfterPlacing
    <3>2. CASE news' = news
      BY <1>8, <2>0, <3>0, <3>2 DEF InOrder
    <3> QED BY <1>8, <3>1, <3>2
  <2>5. BooksAreTrue'
    <3>1. ASSUME NEW e \in Experiments \ adrift
          PROVE  TrueBook(Book(e).runs, e, history', news', Book(e).open)
      <4>1. TrueBook(Book(e).runs, e, history, news, Book(e).open)
        BY DEF Right, BooksAreTrue
      <4>2. CASE news' = news /\ history'[m].fate = "never started"
        BY <1>8, <4>1, <4>2, BookAfterPlacing
      <4>3. CASE history'[m].fate = "running" /\ Adds(news, news', m, {"started", "owner"})
        <5>1. /\ \A r, k : Coming(news', r, k) <=> Coming(news, r, k) \/ (r = m /\ k \in {"started", "owner"})
              /\ \A r : Quiet(news, r) /\ r # m => Quiet(news', r)
          BY <4>3, AddsMeans
        <5>2. /\ \A r \in DOMAIN history : \A k \in Kinds : Coming(news', r, k) <=> Coming(news, r, k)
              /\ \A r \in DOMAIN history : Quiet(news, r) => Quiet(news', r)
              /\ Coming(news', m, "started")
          BY <1>8, <5>1
        <5> QED BY <1>8, <4>1, <5>2, BookAfterPlacing
      <4> QED BY <1>8, <4>2, <4>3
    <3> QED BY <1>1, <1>3, <3>1 DEF BooksAreTrue
  <2> QED BY <1>2, <1>9, <2>3, <2>4, <2>5 DEF Right
<1> QED BY <1>7, <1>8, WhatTakeCallDoes

\* A request file sets a policy, and no folder.
LEMMA PolicyByFileIsRight ==
    ASSUME Ind, Right, NEW what \in Settings, NEW value \in BOOLEAN, PolicyByFile(what, value)
    PROVE  Right'
<1>1. /\ engine' = [engine EXCEPT ![what] = value] /\ apart' \subseteq apart \cup {what}
      /\ UNCHANGED <<disk, pointer, current, record, adrift, calls, news, history>>
  BY DEF PolicyByFile, clientVars
<1>2. engine'.folder = engine.folder /\ ("folder" \in apart' => "folder" \in apart)
  <2>1. engine \in [attended : BOOLEAN, bounded : BOOLEAN, folder : Experiments \cup {0}]
    BY PlainTypes
  <2> QED BY <1>1, <2>1 DEF Settings
<1>3. \A f : Concerned(f)' => Concerned(f)
  BY <1>1, <1>2 DEF Concerned, Flying
<1>4. Headed'
  BY <1>1, <1>2, HeadedStays DEF Right
<1>5. PointerIsCurrent' /\ OnlyTheirs' /\ InOrder(history, news)' /\ BooksAreTrue'
  BY <1>1, <1>3 DEF Right, PointerIsCurrent, OnlyTheirs, BooksAreTrue, Book
<1> QED BY <1>4, <1>5 DEF Right

LEMMA EndRunIsRight ==
    ASSUME Ind, Right, EndRun
    PROVE  Right'
<1>1. PICK m \in DOMAIN history :
        /\ history[m].fate = "running"
        /\ history' = [history EXCEPT ![m].fate = IF m % 2 = 1 THEN "done" ELSE "failed"]
        /\ Tell(<<"ended">>, m)
  BY DEF EndRun, Flying
<1>2. UNCHANGED <<disk, pointer, current, record, apart, adrift, engine, calls>>
  BY DEF EndRun, clientVars
<1>3. /\ DOMAIN history' = DOMAIN history /\ \A r \in DOMAIN history \ {m} : history'[r] = history[r]
      /\ history'[m].folder = history[m].folder /\ history'[m].number = history[m].number
      /\ history'[m].fate \in {"done", "failed"}
  <2>1. history[m] \in Fated /\ m \in Nat \ {0}
    BY MoreTypes
  <2>2. PICK run : run = [history[m] EXCEPT !.fate = IF m % 2 = 1 THEN "done" ELSE "failed"]
    OBVIOUS
  <2>3. run.folder = history[m].folder /\ run.number = history[m].number /\ run.fate \in {"done", "failed"}
    BY <2>1, <2>2 DEF Fated
  <2>4. history' = [history EXCEPT ![m] = run]
    BY <1>1, <2>2
  <2> QED BY <2>3, <2>4
<1>4. Adds(news, news', m, {"ended"})
  <2>1. m \in Nat \ {0}
    BY MoreTypes
  <2> QED BY <1>1, <2>1, TellingAdds
<1>5. \A i \in DOMAIN news : news[i].run \in DOMAIN history
  BY MoreTypes
<1>6. PointerIsCurrent' /\ \A e \in Experiments : Book(e)' = Book(e)
  BY <1>2 DEF Right, PointerIsCurrent, Book
<1>7. ASSUME NEW f, Concerned(f)'  PROVE Concerned(f)
  <2>1. history[m].folder = f => Concerned(f)
    BY <1>1 DEF Concerned, Flying
  <2>2. CASE \E r \in Flying' : history'[r].folder = f
    <3>1. PICK r \in DOMAIN history' : history'[r].fate = "running" /\ history'[r].folder = f
      BY <2>2 DEF Flying
    <3>2. r # m
      BY <1>3, <3>1
    <3> QED BY <1>3, <3>1, <3>2 DEF Concerned, Flying
  <2>3. CASE \E i \in DOMAIN news' : history'[news'[i].run].folder = f
    <3>1. PICK i \in DOMAIN news' : history'[news'[i].run].folder = f
      BY <2>3
    <3>2. CASE news'[i].run = m
      BY <1>3, <2>1, <3>1, <3>2
    <3>3. CASE news'[i].run # m
      <4>1. i \in DOMAIN news /\ news'[i] = news[i]
        BY <1>4, <3>3 DEF Adds
      <4>2. history[news[i].run].folder = f
        BY <1>3, <1>5, <3>1, <3>3, <4>1
      <4> QED BY <4>1, <4>2 DEF Concerned
    <3> QED BY <3>2, <3>3
  <2>4. CASE \E i \in DOMAIN calls' : calls'[i].what = "run" /\ After(calls', i - 1, engine'.folder, "folder", f)
    BY <1>2, <2>4 DEF Concerned
  <2> QED BY <1>7, <2>2, <2>3, <2>4 DEF Concerned
<1>8. OnlyTheirs'
  BY <1>2, <1>7 DEF Right, OnlyTheirs
<1>9. InOrder(history, news)'
  BY <1>1, <1>3, <1>4, <1>5, OrderAfterEnding, ZenonT(60) DEF Right
<1>10. BooksAreTrue'
  <2>1. ASSUME NEW e \in Experiments \ adrift
        PROVE  TrueBook(Book(e).runs, e, history', news', Book(e).open)
    <3>1. TrueBook(Book(e).runs, e, history, news, Book(e).open)
      BY DEF Right, BooksAreTrue
    <3>2. /\ \A r, k : Coming(news', r, k) <=> Coming(news, r, k) \/ (r = m /\ k \in {"ended"})
          /\ \A r : Quiet(news, r) /\ r # m => Quiet(news', r)
      BY <1>4, AddsMeans
    <3>3. /\ Coming(news', m, "ended")
          /\ \A r \in DOMAIN history : Coming(news, r, "ended") => Coming(news', r, "ended")
          /\ \A r \in DOMAIN history : Coming(news', r, "started") <=> Coming(news, r, "started")
          /\ \A r \in DOMAIN history \ {m} : Quiet(news, r) => Quiet(news', r)
      BY <3>2
    <3> QED BY <1>1, <1>3, <3>1, <3>3, BookAfterEnding, ZenonT(60)
  <2> QED BY <1>2, <1>6, <2>1 DEF BooksAreTrue
<1>11. Headed'
  BY <1>2 DEF Right, Headed
<1> QED BY <1>6, <1>8, <1>9, <1>10, <1>11 DEF Right
-----------------------------------------------------------------------------
(* What is heard.                                                           *)

\* An entry of a number is found, if there is one.
LEMMA SomeIsFound ==
    ASSUME record.runs \in Seq(Entries), NEW i \in DOMAIN record.runs
    PROVE  Found(record.runs[i].number) # {}
<1> PICK n : n = record.runs[i].number
  OBVIOUS
<1> PICK T : T = {j \in DOMAIN record.runs : record.runs[j].number = n}
  OBVIOUS
<1>1. PICK l \in Nat : DOMAIN record.runs = 1 .. l
  BY LenProperties
<1>2. T \subseteq Nat /\ T # {}
  BY <1>1
<1>3. PICK x \in T : \A y \in T : ~(<<y, x>> \in OpToRel(<, Nat))
  BY <1>2, NatLessThanWellFounded, WFMin
<1>4. \A y \in T : ~(y < x)
  BY <1>2, <1>3 DEF OpToRel
<1>5. \A j \in 1 .. (x - 1) : record.runs[j].number # n
  <2>1. ASSUME NEW j \in 1 .. (x - 1)  PROVE record.runs[j].number # n
    <3>0. x \in 1 .. l
      BY <1>1, <1>3
    <3>1. j \in DOMAIN record.runs /\ j < x
      <4>1. j \in 1 .. l /\ j < x
        BY <3>0
      <4> QED BY <1>1, <4>1
    <3> QED BY <1>4, <3>1
  <2> QED BY <2>1
<1>6. x \in Found(n)
  BY <1>3, <1>5 DEF Found
<1> QED BY <1>6

\* The order of what is left of the news.
LEMMA OrderAfterHearing ==
    ASSUME NEW h, NEW w \in Seq(Items), w # <<>>, InOrder(h, w)
    PROVE  /\ InOrder(h, Tail(w))
           /\ h[w[1].run].fate \in {"running", "done", "failed"}
           /\ w[1].kind = "started" =>
                 /\ h[w[1].run].fate = "running" \/ Coming(Tail(w), w[1].run, "ended")
                 /\ ~Coming(Tail(w), w[1].run, "started")
           /\ w[1].kind = "ended" => Quiet(Tail(w), w[1].run)
<1> PICK v : v = Tail(w)
  OBVIOUS
<1>1. /\ Len(w) \in Nat \ {0} /\ DOMAIN w = 1 .. Len(w) /\ DOMAIN v = 1 .. Len(w) - 1
      /\ \A i \in DOMAIN v : v[i] = w[i + 1]
  <2>1. Len(w) \in Nat /\ DOMAIN w = 1 .. Len(w) /\ Len(w) # 0
    BY LenProperties, EmptySeq
  <2>2. v \in Seq(Items) /\ Len(v) = Len(w) - 1 /\ \A i \in 1 .. Len(v) : v[i] = w[i + 1]
    BY HeadTailProperties
  <2>3. DOMAIN v = 1 .. Len(v)
    BY <2>2, LenProperties
  <2> QED BY <2>1, <2>2, <2>3
<1>2. /\ 1 \in DOMAIN w
      /\ \A i \in DOMAIN v : i + 1 \in DOMAIN w /\ w[i + 1] = v[i] /\ 1 < i + 1
      /\ \A i, j \in DOMAIN v : i < j => i + 1 < j + 1
  BY <1>1
<1>3. \A r, k : Coming(w, r, k) <=> Coming(v, r, k) \/ (r = w[1].run /\ k = w[1].kind)
  BY TakenFromTheFront DEF Taken
<1>4. w[1].kind = "ended" => Quiet(v, w[1].run)
  BY <1>2 DEF InOrder, Quiet
<1>5. w[1].kind = "started" => ~Coming(v, w[1].run, "started")
  BY <1>2 DEF InOrder, Coming
<1>6. /\ h[w[1].run].fate \in {"running", "done", "failed"}
      /\ w[1].kind = "started" => h[w[1].run].fate = "running" \/ Coming(w, w[1].run, "ended")
  BY <1>2 DEF InOrder
<1>7. InOrder(h, v)
  <2>1. \A i, j \in DOMAIN v : i < j /\ v[i].run = v[j].run => v[i].kind # "ended" /\ v[j].kind # "started"
    <3>1. ASSUME NEW i \in DOMAIN v, NEW j \in DOMAIN v, i < j, v[i].run = v[j].run
          PROVE  v[i].kind # "ended" /\ v[j].kind # "started"
      <4>1. PICK a \in DOMAIN w, b \in DOMAIN w : a < b /\ w[a] = v[i] /\ w[b] = v[j]
        BY <1>2, <3>1
      <4> QED BY <3>1, <4>1 DEF InOrder
    <3> QED BY <3>1
  <2>2. ASSUME NEW i \in DOMAIN v
        PROVE  /\ h[v[i].run].fate \in {"running", "done", "failed"}
               /\ v[i].kind = "ended" => h[v[i].run].fate # "running"
               /\ v[i].kind = "started" => h[v[i].run].fate = "running" \/ Coming(v, v[i].run, "ended")
    <3>1. PICK a \in DOMAIN w : w[a] = v[i] /\ 1 < a
      BY <1>2
    <3>2. /\ h[v[i].run].fate \in {"running", "done", "failed"}
          /\ v[i].kind = "ended" => h[v[i].run].fate # "running"
          /\ v[i].kind = "started" => h[v[i].run].fate = "running" \/ Coming(w, v[i].run, "ended")
      BY <3>1 DEF InOrder
    <3>3. Coming(w, v[i].run, "ended") => Coming(v, v[i].run, "ended")
      <4>1. ~(v[i].run = w[1].run /\ w[1].kind = "ended")
        BY <1>4 DEF Quiet
      <4> QED BY <1>3, <4>1
    <3> QED BY <3>2, <3>3
  <2> QED BY <2>1, <2>2 DEF InOrder
<1>8. w[1].kind = "started" /\ Coming(w, w[1].run, "ended") => Coming(v, w[1].run, "ended")
  BY <1>3
<1> QED BY <1>4, <1>5, <1>6, <1>7, <1>8

LEMMA WhatIsHeard ==
    ASSUME Ind, Hear
    PROVE  /\ news[1] \in Items /\ news[1].run \in DOMAIN history
           /\ \/ UNCHANGED <<record, disk>>
                  /\ (current = 0 \/ (news[1].kind # "started" /\ Found(history[news[1].run].number) = {}))
              \/ /\ current \in Experiments /\ record' \in Records /\ SaveCurrent(current, record')
                 /\ \/ news[1].kind = "started" /\ record' = RunStarted(news[1].run)
                    \/ news[1].kind = "owner" /\ \E i \in Found(history[news[1].run].number) :
                            record' = OwnerStamped(i, news[1].run)
                    \/ news[1].kind = "ended" /\ \E i \in Found(history[news[1].run].number) :
                            record' = RunFinished(i, news[1].run)
<1>1. news \in Seq(Items) /\ news # <<>> /\ Head(news) = news[1] /\ 1 \in DOMAIN news
  BY MoreTypes, WhatHearDoes, HeadTailProperties, EmptySeq
<1>2. news[1] \in Items /\ news[1].run \in DOMAIN history
  BY <1>1, MoreTypes
<1>3. PICK x \in DOMAIN history : x = news[1].run
  BY <1>2
<1>4. /\ RunStarted(x) \in Records
      /\ \A i \in DOMAIN record.runs : OwnerStamped(i, x) \in Records /\ RunFinished(i, x) \in Records
  BY HeardTyped
<1>5. \A n : Found(n) \subseteq DOMAIN record.runs
  BY DEF Found
<1>6. CASE current = 0 \/ (news[1].kind # "started" /\ Found(history[x].number) = {})
  BY <1>1, <1>2, <1>3, <1>6 DEF Hear
<1>7. CASE ~(current = 0 \/ (news[1].kind # "started" /\ Found(history[x].number) = {}))
  <2>1. \/ news[1].kind = "started" /\ record' = RunStarted(x) /\ SaveCurrent(current, RunStarted(x))
        \/ news[1].kind = "owner" /\ \E i \in Found(history[x].number) :
              record' = OwnerStamped(i, x) /\ SaveCurrent(current, OwnerStamped(i, x))
        \/ news[1].kind = "ended" /\ \E i \in Found(history[x].number) :
              record' = RunFinished(i, x) /\ SaveCurrent(current, RunFinished(i, x))
    BY <1>1, <1>3, <1>7 DEF Hear
  <2>2. current \in Experiments
    BY <1>7, PlainTypes
  <2>3. record' \in Records /\ SaveCurrent(current, record')
    BY <1>4, <1>5, <2>1
  <2> QED BY <1>2, <1>3, <2>1, <2>2, <2>3
<1> QED BY <1>3, <1>6, <1>7

\* The books after the news of m has been heard, in its own experiment.
LEMMA OwnBookAfterHearing ==
    ASSUME Ind, Right, Hear, current \in Experiments, current \notin adrift,
           NEW m \in DOMAIN history, m = news[1].run, history[m].folder = current
    PROVE  TrueBook(record'.runs, current, history, Tail(news), record.open)
<1> PICK e \in Experiments : e = current
  OBVIOUS
<1> PICK v, o : v = Tail(news) /\ o = record.open
  OBVIOUS
<1> PICK runs \in Seq(Entries) : runs = record.runs
  BY PlainTypes DEF Records
<1>1. news \in Seq(Items) /\ news # <<>> /\ InOrder(history, news)
  BY MoreTypes, WhatHearDoes DEF Right
<1>2. Taken(news, v, m, news[1].kind)
  BY <1>1, TakenFromTheFront
<1>3. TrueBook(runs, e, history, news, o)
  BY DEF Right, BooksAreTrue, Book
<1>4. e # 0 /\ record \in Records /\ history[m] \in Fated /\ history[m].folder = e
  BY PlainTypes, MoreTypes
<1>5. /\ news[1].kind = "started" =>
           /\ history[m].fate = "running" \/ Coming(v, m, "ended")
           /\ ~Coming(v, m, "started")
      /\ news[1].kind = "ended" => Quiet(v, m)
      /\ history[m].fate \in {"running", "done", "failed"}
      /\ news[1].kind = "ended" => history[m].fate # "running"
  <2>1. 1 \in DOMAIN news
    BY <1>1, MoreTypes, EmptySeq
  <2> QED BY <1>1, <2>1, OrderAfterHearing DEF InOrder
<1>6. news[1].kind \in Kinds
  BY WhatIsHeard DEF Items
<1>7. \A i \in Found(history[m].number) : i \in DOMAIN runs /\ runs[i].run = m
  <2>1. \A r, q \in DOMAIN history : r # q /\ history[r].folder = history[q].folder
                                         => history[r].number # history[q].number
    BY DEF Ind, NumbersAreUnique
  <2>2. ASSUME NEW i \in Found(history[m].number)  PROVE i \in DOMAIN runs /\ runs[i].run = m
    <3>1. i \in DOMAIN runs /\ runs[i].number = history[m].number
      BY DEF Found
    <3> QED BY <1>3, <1>4, <2>1, <3>1, FoundIsItsOwn
  <2> QED BY <2>2
<1>8. CASE news[1].kind = "started"
  <2>1. record' = RunStarted(m)
    BY <1>4, <1>8, WhatIsHeard
  <2>2. PICK x \in Entries : x = [number |-> history[m].number, run |-> m, owner |-> 0, status |-> "running"]
    <3>1. history[m].number \in Nat /\ m \in Nat \ {0}
      <4>1. history[m].number \in Nat
        BY <1>4 DEF Fated
      <4>2. m \in Nat \ {0}
        BY MoreTypes
      <4> QED BY <4>1, <4>2
    <3> QED BY <3>1 DEF Entries, Fates
  <2>3. record'.runs = Append(runs, x)
    <3>1. record' = [record EXCEPT !.runs = Append(runs, x)]
      BY <2>1, <2>2 DEF RunStarted
    <3> QED BY <1>4, <3>1 DEF Records
  <2>4. TrueBook(Append(runs, x), e, history, v, o)
    BY <1>2, <1>3, <1>4, <1>5, <1>8, <2>2, BookAfterStart
  <2> QED BY <2>3, <2>4
<1>9. CASE news[1].kind = "owner"
  <2>1. CASE record' = record
    <3>1. TrueBook(runs, e, history, v, o)
      BY <1>2, <1>3, <1>9, BookAfterOwnerUnheard
    <3> QED BY <2>1, <3>1
  <2>2. CASE \E i \in Found(history[m].number) : record' = OwnerStamped(i, m)
    <3>1. PICK i \in Found(history[m].number) : record' = OwnerStamped(i, m)
      BY <2>2
    <3>2. i \in DOMAIN runs /\ runs[i].run = m
      BY <1>7
    <3>3. PICK x \in Entries : x = [runs[i] EXCEPT !.owner = m]
      <4>1. runs[i] \in Entries /\ m \in Nat
        BY <3>2, MoreTypes, ElementOfSeq, LenProperties
      <4> QED BY <4>1 DEF Entries
    <3>4. record'.runs = [runs EXCEPT ![i] = x]
      <4>1. record' = [record EXCEPT !.runs = [runs EXCEPT ![i] = x]]
        BY <3>1, <3>3 DEF OwnerStamped
      <4> QED BY <1>4, <4>1 DEF Records
    <3>5. TrueBook([runs EXCEPT ![i] = x], e, history, v, o)
      <4>1. Taken(news, v, m, "owner")
        BY <1>2, <1>9
      <4> QED BY <1>3, <3>2, <3>3, <4>1, BookAfterOwner
    <3> QED BY <3>4, <3>5
  <2> QED BY <1>4, <1>9, <2>1, <2>2, WhatIsHeard
<1>10. CASE news[1].kind = "ended"
  <2>1. Found(history[m].number) # {}
    <3>1. ~Coming(news, m, "started")
      <4>1. ~Coming(v, m, "started")
        BY <1>5, <1>10 DEF Coming, Quiet
      <4> QED BY <1>2, <1>10, <4>1 DEF Taken
    <3>2. Complete(runs, e, history, news) /\ history[m].fate \notin {"never started", "lost"}
      BY <1>3, <1>5 DEF TrueBook
    <3>3. PICK i \in DOMAIN runs : runs[i].run = m
      BY <1>4, <3>1, <3>2 DEF Complete
    <3>4. runs[i].number = history[m].number
      BY <1>3, <3>3 DEF TrueBook, TrueEntry
    <3> QED BY <3>4, SomeIsFound
  <2>2. PICK i \in Found(history[m].number) : record' = RunFinished(i, m)
    BY <1>4, <1>10, <2>1, WhatIsHeard
  <2>3. i \in DOMAIN runs /\ runs[i].run = m
    BY <1>7
  <2>4. PICK x \in Entries : x = [runs[i] EXCEPT !.status = history[m].fate]
    <3>1. runs[i] \in Entries
      BY <2>3, ElementOfSeq, LenProperties
    <3>2. history[m].fate \in Fates
      BY <1>4 DEF Fated
    <3> QED BY <3>1, <3>2 DEF Entries
  <2>5. record'.runs = [runs EXCEPT ![i] = x]
    <3>1. record' = [record EXCEPT !.runs = [runs EXCEPT ![i] = x]]
      BY <2>2, <2>4 DEF RunFinished
    <3> QED BY <1>4, <3>1 DEF Records
  <2>6. TrueBook([runs EXCEPT ![i] = x], e, history, v, o)
    <3>1. Taken(news, v, m, "ended") /\ Quiet(v, m)
      BY <1>2, <1>5, <1>10
    <3> QED BY <1>3, <2>3, <2>4, <3>1, BookAfterEnd
  <2> QED BY <2>5, <2>6
<1> QED BY <1>6, <1>8, <1>9, <1>10 DEF Kinds

LEMMA HearIsRight ==
    ASSUME Ind, Right, Hear
    PROVE  Right'
<1>1. /\ news # <<>> /\ news' = Tail(news) /\ news \in Seq(Items)
      /\ UNCHANGED <<engine, history, pointer, current, calls, apart, adrift>>
  BY WhatHearDoes, MoreTypes
<1>2. PICK m \in DOMAIN history : m = news[1].run
  BY WhatIsHeard
<1>3. 1 \in DOMAIN news /\ \A i \in DOMAIN news' : i + 1 \in DOMAIN news /\ news'[i] = news[i + 1]
  <2>1. DOMAIN news = 1 .. Len(news) /\ Len(news) \in Nat
    BY MoreTypes
  <2>2. news' \in Seq(Items) /\ Len(news') = Len(news) - 1 /\ \A i \in 1 .. Len(news') : news'[i] = news[i + 1]
    BY <1>1, HeadTailProperties
  <2>3. DOMAIN news' = 1 .. Len(news') /\ Len(news) # 0
    BY <1>1, <2>2, LenProperties, EmptySeq
  <2> QED BY <2>1, <2>2, <2>3
<1>4. /\ UNCHANGED <<record, disk>> \/ current \in Experiments
      /\ record'.made = record.made /\ record'.open = record.open
      /\ current \in Experiments => disk'[current] \in {disk[current], record'}
      /\ \A x \in Experiments \ {current} : disk'[x] = disk[x]
  <2>1. CASE UNCHANGED <<record, disk>>
    BY <2>1
  <2>2. CASE current \in Experiments /\ record' \in Records /\ SaveCurrent(current, record')
    <3>1. PICK c \in Experiments, r \in Records : c = current /\ r = record' /\ SaveCurrent(c, r)
      BY <2>2
    <3>2. disk'[c] \in {disk[c], r} /\ \A x \in Experiments \ {c} : disk'[x] = disk[x]
      BY <3>1, SavingTheCurrent
    <3>3. record'.made = record.made /\ record'.open = record.open
      <4>1. record \in Records
        BY PlainTypes
      <4>2. record' = record \/ \E runs : record' = [record EXCEPT !.runs = runs]
        BY DEF Hear, RunStarted, OwnerStamped, RunFinished
      <4> QED BY <4>1, <4>2 DEF Records
    <3> QED BY <3>1, <3>2, <3>3
  <2> QED BY <2>1, <2>2, WhatIsHeard
<1>5. PointerIsCurrent'
  <2>1. CASE UNCHANGED <<record, disk>>
    BY <1>1, <2>1 DEF Right, PointerIsCurrent
  <2>2. CASE current \in Experiments
    BY <1>1, <1>4, <2>2, PointerStays DEF Right
  <2> QED BY <1>4, <2>1, <2>2
<1>6. ASSUME NEW f, Concerned(f)'  PROVE Concerned(f)
  <2>1. CASE \E i \in DOMAIN news' : history'[news'[i].run].folder = f
    BY <1>1, <1>3, <2>1 DEF Concerned
  <2>2. CASE \E r \in Flying' : history'[r].folder = f
    BY <1>1, <2>2 DEF Concerned, Flying
  <2>3. CASE \E i \in DOMAIN calls' : calls'[i].what = "run" /\ After(calls', i - 1, engine'.folder, "folder", f)
    BY <1>1, <2>3 DEF Concerned
  <2> QED BY <1>6, <2>1, <2>2, <2>3 DEF Concerned
<1>7. OnlyTheirs'
  BY <1>1, <1>6 DEF Right, OnlyTheirs
<1>8. InOrder(history, news)'
  BY <1>1, OrderAfterHearing DEF Right
<1>9. BooksAreTrue'
  <2>1. PICK f \in Experiments : f = history[m].folder
    BY MoreTypes DEF Fated
  <2>2. f = current \/ (current \in adrift \cup {0} /\ f \in adrift)
    <3>1. Concerned(f)
      BY <1>2, <1>3, <2>1 DEF Concerned
    <3> QED BY <3>1 DEF Right, OnlyTheirs
  <2>3. ASSUME NEW e \in Experiments \ adrift
        PROVE  TrueBook(Book(e)'.runs, e, history, Tail(news), Book(e)'.open)
    <3>1. CASE e = f
      <4>1. current = e /\ current \in Experiments /\ current \notin adrift
        BY <2>2, <3>1
      <4>2. Book(e)' = record'
        BY <1>1, <4>1 DEF Book
      <4>3. TrueBook(record'.runs, current, history, Tail(news), record.open)
        BY <1>2, <2>1, <3>1, <4>1, OwnBookAfterHearing
      <4> QED BY <1>4, <4>1, <4>2, <4>3
    <3>2. CASE e # f
      <4>1. TrueBook(Book(e).runs, e, history, news, Book(e).open)
        BY DEF Right, BooksAreTrue
      <4>2. Taken(news, Tail(news), m, news[1].kind)
        BY <1>1, <1>2, TakenFromTheFront
      <4>3. TrueBook(Book(e).runs, e, history, Tail(news), Book(e).open)
        BY <2>1, <3>2, <4>1, <4>2, BookAfterOthersNews
      <4>4. e # current
        <5>1. e # 0
          BY DEF Experiments
        <5> QED BY <2>2, <3>2, <5>1
      <4>5. Book(e)' = Book(e)
        BY <1>1, <1>4, <4>4 DEF Book
      <4> QED BY <4>3, <4>5
    <3> QED BY <3>1, <3>2
  <2> QED BY <1>1, <2>3 DEF BooksAreTrue
<1>10. Headed'
  BY <1>1 DEF Right, Headed
<1> QED BY <1>5, <1>7, <1>8, <1>9, <1>10 DEF Right
-----------------------------------------------------------------------------
\* What a crash leaves of the history and, where an entry was unfinished, of the
\* record that is resumed.
LEMMA HistoryAfterCrash ==
    ASSUME Ind, Restart
    PROVE  /\ DOMAIN history' = DOMAIN history
           /\ \A r \in DOMAIN history :
                 /\ history'[r].folder = history[r].folder /\ history'[r].number = history[r].number
                 /\ history'[r].fate = IF history[r].fate = "running" \/ ~Quiet(news, r) THEN "lost"
                                       ELSE history[r].fate
<1>1. history' = [x \in DOMAIN history |->
                    IF history[x].fate = "running" \/ \E i \in DOMAIN news : news[i].run = x
                    THEN [history[x] EXCEPT !.fate = "lost"] ELSE history[x]]
  BY DEF Restart
<1>2. \A r \in DOMAIN history : ~Quiet(news, r) <=> \E i \in DOMAIN news : news[i].run = r
  BY DEF Quiet
<1>3. \A r \in DOMAIN history : [history[r] EXCEPT !.fate = "lost"].fate = "lost"
  <2>1. \A r \in DOMAIN history : history[r] \in Fated
    BY MoreTypes
  <2> QED BY <2>1 DEF Fated
<1>4. \A r \in DOMAIN history :
        history'[r].fate = IF history[r].fate = "running" \/ ~Quiet(news, r) THEN "lost" ELSE history[r].fate
  BY <1>1, <1>2, <1>3
<1>5. DOMAIN history' = DOMAIN history
  BY <1>1
<1> QED BY <1>4, <1>5, RestartHistory

LEMMA ResumedEntries ==
    ASSUME NEW r \in Records
    PROVE  /\ Resumed(r).made = r.made /\ Resumed(r).open = r.open
           /\ DOMAIN Resumed(r).runs = DOMAIN r.runs
           /\ \A i \in DOMAIN r.runs :
                 /\ Resumed(r).runs[i].run = r.runs[i].run /\ Resumed(r).runs[i].number = r.runs[i].number
                 /\ Resumed(r).runs[i].owner = r.runs[i].owner
                 /\ Resumed(r).runs[i].status # "running"
                 /\ \/ Resumed(r).runs[i].status = r.runs[i].status
                    \/ r.runs[i].status = "running" /\ Resumed(r).runs[i].status = "failed"
<1>1. PICK t : t = [i \in DOMAIN r.runs |->
        IF r.runs[i].status = "running" THEN [r.runs[i] EXCEPT !.status = "failed"] ELSE r.runs[i]]
  OBVIOUS
<1>2. Resumed(r) = [r EXCEPT !.runs = t]
  BY <1>1 DEF Resumed
<1>3. Resumed(r).runs = t /\ Resumed(r).made = r.made /\ Resumed(r).open = r.open
  BY <1>2 DEF Records
<1>4. DOMAIN t = DOMAIN r.runs
  BY <1>1
<1>5. r.runs \in Seq(Entries)
  BY DEF Records
<1>6. ASSUME NEW i \in DOMAIN r.runs
      PROVE  /\ t[i].run = r.runs[i].run /\ t[i].number = r.runs[i].number
             /\ t[i].owner = r.runs[i].owner /\ t[i].status # "running"
             /\ \/ t[i].status = r.runs[i].status
                \/ r.runs[i].status = "running" /\ t[i].status = "failed"
  <2>1. PICK x \in Entries : x = r.runs[i]
    BY <1>5, ElementOfSeq, LenProperties
  <2>2. t[i] = IF x.status = "running" THEN [x EXCEPT !.status = "failed"] ELSE x
    BY <1>1, <2>1
  <2>3. CASE x.status = "running"
    <3>1. t[i] = [x EXCEPT !.status = "failed"]
      BY <2>2, <2>3
    <3> QED BY <2>1, <2>3, <3>1 DEF Entries
  <2>4. CASE x.status # "running"
    BY <2>1, <2>2, <2>4
  <2> QED BY <2>3, <2>4
<1> QED BY <1>3, <1>4, <1>6

\* Before a crash, what the file of e says that is not let go is what its book says.
LEMMA BookOnDisk ==
    ASSUME Ind, NEW e \in Experiments \ LetGo
    PROVE  Book(e) = disk[e]
<1>1. e # 0
  BY DEF Experiments
<1> QED BY <1>1 DEF LetGo, Book

\* An experiment in which a run is unfinished is live, or its news went astray, or it
\* was closed before a crash.
LEMMA UnfinishedIsLive ==
    ASSUME Ind, Right, NEW e \in Experiments \ adrift,
           NEW i \in DOMAIN Book(e).runs, Book(e).runs[i].status = "running", Book(e).open
    PROVE  e = current
<1>1. PICK runs, o : runs = Book(e).runs /\ o = Book(e).open
  OBVIOUS
<1>2. TrueEntry(runs[i], e, history, news, o)
  BY <1>1 DEF Right, BooksAreTrue, TrueBook
<1>3. PICK r \in DOMAIN history : r = runs[i].run /\ history[r].folder = e
  BY <1>2 DEF TrueEntry
<1>4. history[r].fate = "running" \/ Coming(news, r, "ended")
  BY <1>1, <1>2, <1>3 DEF TrueEntry
<1>5. Concerned(e)
  <2>1. CASE history[r].fate = "running"
    BY <1>3, <2>1 DEF Concerned, Flying
  <2>2. CASE Coming(news, r, "ended")
    BY <1>3, <2>2 DEF Concerned, Coming
  <2> QED BY <1>4, <2>1, <2>2
<1> QED BY <1>5 DEF Right, OnlyTheirs

LEMMA RestartIsRight ==
    ASSUME Ind, Right, Restart
    PROVE  Right'
<1>1. adrift' = adrift \cup LetGo /\ apart' = {} /\ news' = <<>> /\ DOMAIN news' = {}
  <2>1. DOMAIN <<>> = {}
    OBVIOUS
  <2> QED BY <2>1, WhatRestartDoes
<1>2. /\ DOMAIN history' = DOMAIN history
      /\ \A r \in DOMAIN history : history'[r].fate # "running"
  <2>1. \A r \in DOMAIN history : history'[r].fate # "running"
    BY HistoryAfterCrash
  <2> QED BY <2>1, HistoryAfterCrash
<1>3. /\ current # 0 /\ current \notin adrift => pointer = current
      /\ pointer # 0 => disk[pointer].made
      /\ \A e \in Experiments : ~disk[e].made => disk[e].runs = <<>>
  BY DEF Right, PointerIsCurrent
<1>4. \/ /\ pointer \in Experiments /\ pointer # 0
         /\ pointer' = pointer /\ current' = pointer /\ record' = Resumed(disk[pointer])
         /\ disk'[pointer] \in {disk[pointer], Resumed(disk[pointer])}
         /\ \A x \in Experiments \ {pointer} : disk'[x] = disk[x]
      \/ /\ pointer \in Experiments => ~disk[pointer].open
         /\ pointer' \in {pointer, 0} /\ current' = 0 /\ disk' = disk
  <2>1. \A x \in Experiments : x # 0
    BY DEF Experiments
  <2> QED BY <2>1, WhatRestartDoes
<1>5. \A f : ~Concerned(f)'
  <2>1. ~\E i \in DOMAIN calls' : calls'[i].what = "run"
    <3>0. PICK c \in Calls : c = Call("folder", 0) /\ c.what # "run"
      <4>1. Call("folder", 0).what # "run"
        BY DEF Call
      <4> QED BY <4>1, CallsTyped
    <3>1. CASE calls' = <<Call("folder", 0)>>
      <4>1. DOMAIN <<c>> = {1} /\ <<c>>[1] = c
        OBVIOUS
      <4> QED BY <3>0, <3>1, <4>1
    <3>2. CASE \E p \in Experiments, r \in Records : calls' = <<Call("folder", 0)>> \o Install(p, r)
      <4>1. PICK p \in Experiments, r \in Records : calls' = <<c>> \o Install(p, r)
        BY <3>0, <3>2
      <4>2. PICK cs \in Seq(Calls) :
              /\ cs = Install(p, r) /\ Len(cs) = 3 /\ cs[1] = Call("bounded", r.bounded)
              /\ cs[2] = Call("attended", r.attended) /\ cs[3] = Call("folder", p)
        BY InstallTyped
      <4>3. cs[1].what # "run" /\ cs[2].what # "run" /\ cs[3].what # "run"
        BY <4>2 DEF Call
      <4>4. PICK one \in Seq(Calls) : one = <<c>> /\ Len(one) = 1 /\ one[1] = c
        <5>1. <<c>> \in Seq(Calls) /\ Len(<<c>>) = 1 /\ <<c>>[1] = c
          OBVIOUS
        <5> QED BY <5>1
      <4>5. /\ one \o cs \in Seq(Calls) /\ Len(one \o cs) = Len(one) + Len(cs)
            /\ \A i \in 1 .. Len(one) + Len(cs) :
                  (one \o cs)[i] = IF i <= Len(one) THEN one[i] ELSE cs[i - Len(one)]
        BY ConcatProperties
      <4>6. DOMAIN calls' = 1 .. 4 /\ \A i \in 1 .. 4 : calls'[i] = IF i <= 1 THEN one[i] ELSE cs[i - 1]
        <5>1. calls' = one \o cs
          BY <4>1, <4>2, <4>4
        <5>2. Len(one) + Len(cs) = 4
          BY <4>2, <4>4
        <5>3. DOMAIN (one \o cs) = 1 .. 4
          BY <4>5, <5>2, LenProperties
        <5>4. \A i \in 1 .. 4 : (one \o cs)[i] = IF i <= 1 THEN one[i] ELSE cs[i - 1]
          BY <4>4, <4>5, <5>2
        <5> QED BY <5>1, <5>3, <5>4
      <4>7. \A i \in 1 .. 4 : i = 1 \/ (~(i <= 1) /\ (i - 1 = 1 \/ i - 1 = 2 \/ i - 1 = 3))
        OBVIOUS
      <4>8. \A i \in 1 .. 4 : calls'[i] \in {one[1], cs[1], cs[2], cs[3]}
        BY <4>6, <4>7
      <4> QED BY <3>0, <4>3, <4>4, <4>6, <4>8
    <3>3. \/ calls' = <<Call("folder", 0)>>
          \/ \E p \in Experiments, r \in Records : calls' = <<Call("folder", 0)>> \o Install(p, r)
      BY WhatRestartDoes, ResumedTyped
    <3> QED BY <3>1, <3>2, <3>3
  <2>2. Flying' = {}
    BY <1>2 DEF Flying
  <2> QED BY <1>1, <2>1, <2>2 DEF Concerned
<1>6. OnlyTheirs'
  BY <1>5 DEF OnlyTheirs
<1>7. InOrder(history, news)'
  BY <1>1 DEF InOrder
<1>8. PointerIsCurrent'
  <2>1. CASE /\ pointer \in Experiments /\ pointer # 0
             /\ pointer' = pointer /\ current' = pointer /\ record' = Resumed(disk[pointer])
             /\ disk'[pointer] \in {disk[pointer], Resumed(disk[pointer])}
             /\ \A x \in Experiments \ {pointer} : disk'[x] = disk[x]
    <3>1. PICK c \in Experiments, old \in Records, r \in Records :
            c = pointer /\ old = disk[c] /\ r = Resumed(old) /\ r.made = old.made
      BY <2>1, PlainTypes, ResumedTyped, ResumedEntries
    <3>2. old.made /\ r.made
      BY <1>3, <2>1, <3>1
    <3>3. disk'[c] \in {old, r} /\ \A x \in Experiments \ {c} : disk'[x] = disk[x]
      BY <2>1, <3>1
    <3>4. \A e \in Experiments : ~disk'[e].made => disk'[e].runs = <<>>
      BY <1>3, <3>2, <3>3
    <3>5. disk'[c].made
      BY <3>2, <3>3
    <3>6. record' = r /\ pointer' = c /\ current' = c
      BY <2>1, <3>1
    <3> QED BY <3>2, <3>4, <3>5, <3>6 DEF PointerIsCurrent
  <2>2. CASE pointer' \in {pointer, 0} /\ current' = 0 /\ disk' = disk
    BY <1>3, <2>2 DEF PointerIsCurrent
  <2> QED BY <1>4, <2>1, <2>2
<1>9. BooksAreTrue'
  <2>1. ASSUME NEW e \in Experiments \ (LetGo \cup adrift)
        PROVE  TrueBook(Book(e)'.runs, e, history', <<>>, Book(e)'.open)
    <3>0. PICK old \in Records : old = disk[e]
      BY PlainTypes
    <3>1. Book(e) = old /\ TrueBook(old.runs, e, history, news, old.open)
      BY <3>0, BookOnDisk DEF Right, BooksAreTrue
    <3>2. CASE e = current'
      <4>1. Book(e)' = Resumed(old)
        <5>1. e # 0
          BY DEF Experiments
        <5> QED BY <1>4, <3>0, <3>2, <5>1 DEF Book
      <4>2. PICK next : next = Resumed(old).runs
        OBVIOUS
      <4>3. /\ DOMAIN next = DOMAIN old.runs
            /\ \A i \in DOMAIN old.runs :
                 /\ next[i].run = old.runs[i].run /\ next[i].number = old.runs[i].number
                 /\ next[i].owner = old.runs[i].owner
                 /\ next[i].status # "running"
                 /\ \/ next[i].status = old.runs[i].status
                    \/ old.runs[i].status = "running" /\ next[i].status = "failed"
            /\ Resumed(old).open = old.open
        BY <4>2, ResumedEntries
      <4>4. TrueBook(next, e, history', <<>>, old.open)
        BY <3>1, <4>3, HistoryAfterCrash, BookAfterCrash
      <4> QED BY <4>1, <4>2, <4>3, <4>4
    <3>3. CASE e # current'
      <4>1. Book(e)' = old
        BY <1>4, <3>0, <3>3 DEF Book
      <4>2. \A i \in DOMAIN old.runs : old.runs[i].status # "running" \/ ~old.open
        <5>1. ASSUME NEW i \in DOMAIN old.runs, old.runs[i].status = "running", old.open
              PROVE  FALSE
          <6>1. e = current
            BY <3>1, <5>1, UnfinishedIsLive
          <6>2. pointer = e
            <7>1. e # 0
              BY DEF Experiments
            <7> QED BY <1>3, <6>1, <7>1
          <6> QED BY <1>4, <3>0, <3>3, <5>1, <6>2
        <5> QED BY <5>1
      <4>3. TrueBook(old.runs, e, history', <<>>, old.open)
        BY <3>1, <4>2, HistoryAfterCrash, BookAfterCrash
      <4> QED BY <4>1, <4>3
    <3> QED BY <3>2, <3>3
  <2> QED BY <1>1, <2>1 DEF BooksAreTrue
<1>10. Headed'
  BY <1>1 DEF Headed
<1> QED BY <1>6, <1>7, <1>8, <1>9, <1>10 DEF Right
-----------------------------------------------------------------------------
LEMMA RightAtFirst == Init => Right
<1> SUFFICES ASSUME Init  PROVE Right
  OBVIOUS
<1>1. /\ pointer = 0 /\ current = 0 /\ calls = <<>> /\ news = <<>> /\ history = <<>> /\ apart = {}
      /\ \A e \in Experiments : disk[e].runs = <<>>
  <2>1. disk = [e \in Experiments |-> [NoRecord EXCEPT !.made = e \in MovedIn, !.open = e \in MovedIn]]
    BY DEF Init
  <2>2. \A b : [NoRecord EXCEPT !.made = b, !.open = b].runs = <<>>
    BY DEF NoRecord
  <2> QED BY <2>1, <2>2 DEF Init
<1>2. DOMAIN calls = {} /\ DOMAIN news = {} /\ DOMAIN history = {}
  BY <1>1
<1>3. PointerIsCurrent
  BY <1>1 DEF PointerIsCurrent
<1>4. OnlyTheirs
  BY <1>2 DEF OnlyTheirs, Concerned, Flying
<1>5. InOrder(history, news)
  BY <1>2 DEF InOrder
<1>6. BooksAreTrue
  <2>1. ASSUME NEW e \in Experiments  PROVE TrueBook(Book(e).runs, e, history, news, Book(e).open)
    <3>1. Book(e).runs = <<>>
      <4>1. e # 0
        BY DEF Experiments
      <4> QED BY <1>1, <4>1 DEF Book
    <3>2. DOMAIN Book(e).runs = {}
      BY <3>1
    <3> QED BY <1>2, <3>2 DEF TrueBook, Distinct, Complete
  <2> QED BY <2>1 DEF BooksAreTrue
<1>7. Headed
  BY <1>1 DEF Headed
<1> QED BY <1>3, <1>4, <1>5, <1>6, <1>7 DEF Right

LEMMA RightAfterAStep == Ind /\ Followed /\ Right /\ [Next]_vars => Right'
<1> SUFFICES ASSUME Ind, Followed, Right, [Next]_vars  PROVE Right'
  OBVIOUS
<1>1. CASE UNCHANGED vars
  BY <1>1 DEF vars, Right, PointerIsCurrent, OnlyTheirs, Headed, Concerned, Flying, BooksAreTrue, Book
<1>2. ASSUME NEW p \in Asked, StartExperiment(p.attended, p.bounded)  PROVE Right'
  <2>1. p.attended \in BOOLEAN /\ p.bounded \in BOOLEAN
    OBVIOUS
  <2> QED BY <1>2, <2>1, StartExperimentIsRight
<1> QED BY <1>1, <1>2, CloseExperimentIsRight, SwitchExperimentIsRight, SetExperimentEnvelopeIsRight,
           SetAttendedIsRight, RequestRunIsRight, TakeCallIsRight, PolicyByFileIsRight, EndRunIsRight,
           HearIsRight, RestartIsRight DEF Next

LEMMA RightMeans == Right => RecordsTellTheTruth
<1> SUFFICES ASSUME Right, NEW e \in Experiments \ adrift
             PROVE  /\ \A i \in DOMAIN Book(e).runs : TellsTheTruth(Book(e).runs[i], Book(e))
                    /\ \A r \in DOMAIN history :
                          \/ history[r].folder # e \/ history[r].fate \in {"never started", "lost"}
                          \/ "started" \in Awaited(r)
                          \/ \E i \in DOMAIN Book(e).runs : Book(e).runs[i].run = r
  BY DEF RecordsTellTheTruth
<1>1. \A r, k : Coming(news, r, k) => k \in Awaited(r)
  BY DEF Coming, Awaited
<1>2. TrueBook(Book(e).runs, e, history, news, Book(e).open)
  BY DEF Right, BooksAreTrue
<1>3. \A i \in DOMAIN Book(e).runs : TellsTheTruth(Book(e).runs[i], Book(e))
  BY <1>1, <1>2 DEF TrueBook, TrueEntry, TellsTheTruth
<1>4. \A r \in DOMAIN history :
         \/ history[r].folder # e \/ history[r].fate \in {"never started", "lost"}
         \/ "started" \in Awaited(r)
         \/ \E i \in DOMAIN Book(e).runs : Book(e).runs[i].run = r
  BY <1>1, <1>2 DEF TrueBook, Complete
<1> QED BY <1>3, <1>4

\* Every run that started is recorded in the experiment that owns its file, with its
\* own owner and its own ending, through crashes, failed writes and late news: but for
\* experiments whose record was let go while its file was behind, or whose news went
\* to another record (_on_run_started, _on_engine_event, _on_run_finished, the resume).
THEOREM RecordsAreTrue == Spec => []RecordsTellTheTruth
<1>1. Init => Ind /\ Followed /\ Right
  BY InitHolds, FollowedAtFirst, RightAtFirst
<1>2. Ind /\ Followed /\ Right /\ [Next]_vars => (Ind /\ Followed /\ Right)'
  BY StepHolds, FollowedAfterAStep, RightAfterAStep
<1> QED BY <1>1, <1>2, RightMeans, PTL DEF Spec
=============================================================================
