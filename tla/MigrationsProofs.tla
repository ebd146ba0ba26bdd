---------------------------- MODULE MigrationsProofs ----------------------------
(* Theorems about Migrations, for every value of its constants. *)
EXTENDS Migrations, SequenceTheorems, FiniteSetTheorems, NaturalsInduction, TLAPS

\* Every non-empty set of naturals has a least member.
LEMMA LeastOf ==
  ASSUME NEW S \in SUBSET Nat, S # {}
  PROVE  \E m \in S : \A n \in S : m <= n
<1>1. IsWellFoundedOn(OpToRel(<, Nat), Nat)
  BY NatLessThanWellFounded, Zenon
<1>2. PICK m \in S : \A n \in S : ~(<<n, m>> \in OpToRel(<, Nat))
  BY <1>1, WFMin, Zenon
<1>3. \A n \in S : ~(n < m)
  BY <1>2, Zenon DEF OpToRel
<1> QED
  BY <1>3

Sorted(s) == \A i, j \in DOMAIN s : i < j => s[i] < s[j]
Listings(D) == {s \in [1 .. Cardinality(D) -> D] : Sorted(s)}

\* A finite set of filenames can be listed in order.
LEMMA CanBeListed ==
  ASSUME NEW D \in SUBSET Nat, IsFiniteSet(D)
  PROVE  Listings(D) # {}
<1> DEFINE Unlisted == {n \in Nat : \E E \in SUBSET D : Cardinality(E) = n /\ Listings(E) = {}}
<1>1. SUFFICES ASSUME Unlisted # {} PROVE FALSE
  <2>1. Cardinality(D) \in Nat
    BY FS_CardinalityType
  <2> QED
    BY <2>1
<1>2. PICK n \in Unlisted : \A m \in Unlisted : n <= m
  BY <1>1, LeastOf
<1>3. PICK E \in SUBSET D : Cardinality(E) = n /\ Listings(E) = {}
  BY <1>2
<1>4. IsFiniteSet(E) /\ E \subseteq Nat
  BY FS_Subset
<1>5. CASE E = {}
  <2>1. 1 .. Cardinality(E) = {}
    BY <1>5, FS_EmptySet
  <2>2. [i \in {} |-> i] \in Listings(E)
    BY <2>1 DEF Listings, Sorted
  <2> QED
    BY <1>3, <2>2
<1>6. CASE E # {}
  <2>1. PICK m \in E : \A e \in E : m <= e
    BY <1>4, <1>6, LeastOf
  <2>2. Cardinality(E \ {m}) = n - 1 /\ n \in Nat \ {0}
    BY <1>3, <1>4, <1>6, FS_RemoveElement, FS_EmptySet
  <2>3. Listings(E \ {m}) # {}
    BY <1>2, <2>2
  <2>4. PICK t \in [1 .. n - 1 -> E \ {m}] : Sorted(t)
    BY <2>2, <2>3 DEF Listings
  <2> DEFINE s == [i \in 1 .. n |-> IF i = 1 THEN m ELSE t[i - 1]]
  <2>5. s \in [1 .. n -> E]
    BY <2>2, <2>4
  <2>6. ASSUME NEW i \in 1 .. n, NEW j \in 1 .. n, i < j PROVE s[i] < s[j]
    <3>1. j - 1 \in 1 .. n - 1 /\ t[j - 1] \in E \ {m}
      BY <2>2, <2>4, <2>6
    <3>2. CASE i = 1
      <4>1. s[i] = m /\ s[j] = t[j - 1]
        BY <2>2, <2>6, <3>2
      <4>2. m \in Nat /\ t[j - 1] \in Nat /\ m <= t[j - 1] /\ m # t[j - 1]
        BY <1>4, <2>1, <3>1
      <4> QED
        BY <4>1, <4>2
    <3>3. CASE i # 1
      <4>1. i - 1 \in 1 .. n - 1 /\ i - 1 < j - 1
        BY <2>2, <2>6, <3>3
      <4>2. DOMAIN t = 1 .. n - 1
        BY <2>4
      <4>3. t[i - 1] < t[j - 1]
        BY <2>4, <3>1, <4>1, <4>2 DEF Sorted
      <4>4. s[i] = t[i - 1] /\ s[j] = t[j - 1]
        BY <2>2, <2>6, <3>3
      <4> QED
        BY <4>3, <4>4
    <3> QED
      BY <3>2, <3>3
  <2>7. Sorted(s)
    BY <2>5, <2>6 DEF Sorted
  <2> QED
    BY <1>3, <2>5, <2>7 DEF Listings
<1> QED
  BY <1>5, <1>6

Members(s) == {s[i] : i \in DOMAIN s}

\* discover lists every file of the directory once, in order.
LEMMA DiscoverLists ==
  ASSUME NEW directory \in Checkouts
  PROVE  /\ Discover(directory) \in Seq(Names) /\ Sorted(Discover(directory))
         /\ Members(Discover(directory)) = DOMAIN directory
         /\ DOMAIN directory \subseteq Names
<1> DEFINE D == DOMAIN directory
<1>1. D \subseteq Names /\ D \in SUBSET Nat /\ IsFiniteSet(D)
  <2>1. D \subseteq Names
    BY MigrationsConstants
  <2> QED
    BY <2>1, MigrationsConstants, FS_Subset
<1> DEFINE n == Cardinality(D)
<1>2. n \in Nat
  BY <1>1, FS_CardinalityType
<1>3. Discover(directory) \in Listings(D)
  <2>1. \E s \in [1 .. n -> D] : Sorted(s)
    BY <1>1, CanBeListed DEF Listings
  <2> QED
    BY <2>1 DEF Listings, Sorted, Discover
<1> DEFINE s == Discover(directory)
<1>4. s \in [1 .. n -> D] /\ Sorted(s)
  BY <1>3 DEF Listings
<1> HIDE DEF s
<1>5. s \in Seq(Names)
  BY <1>1, <1>2, <1>4
<1>6. Members(s) = D
  <2>1. \A i, j \in 1 .. n : s[i] = s[j] => i = j
    <3>1. SUFFICES ASSUME NEW i \in 1 .. n, NEW j \in 1 .. n, s[i] = s[j], i # j PROVE FALSE
      OBVIOUS
    <3>2. s[i] \in Nat /\ s[j] \in Nat
      BY <1>1, <1>4
    <3>3. i < j \/ j < i
      BY <1>2, <3>1
    <3> QED
      BY <1>4, <3>1, <3>2, <3>3 DEF Sorted
  <2>2. s \in Injection(1 .. n, D)
    BY <1>4, <2>1 DEF Injection, IsInjective
  <2>3. Cardinality(1 .. n) = n
    BY <1>2, FS_Interval
  <2>4. s \in Surjection(1 .. n, D)
    BY <1>1, <2>2, <2>3, FS_Injection
  <2> QED
    BY <1>4, <2>4 DEF Surjection, Members
<1> QED
  BY <1>1, <1>4, <1>5, <1>6 DEF s

\* What NextFile leaves of a sorted listing.
LEMMA TailOfSorted ==
  ASSUME NEW s \in Seq(Names), s # <<>>, Sorted(s)
  PROVE  /\ Head(s) \in Names /\ Tail(s) \in Seq(Names) /\ Sorted(Tail(s))
         /\ Members(s) = {Head(s)} \cup Members(Tail(s))
         /\ \A n \in Members(Tail(s)) : Head(s) < n
<1>1. /\ Head(s) \in Names /\ Tail(s) \in Seq(Names) /\ Len(Tail(s)) = Len(s) - 1
      /\ \A i \in 1 .. Len(Tail(s)) : Tail(s)[i] = s[i + 1]
  BY HeadTailProperties
<1>2. Len(s) \in Nat \ {0} /\ DOMAIN s = 1 .. Len(s) /\ Head(s) = s[1]
  BY EmptySeq, LenProperties
<1>3. DOMAIN Tail(s) = 1 .. Len(s) - 1
  BY <1>1, LenProperties
<1>4. ASSUME NEW i \in DOMAIN s, i # 1 PROVE i - 1 \in DOMAIN Tail(s) /\ Tail(s)[i - 1] = s[i]
  BY <1>1, <1>2, <1>3, <1>4
<1>5. ASSUME NEW i \in DOMAIN Tail(s) PROVE i + 1 \in DOMAIN s /\ Tail(s)[i] = s[i + 1]
  BY <1>1, <1>2, <1>3
<1>6. Members(s) = {Head(s)} \cup Members(Tail(s))
  <2>1. 1 \in DOMAIN s /\ s[1] = Head(s)
    BY <1>2
  <2>2. \A i \in DOMAIN s : i = 1 \/ s[i] \in Members(Tail(s))
    BY <1>4 DEF Members
  <2>3. \A i \in DOMAIN Tail(s) : Tail(s)[i] \in Members(s)
    BY <1>5 DEF Members
  <2>4. Members(s) \subseteq {Head(s)} \cup Members(Tail(s))
    BY <2>1, <2>2 DEF Members
  <2>5. Head(s) \in Members(s)
    BY <2>1 DEF Members
  <2>6. Members(Tail(s)) \subseteq Members(s)
    BY <2>3 DEF Members
  <2> QED
    BY <2>4, <2>5, <2>6
<1>7. \A n \in Members(Tail(s)) : Head(s) < n
  <2>1. SUFFICES ASSUME NEW i \in DOMAIN Tail(s) PROVE Head(s) < Tail(s)[i]
    BY DEF Members
  <2>2. i + 1 \in DOMAIN s /\ 1 \in DOMAIN s /\ 1 < i + 1
    BY <1>2, <1>3, <1>5
  <2> QED
    BY <1>2, <1>5, <2>2 DEF Sorted
<1>8. Sorted(Tail(s))
  <2>1. SUFFICES ASSUME NEW i \in DOMAIN Tail(s), NEW j \in DOMAIN Tail(s), i < j
                 PROVE  Tail(s)[i] < Tail(s)[j]
    BY DEF Sorted
  <2>2. i + 1 < j + 1
    BY <1>2, <1>3, <2>1
  <2> QED
    BY <1>5, <2>2 DEF Sorted
<1> QED
  BY <1>1, <1>6, <1>7, <1>8

\* The names of a sequence of effects.
NamesIn(s) == {s[i].name : i \in DOMAIN s}

\* An effect of a later name keeps a run's effects in ascending order.
LEMMA AppendAscending ==
  ASSUME NEW s \in Seq(Effect), NEW e \in Effect, Ascending(s), \A n \in NamesIn(s) : n < e.name
  PROVE  /\ Append(s, e) \in Seq(Effect) /\ Ascending(Append(s, e))
         /\ Members(Append(s, e)) = Members(s) \cup {e}
         /\ NamesIn(Append(s, e)) = NamesIn(s) \cup {e.name}
<1> DEFINE t == Append(s, e)
<1>1. /\ t \in Seq(Effect) /\ Len(t) = Len(s) + 1 /\ t[Len(s) + 1] = e
      /\ \A i \in 1 .. Len(s) : t[i] = s[i]
  BY AppendProperties
<1>2. Len(s) \in Nat /\ DOMAIN s = 1 .. Len(s) /\ DOMAIN t = 1 .. Len(s) + 1
  BY <1>1, LenProperties
<1> HIDE DEF t
<1>3. Members(t) = Members(s) \cup {e} /\ NamesIn(t) = NamesIn(s) \cup {e.name}
  BY <1>1, <1>2 DEF Members, NamesIn
<1>4. Ascending(t)
  <2>1. SUFFICES ASSUME NEW i \in 1 .. Len(s) + 1, NEW j \in 1 .. Len(s) + 1, i < j
                 PROVE  t[i].name < t[j].name
    BY <1>2 DEF Ascending
  <2>2. i \in 1 .. Len(s) /\ t[i] = s[i]
    BY <1>1, <1>2, <2>1
  <2>3. CASE j = Len(s) + 1
    BY <1>1, <1>2, <2>2, <2>3 DEF NamesIn
  <2>4. CASE j # Len(s) + 1
    <3>1. j \in 1 .. Len(s) /\ t[j] = s[j]
      BY <1>1, <1>2, <2>4
    <3> QED
      BY <1>2, <2>1, <2>2, <3>1 DEF Ascending
  <2> QED
    BY <2>3, <2>4
<1> QED
  BY <1>1, <1>3, <1>4 DEF t

--------------------------------------------------------------------------------
(* The inductive invariant *)

AtWork(r) == pc[r] \in {"file", "execute", "record"}
Left(r) == Members(todo[r])
Clashes(r, n) == tracking[n] \notin {None, dir[r][n].text}

\* A runner between reading the rows and its end: what it has done is the files
\* it had not found applied among those it has passed, in order and as they are
\* in its directory; the rows it read still stand; and nobody has committed a
\* row it has inserted.
Working(r) ==
  /\ already[r] \in Rows
  /\ table \/ creates[r]
  /\ Sorted(todo[r]) /\ Left(r) \subseteq DOMAIN dir[r]
  /\ Ascending(did[r])
  /\ \A i \in DOMAIN did[r] :
       did[r][i].name \in DOMAIN dir[r] /\ did[r][i].text = dir[r][did[r][i].name].text
  /\ \A m \in Recorded(r), n \in Left(r) : m < n
  /\ AppliedBy(r) = Recorded(r) \cup {n \in Left(r) : already[r][n] = None}
  /\ \A n \in DOMAIN dir[r] \ Left(r) : already[r][n] \in {None, dir[r][n].text}
  /\ \A n \in Names : already[r][n] # None => tracking[n] = already[r][n]
  /\ \A n \in Recorded(r) : tracking[n] = None
  /\ pc[r] # "file" => todo[r] # <<>> /\ already[r][Current(r)] = None
  /\ pc[r] = "record" => Current(r) \in Executed(r)

\* A runner's place and what it holds.
RunnerInv(r) ==
  /\ pc[r] # "idle" => dir[r] \in Checkouts
  /\ pc[r] = "applied" => table \/ creates[r]
  /\ pc[r] \in {"tracking", "creating"} => ~creates[r]
  /\ pc[r] \in {"idle", "tracking", "creating", "applied"} => already[r] = None
  /\ AtWork(r) => Working(r)
  /\ ~AtWork(r) => did[r] = <<>>

\* What is still true of a runner that has ended, told by the rows.
Outcome(r) ==
  /\ pc[r] = "done" => \A n \in DOMAIN dir[r] : tracking[n] = dir[r][n].text
  /\ pc[r] = "refused_changed" => \E n \in DOMAIN dir[r] : Clashes(r, n)
  /\ pc[r] = "duplicate" => Overtaken(r)
  /\ pc[r] = "undefined" => Incomplete(dir[r])
  /\ pc[r] = "deadlock" => ~InStep

Apart == \A q, r \in Runners : q # r => Recorded(q) \cap Recorded(r) = {}
\* An uncommitted object is one runner's, and not there yet.
MadeApart == \A q, r \in Runners : q # r => Made(q) \cap Made(r) = {}
Fresh == \A r \in Runners : Made(r) \cap There = {}
\* What was applied was a file of some checkout.
EffectsHaveFiles ==
  \A i \in DOMAIN effects : \E d \in Checkouts :
    effects[i].name \in DOMAIN d /\ effects[i].text = d[effects[i].name].text
TableHasItsRunner == table => \E q \in Runners : pc[q] = "done"

MigInv ==
  /\ TypeOK /\ EffectsMatchTracking
  /\ Apart /\ MadeApart /\ Fresh /\ EffectsHaveFiles /\ TableHasItsRunner
  /\ \A r \in Runners : RunnerInv(r) /\ Outcome(r)

\* The empty database with no runner started satisfies the invariant.
LEMMA InitInv == Init => MigInv
<1> SUFFICES ASSUME Init PROVE MigInv
  OBVIOUS
<1>1. TypeOK
  <2>1. tracking \in Rows
    BY DEF Init, Rows
  <2>2. effects \in Seq(Effect) /\ did \in [Runners -> Seq(Effect)]
    BY EmptySeq DEF Init
  <2>3. todo \in [Runners -> Seq(Names)]
    BY EmptySeq DEF Init
  <2> QED
    BY <2>1, <2>2, <2>3 DEF Init, TypeOK, Open
<1>2. EffectsMatchTracking
  BY MigrationsConstants DEF Init, EffectsMatchTracking, Applied
<1>3. Apart
  BY DEF Init, Apart, Recorded, Executed
<1>4. \A r \in Runners : RunnerInv(r) /\ Outcome(r)
  BY DEF Init, RunnerInv, Outcome, AtWork
<1>5. \A r \in Runners : did[r] = <<>> /\ at[r] = 0
  BY DEF Init
<1>6. \A r \in Runners : Made(r) = {}
  BY <1>5 DEF Made, Ran
<1>7. MadeApart /\ Fresh /\ EffectsHaveFiles
  BY <1>6 DEF Init, MadeApart, Fresh, EffectsHaveFiles
<1> QED
  BY <1>1, <1>2, <1>3, <1>4, <1>7 DEF Init, MigInv, TableHasItsRunner

--------------------------------------------------------------------------------
(* Steps of one runner that leave the database alone *)

\* Nothing of runner q moves.
Kept(q) ==
  /\ pc'[q] = pc[q] /\ dir'[q] = dir[q] /\ already'[q] = already[q]
  /\ todo'[q] = todo[q] /\ at'[q] = at[q] /\ did'[q] = did[q] /\ creates'[q] = creates[q]
MovesAlone(r) ==
  /\ pc[r] \notin Ended /\ pc'[r] # "idle" /\ (pc[r] # "idle" => dir'[r] = dir[r])
  /\ UNCHANGED db
  /\ \A q \in Runners \ {r} : Kept(q)

\* What a runner has executed, recorded and made depends on nobody else.
LEMMA KeptRecorded ==
  ASSUME NEW q \in Runners, Kept(q)
  PROVE  Executed(q)' = Executed(q) /\ Recorded(q)' = Recorded(q) /\ Made(q)' = Made(q)
<1>1. Executed(q)' = Executed(q) /\ Recorded(q)' = Recorded(q)
  BY DEF Kept, Executed, Recorded
<1>2. FileOf(q)' = FileOf(q)
  BY DEF Kept, FileOf, Current
<1>3. Ran(q)' = Ran(q)
  BY <1>2 DEF Kept, Ran
<1> QED
  BY <1>1, <1>3 DEF Made

\* What a runner has executed, file by file and statement by statement.
LEMMA RanHas ==
  ASSUME NEW r \in Runners
  PROVE  /\ \A i \in DOMAIN did[r] : StatementsOf(did[r][i].text) \subseteq Ran(r)
         /\ \A i \in 1 .. at[r] : Script[FileOf(r).text][i] \in Ran(r)
         /\ \A s \in Ran(r) : \/ \E i \in DOMAIN did[r] : s \in StatementsOf(did[r][i].text)
                             \/ \E i \in 1 .. at[r] : s = Script[FileOf(r).text][i]
<1> DEFINE Behind == UNION {StatementsOf(did[r][i].text) : i \in DOMAIN did[r]}
           Here == {Script[FileOf(r).text][i] : i \in 1 .. at[r]}
<1>1. Ran(r) = Behind \cup Here
  BY Zenon DEF Ran
<1>2. \A s : s \in Behind <=> \E i \in DOMAIN did[r] : s \in StatementsOf(did[r][i].text)
  OBVIOUS
<1>3. \A s : s \in Here <=> \E i \in 1 .. at[r] : s = Script[FileOf(r).text][i]
  OBVIOUS
<1> HIDE DEF Behind, Here
<1> QED
  BY <1>1, <1>2, <1>3

\* A runner that stands at its beginning, or has rolled back, has made nothing.
LEMMA NothingMade ==
  ASSUME NEW r \in Runners
  PROVE  /\ did[r] = <<>> /\ at[r] = 0 => Made(r) = {}
         /\ did'[r] = <<>> /\ at'[r] = 0 => Made(r)' = {}
BY DEF Made, Ran

\* A runner whose files are the same and that is inside none has made the same.
LEMMA SameMade ==
  ASSUME NEW r \in Runners, did'[r] = did[r], at[r] = 0, at'[r] = 0
  PROVE  Made(r)' = Made(r)
<1>1. 1 .. 0 = {}
  OBVIOUS
<1>2. Ran(r)' = Ran(r)
  BY <1>1 DEF Ran
<1> QED
  BY <1>2 DEF Made

\* Histories differ for good: a started runner keeps its directory.
LEMMA StaysOutOfStep ==
  ASSUME ~InStep, \A r \in Runners : pc[r] # "idle" => pc'[r] # "idle" /\ dir'[r] = dir[r]
  PROVE  ~InStep'
<1>1. SUFFICES ASSUME InStep' PROVE InStep
  OBVIOUS
<1>2. {p \in Runners : pc[p] # "idle"} \subseteq {p \in Runners : pc'[p] # "idle"}
  OBVIOUS
<1>3. \A p \in {q \in Runners : pc[q] # "idle"} : dir'[p] = dir[p]
  OBVIOUS
<1> QED
  BY <1>1, <1>2, <1>3 DEF InStep

\* A step of one runner that leaves the database alone preserves the invariant
\* of every other runner.
LEMMA OthersKeep ==
  ASSUME MigInv, NEW r \in Runners, MovesAlone(r), NEW q \in Runners \ {r}
  PROVE  RunnerInv(q)' /\ Outcome(q)'
<1>1. Kept(q) /\ RunnerInv(q) /\ Outcome(q) /\ UNCHANGED <<table, tracking>>
  BY DEF MigInv, MovesAlone, db
<1>2. Recorded(q)' = Recorded(q) /\ Executed(q)' = Executed(q)
  BY <1>1, KeptRecorded
<1>3. Left(q)' = Left(q) /\ AppliedBy(q)' = AppliedBy(q) /\ Current(q)' = Current(q)
  BY <1>1 DEF Kept, Left, AppliedBy, Members, Current
<1>4. AtWork(q)' = AtWork(q)
  BY <1>1 DEF Kept, AtWork
<1>5. Working(q) => Working(q)'
  BY <1>1, <1>2, <1>3 DEF Kept, Working, Sorted, Ascending
<1>6. RunnerInv(q)'
  BY <1>1, <1>4, <1>5 DEF RunnerInv, Kept
<1>7. \A p \in Runners : pc[p] = "done" => pc'[p] = "done"
  BY DEF MovesAlone, Kept, Ended
<1>8. pc[q] = "duplicate" => Overtaken(q)'
  BY <1>1, <1>7 DEF Outcome, Kept, Overtaken
<1>9. pc[q] = "undefined" => Incomplete(dir[q])'
  BY <1>1 DEF Outcome, Kept, Incomplete
<1>10. pc[q] = "deadlock" => ~InStep'
  <2>1. \A p \in Runners : pc[p] # "idle" => pc'[p] # "idle" /\ dir'[p] = dir[p]
    BY DEF MovesAlone, Kept
  <2> QED
    BY <1>1, <2>1, StaysOutOfStep DEF Outcome
<1>11. Outcome(q)'
  BY <1>1, <1>8, <1>9, <1>10 DEF Outcome, Kept, Clashes
<1> QED
  BY <1>6, <1>11

\* So such a step preserves the whole invariant when it does for its own runner.
LEMMA OwnStep ==
  ASSUME MigInv, NEW r \in Runners, MovesAlone(r), TypeOK', RunnerInv(r)', Outcome(r)',
         \A q \in Runners \ {r} : /\ Recorded(r)' \cap Recorded(q) = {}
                                 /\ Made(r)' \cap Made(q) = {},
         Made(r)' \cap There = {}
  PROVE  MigInv'
<1>1. EffectsMatchTracking' /\ EffectsHaveFiles' /\ There' = There
  BY DEF MigInv, MovesAlone, db, EffectsMatchTracking, Applied, EffectsHaveFiles, There
<1>2. TableHasItsRunner'
  BY DEF MigInv, MovesAlone, db, TableHasItsRunner, Kept, Ended
<1>3. \A q \in Runners \ {r} : Recorded(q)' = Recorded(q) /\ Made(q)' = Made(q)
  BY KeptRecorded DEF MovesAlone
<1>4. Apart' /\ MadeApart' /\ Fresh'
  BY <1>1, <1>3 DEF MigInv, Apart, MadeApart, Fresh
<1>5. \A q \in Runners : RunnerInv(q)' /\ Outcome(q)'
  BY OthersKeep
<1> QED
  BY <1>1, <1>2, <1>4, <1>5 DEF MigInv

\* One that makes nothing, whatever it gives back.
LEMMA OwnStepMakingNothing ==
  ASSUME MigInv, NEW r \in Runners, MovesAlone(r), TypeOK', RunnerInv(r)', Outcome(r)',
         \A q \in Runners \ {r} : Recorded(r)' \cap Recorded(q) = {},
         Made(r)' \subseteq Made(r)
  PROVE  MigInv'
<1>1. \A q \in Runners \ {r} : Made(r)' \cap Made(q) = {}
  BY DEF MigInv, MadeApart
<1>2. Made(r)' \cap There = {}
  BY DEF MigInv, Fresh
<1> QED
  BY <1>1, <1>2, OwnStep

\* A runner that ends without committing.
LEMMA EndStep ==
  ASSUME MigInv, NEW r \in Runners, NEW label \in Ended \ {"done"}, pc[r] \notin Ended,
         End(r, label),
         label = "refused_changed" => \E n \in DOMAIN dir[r] : Clashes(r, n),
         label = "duplicate" => Overtaken(r),
         label = "undefined" => Incomplete(dir[r]),
         label = "deadlock" => ~InStep,
         pc[r] # "idle"
  PROVE  MigInv'
<1>1. TypeOK /\ RunnerInv(r)
  BY DEF MigInv
<1>2. /\ pc'[r] = label /\ did'[r] = <<>> /\ at'[r] = 0 /\ creates'[r] = FALSE
      /\ dir'[r] = dir[r] /\ already'[r] = already[r] /\ tracking' = tracking
      /\ MovesAlone(r)
  BY <1>1 DEF TypeOK, End, Goto, MovesAlone, Kept, db, Ended
<1>3. TypeOK'
  BY <1>1, <1>2 DEF TypeOK, End, Goto, Open, Ended, db, FileOf, Current
<1>4. RunnerInv(r)'
  BY <1>1, <1>2 DEF RunnerInv, AtWork, Ended
<1>5. Outcome(r)'
  <2>1. label = "duplicate" => Overtaken(r)'
    BY <1>2 DEF Overtaken, MovesAlone, Kept
  <2>2. label = "undefined" => Incomplete(dir[r])'
    BY <1>2 DEF Incomplete
  <2>3. label = "deadlock" => ~InStep'
    <3>1. \A p \in Runners : pc[p] # "idle" => pc'[p] # "idle" /\ dir'[p] = dir[p]
      BY <1>2 DEF MovesAlone, Kept
    <3> QED
      BY <3>1, StaysOutOfStep
  <2> QED
    BY <1>2, <2>1, <2>2, <2>3 DEF Outcome, Clashes, Ended
<1>6. Recorded(r)' = {} /\ Made(r)' = {}
  BY <1>2, NothingMade DEF Recorded, Executed
<1> QED
  BY <1>2, <1>3, <1>4, <1>5, <1>6, OwnStepMakingNothing

--------------------------------------------------------------------------------
(* One lemma per action that leaves the database alone *)

\* A process that starts has executed nothing.
LEMMA StartKeeps ==
  ASSUME MigInv, NEW r \in Runners, NEW directory \in Checkouts, Start(r, directory)
  PROVE  MigInv'
<1>1. TypeOK /\ RunnerInv(r) /\ pc[r] = "idle" /\ already' = already
  BY DEF MigInv, Start
<1>2. did[r] = <<>> /\ at[r] = 0 /\ ~creates[r]
  BY <1>1 DEF TypeOK, Open
<1>3. /\ pc'[r] = "tracking" /\ dir'[r] = directory /\ did'[r] = <<>> /\ at'[r] = 0
      /\ ~creates'[r] /\ MovesAlone(r)
  BY <1>1, <1>2 DEF TypeOK, Start, Goto, MovesAlone, Kept, Ended
<1>4. TypeOK'
  BY <1>1, <1>2 DEF TypeOK, Start, Goto, Open, db, FileOf, Current
<1>5. RunnerInv(r)' /\ Outcome(r)' /\ Recorded(r)' = {} /\ Made(r)' = {}
  BY <1>1, <1>3, NothingMade DEF RunnerInv, Outcome, AtWork, Recorded, Executed
<1> QED
  BY <1>3, <1>4, <1>5, OwnStepMakingNothing

\* Who finds the table goes on to read its rows.
LEMMA LookForTableKeeps ==
  ASSUME MigInv, NEW r \in Runners, LookForTable(r)
  PROVE  MigInv'
<1>1. TypeOK /\ RunnerInv(r) /\ pc[r] = "tracking"
  BY DEF MigInv, LookForTable
<1>2. did[r] = <<>> /\ at[r] = 0 /\ dir[r] \in Checkouts /\ ~creates[r]
  BY <1>1 DEF RunnerInv, AtWork, TypeOK
<1>3. /\ pc'[r] = (IF table THEN "applied" ELSE "creating") /\ dir' = dir /\ did' = did
      /\ at' = at /\ already' = already /\ UNCHANGED <<table, creates>> /\ MovesAlone(r)
  BY <1>1 DEF TypeOK, LookForTable, Goto, MovesAlone, Kept, Ended, db
<1>4. TypeOK'
  BY <1>1 DEF TypeOK, LookForTable, Goto, Open, Ended, db, FileOf, Current
<1>5. RunnerInv(r)' /\ Outcome(r)' /\ Recorded(r)' = {} /\ Made(r)' = {}
  BY <1>1, <1>2, <1>3, NothingMade DEF RunnerInv, Outcome, AtWork, Recorded, Executed
<1> QED
  BY <1>3, <1>4, <1>5, OwnStepMakingNothing

\* Who finds the table made in the meantime raises, and a runner that is done
\* made it.
LEMMA CreateTableKeeps ==
  ASSUME MigInv, NEW r \in Runners, CreateTable(r)
  PROVE  MigInv'
<1>1. TypeOK /\ RunnerInv(r) /\ pc[r] = "creating"
  BY DEF MigInv, CreateTable
<1>2. did[r] = <<>> /\ at[r] = 0 /\ dir[r] \in Checkouts /\ already[r] = None
  BY <1>1 DEF RunnerInv, AtWork, TypeOK
<1>3. CASE table
  <2>1. \E q \in Runners \ {r} : pc[q] = "done"
    BY <1>1, <1>3 DEF MigInv, TableHasItsRunner
  <2>2. Overtaken(r)
    BY <1>2, <2>1 DEF Overtaken
  <2>3. End(r, "duplicate")
    BY <1>3 DEF CreateTable
  <2> QED
    BY <1>1, <2>2, <2>3, EndStep DEF Ended
<1>4. CASE ~table
  <2>1. /\ pc' = [pc EXCEPT ![r] = "applied"] /\ creates' = [creates EXCEPT ![r] = TRUE]
        /\ UNCHANGED <<db, dir, already, todo, at, did>>
    BY <1>4 DEF CreateTable, Goto
  <2>2. \A q \in Runners \ {r} : ~creates[q]
    BY <1>1 DEF CreateTable, Waits, WaitsFor
  <2>3. /\ pc'[r] = "applied" /\ creates'[r] /\ dir' = dir /\ did' = did /\ at' = at
        /\ MovesAlone(r)
    BY <1>1, <2>1 DEF TypeOK, MovesAlone, Kept, Ended
  <2>4. TypeOK'
    BY <1>1, <1>4, <2>1, <2>2 DEF TypeOK, Open, Ended, db, FileOf, Current
  <2>5. RunnerInv(r)' /\ Outcome(r)' /\ Recorded(r)' = {} /\ Made(r)' = {}
    BY <1>2, <2>1, <2>3, NothingMade DEF RunnerInv, Outcome, AtWork, Recorded, Executed
  <2> QED
    BY <2>3, <2>4, <2>5, OwnStepMakingNothing
<1> QED
  BY <1>3, <1>4

\* Before its first file a runner has everything of its directory to look at.
LEMMA ReadAppliedKeeps ==
  ASSUME MigInv, NEW r \in Runners, ReadApplied(r)
  PROVE  MigInv'
<1>1. TypeOK /\ RunnerInv(r) /\ pc[r] = "applied"
  BY DEF MigInv, ReadApplied
<1>2. did[r] = <<>> /\ dir[r] \in Checkouts /\ (table \/ creates[r])
  BY <1>1 DEF RunnerInv, AtWork
<1> DEFINE listed == Discover(dir[r])
<1>3. /\ listed \in Seq(Names) /\ Sorted(listed) /\ Members(listed) = DOMAIN dir[r]
      /\ DOMAIN dir[r] \subseteq Names
  BY <1>2, DiscoverLists
<1>4. /\ pc' = [pc EXCEPT ![r] = "file"] /\ already' = [already EXCEPT ![r] = tracking]
      /\ todo' = [todo EXCEPT ![r] = listed]
      /\ UNCHANGED <<table, tracking, effects, dir, at, did, creates>>
  BY DEF ReadApplied, Goto, db
<1> HIDE DEF listed
<1>5. /\ pc'[r] = "file" /\ already'[r] = tracking /\ todo'[r] = listed /\ MovesAlone(r)
  BY <1>1, <1>4 DEF TypeOK, MovesAlone, Kept, Ended, db
<1>6. TypeOK'
  BY <1>1, <1>3, <1>4 DEF TypeOK, Open, Ended, FileOf, Current
<1>7. Executed(r)' = {} /\ Recorded(r)' = {} /\ Made(r)' = {}
  <2>1. did'[r] = <<>> /\ at'[r] = 0
    BY <1>1, <1>2, <1>4 DEF TypeOK
  <2> QED
    BY <2>1, NothingMade DEF Recorded, Executed
<1>8. Left(r)' = DOMAIN dir[r]
  BY <1>3, <1>5 DEF Left, Members
<1>9. AppliedBy(r)' = {n \in DOMAIN dir[r] : tracking[n] = None}
  BY <1>3, <1>4, <1>5 DEF AppliedBy
<1>10. Working(r)'
  <2>1. Sorted(todo[r])'
    BY <1>3, <1>5 DEF Sorted
  <2>2. Ascending(did[r])'
    BY <1>2, <1>4 DEF Ascending
  <2>3. \A i \in DOMAIN did'[r] : FALSE
    BY <1>2, <1>4
  <2> QED
    BY <1>1, <1>2, <1>4, <1>5, <1>7, <1>8, <1>9, <2>1, <2>2, <2>3 DEF Working, TypeOK
<1>11. RunnerInv(r)' /\ Outcome(r)'
  BY <1>2, <1>4, <1>5, <1>10 DEF RunnerInv, Outcome, AtWork
<1> QED
  BY <1>5, <1>6, <1>7, <1>11, OwnStepMakingNothing

\* What a runner at work knows of the file it stands before.
LEMMA AtAFile ==
  ASSUME MigInv, NEW r \in Runners, AtWork(r), todo[r] # <<>>
  PROVE  /\ Current(r) \in DOMAIN dir[r] /\ Current(r) \in Names /\ Current(r) \in Left(r)
         /\ FileOf(r) \in File /\ FileOf(r) = dir[r][Current(r)]
         /\ Tail(todo[r]) \in Seq(Names) /\ Sorted(Tail(todo[r]))
         /\ Left(r) = {Current(r)} \cup Members(Tail(todo[r]))
         /\ \A n \in Members(Tail(todo[r])) : Current(r) < n
         /\ Current(r) \notin Recorded(r) /\ Current(r) \in Nat
<1>1. Working(r) /\ dir[r] \in Checkouts /\ todo[r] \in Seq(Names)
  BY DEF MigInv, RunnerInv, AtWork, TypeOK
<1>2. /\ Current(r) \in Names /\ Tail(todo[r]) \in Seq(Names) /\ Sorted(Tail(todo[r]))
      /\ Left(r) = {Current(r)} \cup Members(Tail(todo[r]))
      /\ \A n \in Members(Tail(todo[r])) : Current(r) < n
  BY <1>1, TailOfSorted DEF Working, Left, Current
<1>3. Current(r) \in DOMAIN dir[r] /\ Current(r) \in Nat
  BY <1>1, <1>2, MigrationsConstants DEF Working
<1>4. FileOf(r) = dir[r][Current(r)] /\ FileOf(r) \in File
  <2>1. PICK D \in SUBSET Names : dir[r] \in [D -> File]
    BY <1>1, MigrationsConstants
  <2> QED
    BY <1>3, <2>1 DEF FileOf
<1>5. Current(r) \notin Recorded(r)
  <2>1. Current(r) \in Recorded(r) => Current(r) < Current(r)
    BY <1>1, <1>2 DEF Working
  <2> QED
    BY <1>3, <2>1
<1> QED
  BY <1>2, <1>3, <1>4, <1>5

\* A file that is refused clashes with its row; one that is skipped has the text
\* its row stands for.
LEMMA TakeFileKeeps ==
  ASSUME MigInv, NEW r \in Runners, TakeFile(r)
  PROVE  MigInv'
<1>1. TypeOK /\ RunnerInv(r) /\ pc[r] = "file" /\ todo[r] # <<>> /\ AtWork(r)
  BY DEF MigInv, TakeFile, AtWork
<1>2. Working(r) /\ dir[r] \in Checkouts
  BY <1>1 DEF RunnerInv
<1> DEFINE n == Current(r)
<1>3. /\ n \in DOMAIN dir[r] /\ n \in Names /\ n \in Left(r) /\ FileOf(r) = dir[r][n]
      /\ Tail(todo[r]) \in Seq(Names) /\ Sorted(Tail(todo[r]))
      /\ Left(r) = {n} \cup Members(Tail(todo[r])) /\ n \notin Recorded(r)
      /\ \A m \in Members(Tail(todo[r])) : n < m
  BY <1>1, AtAFile
<1>4. CASE FileOf(r).text \in Controls
  BY <1>1, <1>4, EndStep DEF TakeFile, Ended
<1>5. CASE FileOf(r).text \notin Controls /\ already[r][n] = None
  <2>1. pc' = [pc EXCEPT ![r] = "execute"] /\ UNCHANGED <<db, dir, already, todo, at, did, creates>>
    BY <1>5 DEF TakeFile, Goto
  <2>2. pc'[r] = "execute" /\ MovesAlone(r)
    BY <1>1, <2>1 DEF TypeOK, MovesAlone, Kept, Ended
  <2>3. TypeOK'
    BY <1>1, <2>1 DEF TypeOK, Open, Ended, db, FileOf, Current
  <2>4. Executed(r)' = Executed(r) /\ Recorded(r)' = Recorded(r)
    BY <1>1, <2>1, <2>2 DEF Executed, Recorded
  <2>5. Left(r)' = Left(r) /\ AppliedBy(r)' = AppliedBy(r) /\ Current(r)' = n
    BY <2>1 DEF Left, Members, AppliedBy, Current
  <2>6. Working(r)'
    BY <1>1, <1>2, <1>5, <2>1, <2>2, <2>4, <2>5 DEF Working, Sorted, Ascending, db
  <2>7. RunnerInv(r)' /\ Outcome(r)'
    BY <1>2, <2>1, <2>2, <2>6 DEF RunnerInv, Outcome, AtWork
  <2>8. Made(r)' = Made(r)
    BY <1>1, <2>1, SameMade DEF TypeOK
  <2> QED
    BY <2>2, <2>3, <2>4, <2>7, <2>8, OwnStepMakingNothing DEF MigInv, Apart
<1>6. CASE /\ FileOf(r).text \notin Controls /\ already[r][n] # None
           /\ already[r][n] # Checksum(FileOf(r))
  <2>1. End(r, "refused_changed")
    BY <1>6 DEF TakeFile
  <2>2. Clashes(r, n)
    BY <1>2, <1>3, <1>6 DEF Clashes, Working, Checksum
  <2> QED
    BY <1>1, <1>3, <2>1, <2>2, EndStep DEF Ended
<1>7. CASE /\ FileOf(r).text \notin Controls /\ already[r][n] # None
           /\ already[r][n] = Checksum(FileOf(r))
  <2>1. /\ pc' = [pc EXCEPT ![r] = "file"] /\ todo' = [todo EXCEPT ![r] = Tail(todo[r])]
        /\ UNCHANGED <<db, dir, already, at, did, creates>>
    BY <1>7 DEF TakeFile, NextFile, Goto
  <2>2. pc'[r] = "file" /\ todo'[r] = Tail(todo[r]) /\ MovesAlone(r)
    BY <1>1, <2>1 DEF TypeOK, MovesAlone, Kept, Ended
  <2>3. TypeOK'
    BY <1>1, <1>3, <2>1 DEF TypeOK, Open, Ended, db, FileOf, Current
  <2>4. Executed(r)' = Executed(r) /\ Recorded(r)' = Recorded(r)
    BY <1>1, <2>1, <2>2 DEF Executed, Recorded
  <2>5. Left(r)' = Members(Tail(todo[r])) /\ AppliedBy(r)' = AppliedBy(r)
    BY <2>1, <2>2 DEF Left, Members, AppliedBy
  <2>6. Working(r)'
    <3>1. Sorted(todo[r])'
      BY <1>3, <2>2 DEF Sorted
    <3>2. Ascending(did[r])'
      BY <1>2, <2>1 DEF Working, Ascending
    <3>3. Left(r)' \subseteq Left(r) /\ \A m \in Left(r) : m = n \/ m \in Left(r)'
      BY <1>3, <2>5
    <3>4. AppliedBy(r)' = Recorded(r)' \cup {m \in Left(r)' : already'[r][m] = None}
      BY <1>2, <1>7, <2>1, <2>4, <2>5, <3>3 DEF Working
    <3>5. \A m \in DOMAIN dir'[r] \ Left(r)' : already'[r][m] \in {None, dir'[r][m].text}
      BY <1>2, <1>3, <1>7, <2>1, <3>3 DEF Working, Checksum
    <3> QED
      BY <1>2, <2>1, <2>2, <2>4, <3>1, <3>2, <3>3, <3>4, <3>5 DEF Working, db
  <2>7. RunnerInv(r)' /\ Outcome(r)'
    BY <1>2, <2>1, <2>2, <2>6 DEF RunnerInv, Outcome, AtWork
  <2>8. Made(r)' = Made(r)
    BY <1>1, <2>1, SameMade DEF TypeOK
  <2> QED
    BY <2>2, <2>3, <2>4, <2>7, <2>8, OwnStepMakingNothing DEF MigInv, Apart
<1> QED
  BY <1>4, <1>5, <1>6, <1>7

\* A file with a row that r did not find was committed by a runner that is done.
LEMMA FileWasApplied ==
  ASSUME MigInv, NEW r \in Runners, AtWork(r), todo[r] # <<>>, already[r][Current(r)] = None,
         tracking[Current(r)] # None
  PROVE  Overtaken(r)
<1>1. TypeOK /\ TableHasItsRunner /\ Current(r) \in Names /\ Current(r) \in DOMAIN dir[r]
  BY AtAFile DEF MigInv
<1>2. table
  BY <1>1 DEF TypeOK
<1>3. \E q \in Runners \ {r} : pc[q] = "done"
  BY <1>1, <1>2 DEF TableHasItsRunner, AtWork
<1> QED
  BY <1>1, <1>3 DEF Overtaken

\* What a file that was applied has made is there.
LEMMA AppliedIsThere ==
  ASSUME NEW n \in Names, NEW t \in Texts, Applied(n, t), NEW i \in DOMAIN Script[t]
  PROVE  Script[t][i].makes \subseteq There
<1>1. PICK k \in DOMAIN effects : effects[k] = [name |-> n, text |-> t]
  BY DEF Applied
<1>2. Script[t][i] \in StatementsOf(effects[k].text)
  BY <1>1 DEF StatementsOf
<1> QED
  BY <1>2 DEF There

\* A runner has executed its file as far as it has come.
LEMMA InsideAFile ==
  ASSUME MigInv, NEW r \in Runners, pc[r] = "execute"
  PROVE  /\ Working(r) /\ AtWork(r) /\ dir[r] \in Checkouts /\ todo[r] # <<>>
         /\ already[r][Current(r)] = None
         /\ Current(r) \in DOMAIN dir[r] /\ Current(r) \in Names /\ Current(r) \notin Recorded(r)
         /\ FileOf(r) \in File /\ FileOf(r) = dir[r][Current(r)] /\ FileOf(r).text \in Texts
         /\ Script[FileOf(r).text] \in Seq(Statement)
         /\ Executed(r) = Recorded(r)
         /\ at[r] \in Nat /\ at[r] <= Len(Script[FileOf(r).text])
         /\ DOMAIN Script[FileOf(r).text] = 1 .. Len(Script[FileOf(r).text])
         /\ Len(Script[FileOf(r).text]) \in Nat
<1>1. TypeOK /\ RunnerInv(r) /\ AtWork(r) /\ Working(r) /\ dir[r] \in Checkouts
  BY DEF MigInv, RunnerInv, AtWork
<1>2. todo[r] # <<>> /\ already[r][Current(r)] = None
  BY <1>1 DEF Working
<1>3. /\ Current(r) \in DOMAIN dir[r] /\ Current(r) \in Names /\ Current(r) \notin Recorded(r)
      /\ FileOf(r) \in File /\ FileOf(r) = dir[r][Current(r)]
  BY <1>1, <1>2, AtAFile
<1>4. FileOf(r).text \in Texts
  BY <1>3 DEF File
<1>5. Script[FileOf(r).text] \in Seq(Statement)
  BY <1>4, MigrationsConstants
<1>6. /\ DOMAIN Script[FileOf(r).text] = 1 .. Len(Script[FileOf(r).text])
      /\ Len(Script[FileOf(r).text]) \in Nat
  BY <1>5, LenProperties
<1>7. at[r] \in Nat /\ (at[r] # 0 => at[r] <= Len(Script[FileOf(r).text]))
  BY <1>1 DEF TypeOK
<1>8. at[r] <= Len(Script[FileOf(r).text])
  BY <1>6, <1>7
<1>9. Executed(r) = Recorded(r)
  BY DEF Recorded, Executed
<1> QED
  BY <1>1, <1>2, <1>3, <1>4, <1>5, <1>6, <1>7, <1>8, <1>9

\* What a file about to make something finds made, another runner made.
LEMMA AlreadyMade ==
  ASSUME MigInv, NEW r \in Runners, pc[r] = "execute", at[r] < Len(Script[FileOf(r).text]),
         NextStatement(r).makes \cap Sees(r) # {}
  PROVE  Overtaken(r)
<1> DEFINE n == Current(r)
           text == FileOf(r).text
           next == at[r] + 1
<1>1. /\ Working(r) /\ AtWork(r) /\ dir[r] \in Checkouts /\ todo[r] # <<>>
      /\ already[r][n] = None /\ n \in DOMAIN dir[r] /\ n \in Names /\ n \notin Recorded(r)
      /\ FileOf(r) = dir[r][n] /\ text \in Texts /\ Executed(r) = Recorded(r)
      /\ at[r] \in Nat /\ DOMAIN Script[text] = 1 .. Len(Script[text]) /\ Len(Script[text]) \in Nat
  BY InsideAFile
<1>2. next \in DOMAIN Script[text] /\ NextStatement(r) = Script[text][next]
  BY <1>1 DEF NextStatement
<1>3. PICK o \in Script[text][next].makes : o \in Sees(r)
  BY <1>2
<1>4. ASSUME NEW d \in Checkouts, NEW m \in DOMAIN d, m # n,
             NEW i \in DOMAIN Script[d[m].text]
      PROVE  o \notin Script[d[m].text][i].makes
  <2>1. Script[d[m].text][i].makes \cap Script[dir[r][n].text][next].makes = {}
    BY <1>1, <1>2, <1>4, ObjectsHaveTheirFile
  <2> QED
    BY <1>1, <1>3, <2>1
<1>5. o \notin Made(r)
  <2>1. SUFFICES ASSUME NEW s \in Ran(r), o \in s.makes PROVE FALSE
    BY DEF Made
  <2>2. CASE \E i \in DOMAIN did[r] : s \in StatementsOf(did[r][i].text)
    <3>1. PICK i \in DOMAIN did[r] : s \in StatementsOf(did[r][i].text)
      BY <2>2
    <3> DEFINE m == did[r][i].name
    <3>2. m \in DOMAIN dir[r] /\ did[r][i].text = dir[r][m].text
      BY <1>1 DEF Working
    <3>3. m # n
      BY <1>1 DEF Executed
    <3>4. PICK j \in DOMAIN Script[dir[r][m].text] : s = Script[dir[r][m].text][j]
      BY <3>1, <3>2 DEF StatementsOf
    <3> QED
      BY <1>1, <1>4, <2>1, <3>2, <3>3, <3>4
  <2>3. CASE \E i \in 1 .. at[r] : s = Script[text][i]
    <3>1. PICK i \in 1 .. at[r] : s = Script[text][i]
      BY <2>3
    <3>2. i \in DOMAIN Script[text] /\ i # next
      BY <1>1, <3>1
    <3>3. Script[text][i].makes \cap Script[text][next].makes = {}
      BY <1>1, <1>2, <3>2, ObjectsHaveTheirFile
    <3> QED
      BY <1>3, <2>1, <3>1, <3>3
  <2> QED
    BY <2>1, <2>2, <2>3, RanHas
<1>6. PICK i \in DOMAIN effects : \E s \in StatementsOf(effects[i].text) : o \in s.makes
  BY <1>3, <1>5 DEF Sees, There
<1>7. PICK d \in Checkouts : effects[i].name \in DOMAIN d /\ effects[i].text = d[effects[i].name].text
  BY DEF MigInv, EffectsHaveFiles
<1>8. effects[i].name = n
  BY <1>4, <1>6, <1>7 DEF StatementsOf
<1>9. effects \in Seq(Effect) /\ EffectsMatchTracking
  BY DEF MigInv, TypeOK
<1>10. effects[i] \in Effect
  BY <1>9, ElementOfSeq
<1>11. effects[i].text \in Texts /\ effects[i] = [name |-> n, text |-> effects[i].text]
  BY <1>8, <1>10 DEF Effect
<1>12. Applied(n, effects[i].text)
  BY <1>11 DEF Applied
<1>13. tracking[n] # None
  BY <1>1, <1>9, <1>11, <1>12, MigrationsConstants DEF EffectsMatchTracking
<1> QED
  BY <1>1, <1>13, FileWasApplied

\* What the files a runner has passed make, it sees.
LEMMA PassedIsSeen ==
  ASSUME MigInv, NEW r \in Runners, pc[r] = "execute", NEW m \in DOMAIN dir[r], m < Current(r),
         NEW s \in StatementsOf(dir[r][m].text)
  PROVE  s.makes \subseteq Sees(r)
<1>1. /\ Working(r) /\ AtWork(r) /\ dir[r] \in Checkouts /\ todo[r] # <<>>
      /\ Executed(r) = Recorded(r) /\ Current(r) \in Names
  BY InsideAFile
<1>2. PICK D \in SUBSET Names : dir[r] \in [D -> File]
  BY <1>1, MigrationsConstants
<1>3. m \in Names /\ m \in Nat /\ Current(r) \in Nat /\ dir[r][m].text \in Texts
  BY <1>1, <1>2, MigrationsConstants DEF File
<1>4. m \notin Left(r)
  <2>1. /\ Left(r) = {Current(r)} \cup Members(Tail(todo[r]))
        /\ \A n \in Members(Tail(todo[r])) : Current(r) < n
        /\ Tail(todo[r]) \in Seq(Names)
    BY <1>1, AtAFile
  <2>2. ~(Current(r) < m) /\ m # Current(r)
    BY <1>3
  <2> QED
    BY <2>1, <2>2
<1>5. CASE m \in Recorded(r)
  <2>1. PICK i \in DOMAIN did[r] : did[r][i].name = m
    BY <1>1, <1>5 DEF Executed
  <2>2. did[r][i].text = dir[r][m].text
    BY <1>1, <2>1 DEF Working
  <2>3. s \in Ran(r)
    BY <2>1, <2>2 DEF Ran
  <2> QED
    BY <2>3 DEF Made, Sees
<1>6. CASE m \notin Recorded(r)
  <2>1. already[r][m] # None
    <3>1. m \notin AppliedBy(r)
      BY <1>1, <1>4, <1>6 DEF Working
    <3> QED
      BY <1>3, <3>1 DEF AppliedBy
  <2>2. tracking[m] = dir[r][m].text
    BY <1>1, <1>3, <1>4, <2>1 DEF Working
  <2>3. Applied(m, dir[r][m].text)
    BY <1>3, <2>2 DEF MigInv, EffectsMatchTracking
  <2> QED
    BY <1>3, <2>3, AppliedIsThere DEF StatementsOf, Sees
<1> QED
  BY <1>5, <1>6

\* A runner that finds something missing has a directory that lacks it.
LEMMA MissingIsLacking ==
  ASSUME MigInv, NEW r \in Runners, pc[r] = "execute", at[r] < Len(Script[FileOf(r).text]),
         ~Resolves(r)
  PROVE  Incomplete(dir[r])
<1> DEFINE n == Current(r)
           text == FileOf(r).text
           next == at[r] + 1
<1>1. /\ n \in DOMAIN dir[r] /\ FileOf(r) = dir[r][n] /\ at[r] \in Nat
      /\ DOMAIN Script[text] = 1 .. Len(Script[text]) /\ Len(Script[text]) \in Nat
  BY InsideAFile
<1>2. next \in DOMAIN Script[dir[r][n].text] /\ NextStatement(r) = Script[dir[r][n].text][next]
  BY <1>1 DEF NextStatement
<1>3. PICK o \in NextStatement(r).takes \cup NextStatement(r).uses : o \notin Sees(r)
  BY DEF Resolves
<1>4. \A m \in DOMAIN dir[r] : m < n => \A s \in StatementsOf(dir[r][m].text) : o \notin s.makes
  BY <1>3, PassedIsSeen
<1>5. ASSUME NEW j \in 1 .. next - 1 PROVE o \notin Script[dir[r][n].text][j].makes
  <2>1. j \in 1 .. at[r]
    BY <1>1
  <2>2. Script[text][j] \in Ran(r)
    BY <2>1, RanHas
  <2> QED
    BY <1>1, <1>3, <2>2 DEF Made, Sees
<1> QED
  BY <1>1, <1>2, <1>3, <1>4, <1>5 DEF Incomplete

\* A statement that is executed makes what nobody has made.
LEMMA ExecuteStatementKeeps ==
  ASSUME MigInv, NEW r \in Runners, ExecuteStatement(r)
  PROVE  MigInv'
<1>1. TypeOK /\ RunnerInv(r) /\ pc[r] = "execute" /\ at[r] < Len(Script[FileOf(r).text])
  BY DEF MigInv, ExecuteStatement
<1>2. CASE ~Resolves(r)
  <2>1. End(r, "undefined")
    BY <1>2 DEF ExecuteStatement
  <2>2. Incomplete(dir[r])
    BY <1>1, <1>2, MissingIsLacking
  <2> QED
    BY <1>1, <2>1, <2>2, EndStep DEF Ended
<1>3. CASE Resolves(r) /\ NextStatement(r).makes \cap Sees(r) # {}
  <2>1. End(r, "duplicate")
    BY <1>3 DEF ExecuteStatement
  <2>2. Overtaken(r)
    BY <1>1, <1>3, AlreadyMade
  <2> QED
    BY <1>1, <2>1, <2>2, EndStep DEF Ended
<1>4. CASE Resolves(r) /\ NextStatement(r).makes \cap Sees(r) = {}
  <2>1. at' = [at EXCEPT ![r] = at[r] + 1] /\ UNCHANGED <<db, pc, dir, already, todo, did, creates>>
    BY <1>4 DEF ExecuteStatement
  <2>2. /\ Working(r) /\ at[r] \in Nat /\ Len(Script[FileOf(r).text]) \in Nat
    BY <1>1, InsideAFile
  <2>3. at'[r] = at[r] + 1 /\ MovesAlone(r)
    BY <1>1, <2>1 DEF TypeOK, MovesAlone, Kept, Ended
  <2>4. FileOf(r)' = FileOf(r)
    BY <2>1 DEF FileOf, Current
  <2>5. TypeOK'
    <3>1. at' \in [Runners -> Nat]
      BY <1>1, <2>1, <2>2 DEF TypeOK
    <3>2. ASSUME NEW q \in Runners, at'[q] # 0
          PROVE  pc'[q] = "execute" /\ at'[q] <= Len(Script[FileOf(q)'.text])
      <4>1. CASE q = r
        BY <1>1, <2>1, <2>2, <2>3, <2>4, <4>1
      <4>2. CASE q # r
        BY <1>1, <2>1, <3>2, <4>2 DEF TypeOK, FileOf, Current
      <4> QED
        BY <4>1, <4>2
    <3> QED
      BY <1>1, <2>1, <3>1, <3>2 DEF TypeOK, Open, Ended, db
  <2>6. Executed(r)' = Executed(r) /\ Recorded(r)' = Recorded(r)
    BY <2>1 DEF Executed, Recorded
  <2>7. Left(r)' = Left(r) /\ AppliedBy(r)' = AppliedBy(r) /\ Current(r)' = Current(r)
    BY <2>1 DEF Left, Members, AppliedBy, Current
  <2>8. Working(r)'
    BY <2>1, <2>2, <2>6, <2>7 DEF Working, Sorted, Ascending, db
  <2>9. RunnerInv(r)' /\ Outcome(r)'
    BY <1>1, <2>1, <2>8 DEF RunnerInv, Outcome, AtWork
  <2>10. Made(r)' = Made(r) \cup NextStatement(r).makes
    <3>1. 1 .. at'[r] = (1 .. at[r]) \cup {at[r] + 1}
      BY <2>2, <2>3
    <3>2. {Script[FileOf(r).text][i] : i \in 1 .. at'[r]}
            = {Script[FileOf(r).text][i] : i \in 1 .. at[r]} \cup {NextStatement(r)}
      BY <3>1 DEF NextStatement
    <3>3. Ran(r)' = Ran(r) \cup {NextStatement(r)}
      BY <2>1, <2>4, <3>2 DEF Ran
    <3> QED
      BY <3>3 DEF Made
  <2>11. \A q \in Runners \ {r} : NextStatement(r).makes \cap Made(q) = {}
    BY <1>1, <1>4 DEF ExecuteStatement, Waits, WaitsFor
  <2>12. NextStatement(r).makes \cap There = {}
    BY <1>4 DEF Sees
  <2>13. \A q \in Runners \ {r} : /\ Recorded(r)' \cap Recorded(q) = {}
                                  /\ Made(r)' \cap Made(q) = {}
    BY <2>6, <2>10, <2>11 DEF MigInv, Apart, MadeApart
  <2>14. Made(r)' \cap There = {}
    BY <2>10, <2>12 DEF MigInv, Fresh
  <2> QED
    BY <2>3, <2>5, <2>9, <2>13, <2>14, OwnStep
<1> QED
  BY <1>2, <1>3, <1>4

\* A file that has been executed comes after every file recorded before it.
LEMMA FinishFileKeeps ==
  ASSUME MigInv, NEW r \in Runners, FinishFile(r)
  PROVE  MigInv'
<1>1. TypeOK /\ RunnerInv(r) /\ pc[r] = "execute" /\ at[r] = Len(Script[FileOf(r).text])
  BY DEF MigInv, FinishFile
<1> DEFINE n == Current(r)
           e == [name |-> n, text |-> FileOf(r).text]
<1>2. /\ Working(r) /\ dir[r] \in Checkouts /\ todo[r] # <<>> /\ already[r][n] = None
      /\ n \in DOMAIN dir[r] /\ n \in Names /\ FileOf(r) = dir[r][n] /\ n \notin Recorded(r)
      /\ FileOf(r) \in File /\ FileOf(r).text \in Texts /\ Executed(r) = Recorded(r)
      /\ DOMAIN Script[FileOf(r).text] = 1 .. at[r]
  BY <1>1, InsideAFile
<1>3. n \in Left(r)
  BY <1>1, <1>2, AtAFile DEF AtWork
<1>4. /\ pc' = [pc EXCEPT ![r] = "record"] /\ did' = [did EXCEPT ![r] = Append(did[r], e)]
      /\ at' = [at EXCEPT ![r] = 0] /\ UNCHANGED <<db, dir, already, todo, creates>>
  BY DEF FinishFile, Goto
<1>5. NamesIn(did[r]) = Recorded(r)
  BY <1>2 DEF Executed, NamesIn
<1>6. did[r] \in Seq(Effect) /\ e \in Effect /\ Ascending(did[r])
  BY <1>1, <1>2 DEF TypeOK, Working, Effect
<1>7. \A m \in NamesIn(did[r]) : m < e.name
  BY <1>2, <1>3, <1>5 DEF Working
<1>8. /\ Append(did[r], e) \in Seq(Effect) /\ Ascending(Append(did[r], e))
      /\ Members(Append(did[r], e)) = Members(did[r]) \cup {e}
      /\ NamesIn(Append(did[r], e)) = NamesIn(did[r]) \cup {n}
  BY <1>6, <1>7, AppendAscending
<1>9. pc'[r] = "record" /\ did'[r] = Append(did[r], e) /\ at'[r] = 0 /\ MovesAlone(r)
  BY <1>1, <1>4 DEF TypeOK, MovesAlone, Kept, Ended
<1>10. TypeOK'
  BY <1>1, <1>4, <1>8 DEF TypeOK, Open, Ended, db, FileOf, Current
<1>11. Executed(r)' = Executed(r) \cup {n} /\ Recorded(r)' = Recorded(r)
  <2>1. Executed(r)' = NamesIn(Append(did[r], e))
    BY <1>9 DEF Executed, NamesIn
  <2>2. Executed(r)' = Executed(r) \cup {n}
    BY <1>2, <1>5, <1>8, <2>1
  <2>3. Recorded(r)' = Executed(r)' \ {n}
    BY <1>4, <1>9 DEF Recorded, Current, Executed
  <2> QED
    BY <1>2, <2>2, <2>3
<1>12. Left(r)' = Left(r) /\ AppliedBy(r)' = AppliedBy(r) /\ Current(r)' = n
  BY <1>4 DEF Left, Members, AppliedBy, Current
<1>13. Working(r)'
  <2>1. Ascending(did[r])'
    BY <1>8, <1>9 DEF Ascending
  <2>2. \A i \in DOMAIN did'[r] : did'[r][i] \in Members(did[r]) \cup {e}
    BY <1>8, <1>9 DEF Members
  <2>3. \A i \in DOMAIN did'[r] : /\ did'[r][i].name \in DOMAIN dir[r]
                                  /\ did'[r][i].text = dir[r][did'[r][i].name].text
    BY <1>2, <2>2 DEF Working, Members
  <2> QED
    BY <1>2, <1>4, <1>9, <1>11, <1>12, <2>1, <2>3 DEF Working, Sorted, db
<1>14. RunnerInv(r)' /\ Outcome(r)'
  BY <1>1, <1>2, <1>4, <1>9, <1>13 DEF RunnerInv, Outcome, AtWork
<1>15. Made(r)' \subseteq Made(r)
  <2>1. ASSUME NEW i \in DOMAIN did'[r] PROVE StatementsOf(did'[r][i].text) \subseteq Ran(r)
    <3>1. CASE did'[r][i] = e
      <4>1. did'[r][i].text = FileOf(r).text
        BY <3>1
      <4>2. \A j \in DOMAIN Script[FileOf(r).text] : Script[FileOf(r).text][j] \in Ran(r)
        BY <1>2, RanHas
      <4> QED
        BY <4>1, <4>2 DEF StatementsOf
    <3>2. CASE did'[r][i] \in Members(did[r])
      BY <3>2, RanHas DEF Members
    <3> QED
      BY <1>8, <1>9, <3>1, <3>2 DEF Members
  <2>2. 1 .. at'[r] = {}
    BY <1>9
  <2>3. Ran(r)' \subseteq Ran(r)
    BY <2>1, <2>2 DEF Ran, StatementsOf
  <2> QED
    BY <2>3 DEF Made
<1> QED
  BY <1>9, <1>10, <1>11, <1>14, <1>15, OwnStepMakingNothing DEF MigInv, Apart

\* The row of a file is inserted while no other open runner holds it.
LEMMA RecordFileKeeps ==
  ASSUME MigInv, NEW r \in Runners, RecordFile(r)
  PROVE  MigInv'
<1>1. TypeOK /\ RunnerInv(r) /\ pc[r] = "record" /\ AtWork(r)
  BY DEF MigInv, RecordFile, AtWork
<1>2. Working(r) /\ dir[r] \in Checkouts
  BY <1>1 DEF RunnerInv
<1> DEFINE n == Current(r)
<1>3. todo[r] # <<>> /\ already[r][n] = None /\ n \in Executed(r)
  BY <1>1, <1>2 DEF Working
<1>4. /\ n \in DOMAIN dir[r] /\ n \in Names /\ n \in Left(r) /\ n \in Nat
      /\ Tail(todo[r]) \in Seq(Names) /\ Sorted(Tail(todo[r]))
      /\ Left(r) = {n} \cup Members(Tail(todo[r])) /\ n \notin Recorded(r)
      /\ \A m \in Members(Tail(todo[r])) : n < m
  BY <1>1, <1>3, AtAFile
<1>5. CASE tracking[n] # None
  <2>1. End(r, "duplicate")
    BY <1>5 DEF RecordFile
  <2>2. Overtaken(r)
    BY <1>1, <1>3, <1>5, FileWasApplied
  <2> QED
    BY <1>1, <2>1, <2>2, EndStep DEF Ended
<1>6. CASE tracking[n] = None
  <2>1. /\ pc' = [pc EXCEPT ![r] = "file"] /\ todo' = [todo EXCEPT ![r] = Tail(todo[r])]
        /\ UNCHANGED <<db, dir, already, at, did, creates>>
    BY <1>6 DEF RecordFile, NextFile, Goto
  <2>2. pc'[r] = "file" /\ todo'[r] = Tail(todo[r]) /\ MovesAlone(r)
    BY <1>1, <2>1 DEF TypeOK, MovesAlone, Kept, Ended
  <2>3. TypeOK'
    BY <1>1, <1>4, <2>1 DEF TypeOK, Open, Ended, db, FileOf, Current
  <2>4. Executed(r)' = Executed(r) /\ Recorded(r)' = Executed(r)
    BY <1>1, <2>1, <2>2 DEF Executed, Recorded
  <2>5. Executed(r) = Recorded(r) \cup {n} /\ Recorded(r)' = Recorded(r) \cup {n}
    BY <1>1, <1>3, <2>4 DEF Recorded, Current
  <2>6. Left(r)' = Members(Tail(todo[r])) /\ AppliedBy(r)' = AppliedBy(r)
    BY <2>1, <2>2 DEF Left, Members, AppliedBy
  <2>7. Left(r)' \subseteq Left(r) /\ \A m \in Left(r) : m = n \/ m \in Left(r)'
    BY <1>4, <2>6
  <2>8. Working(r)'
    <3>1. Sorted(todo[r])'
      BY <1>4, <2>2 DEF Sorted
    <3>2. Ascending(did[r])'
      BY <1>2, <2>1 DEF Working, Ascending
    <3>3. \A m \in Recorded(r)', k \in Left(r)' : m < k
      BY <1>2, <1>4, <2>5, <2>6, <2>7 DEF Working
    <3>4. AppliedBy(r)' = Recorded(r)' \cup {m \in Left(r)' : already'[r][m] = None}
      BY <1>2, <1>3, <1>4, <2>1, <2>5, <2>6, <2>7 DEF Working
    <3>5. \A m \in DOMAIN dir'[r] \ Left(r)' : already'[r][m] \in {None, dir'[r][m].text}
      BY <1>2, <1>3, <2>1, <2>7 DEF Working
    <3>6. \A m \in Recorded(r)' : tracking'[m] = None
      BY <1>2, <1>6, <2>1, <2>5 DEF Working, db
    <3> QED
      BY <1>2, <2>1, <2>2, <2>7, <3>1, <3>2, <3>3, <3>4, <3>5, <3>6 DEF Working, db
  <2>9. RunnerInv(r)' /\ Outcome(r)'
    BY <1>2, <2>1, <2>2, <2>8 DEF RunnerInv, Outcome, AtWork
  <2>10. \A q \in Runners \ {r} : n \notin Recorded(q)
    BY <1>1 DEF RecordFile, Waits, WaitsFor
  <2>11. \A q \in Runners \ {r} : Recorded(r) \cap Recorded(q) = {}
    BY DEF MigInv, Apart
  <2>12. Made(r)' = Made(r)
    BY <1>1, <2>1, SameMade DEF TypeOK
  <2> QED
    BY <2>2, <2>3, <2>5, <2>9, <2>10, <2>11, <2>12, OwnStepMakingNothing
<1> QED
  BY <1>5, <1>6

\* A killed runner takes what it has executed with it.
LEMMA KillKeeps ==
  ASSUME MigInv, NEW r \in Runners, Kill(r)
  PROVE  MigInv'
BY EndStep DEF Kill, Ended

--------------------------------------------------------------------------------
(* Waiting *)

\* A runner that has executed a statement nobody has committed yet.
Touched(r) == did[r] # <<>> \/ at[r] # 0

\* Whoever is waited for is creating the table or has executed something.
LEMMA AwaitedHasTouched ==
  ASSUME MigInv, NEW p \in Runners, NEW q \in Runners, WaitsFor(p, q)
  PROVE  (pc[p] = "creating" /\ creates[q]) \/ Touched(q)
<1>1. SUFFICES ASSUME ~Touched(q), ~(pc[p] = "creating" /\ creates[q]) PROVE FALSE
  OBVIOUS
<1>2. did[q] = <<>> /\ at[q] = 0
  BY <1>1 DEF Touched
<1>3. Ran(q) = {}
  BY <1>2 DEF Ran
<1>4. Made(q) = {} /\ Taken(q) = {} /\ Used(q) = {}
  BY <1>3 DEF Made, Taken, Used
<1>5. Recorded(q) = {}
  BY <1>2 DEF Recorded, Executed
<1> QED
  BY <1>1, <1>4, <1>5 DEF WaitsFor

\* The first file of its directory that a runner applies, when it has begun to:
\* it has made that file's first objects, and the files before it were applied.
FirstOf(r, f) ==
  /\ f \in DOMAIN dir[r] /\ f \in Names
  /\ Script[dir[r][f].text] # <<>> => Script[dir[r][f].text][1] \in Ran(r)
  /\ \A m \in DOMAIN dir[r] : m < f => Applied(m, dir[r][m].text)

LEMMA TouchedHasAFirst ==
  ASSUME MigInv, NEW r \in Runners, Touched(r)
  PROVE  \E f \in Names : FirstOf(r, f)
<1>1. TypeOK /\ RunnerInv(r) /\ EffectsMatchTracking
  BY DEF MigInv
<1>2. AtWork(r) /\ Working(r) /\ dir[r] \in Checkouts
  BY <1>1 DEF RunnerInv, Touched, TypeOK, AtWork
<1>3. PICK D \in SUBSET Names : dir[r] \in [D -> File]
  BY <1>2, MigrationsConstants
<1>4. \A n \in DOMAIN dir[r] : n \in Names /\ n \in Nat /\ dir[r][n].text \in Texts
  BY <1>3, MigrationsConstants DEF File
<1>5. AppliedBy(r) = Recorded(r) \cup {n \in Left(r) : already[r][n] = None}
  BY <1>2 DEF Working
\* Something of its own it stands in or has behind it.
<1>6. \/ Recorded(r) # {}
      \/ /\ pc[r] # "file" /\ todo[r] # <<>> /\ already[r][Current(r)] = None
         /\ Current(r) \in Left(r) /\ (pc[r] = "execute" => at[r] # 0)
  <2>1. CASE pc[r] = "file"
    <3>1. did[r] # <<>> /\ did[r] \in Seq(Effect)
      BY <1>1, <2>1 DEF Touched, TypeOK
    <3>2. 1 \in DOMAIN did[r]
      BY <3>1, EmptySeq, LenProperties
    <3> QED
      BY <2>1, <3>2 DEF Recorded, Executed
  <2>2. CASE pc[r] # "file"
    <3>1. todo[r] # <<>> /\ already[r][Current(r)] = None /\ Current(r) \in Left(r)
      BY <1>2, <2>2, AtAFile DEF Working
    <3>2. CASE pc[r] = "execute" /\ at[r] = 0
      <4>1. did[r] # <<>> /\ did[r] \in Seq(Effect)
        BY <1>1, <3>2 DEF Touched, TypeOK
      <4>2. 1 \in DOMAIN did[r]
        BY <4>1, EmptySeq, LenProperties
      <4> QED
        BY <3>2, <4>2 DEF Recorded, Executed
    <3>3. CASE ~(pc[r] = "execute" /\ at[r] = 0)
      BY <2>2, <3>1, <3>3
    <3> QED
      BY <3>2, <3>3
  <2> QED
    BY <2>1, <2>2
<1>7. AppliedBy(r) # {} /\ AppliedBy(r) \in SUBSET Nat
  BY <1>4, <1>5, <1>6 DEF AppliedBy
<1>8. PICK f \in AppliedBy(r) : \A n \in AppliedBy(r) : f <= n
  BY <1>7, LeastOf
<1>9. f \in DOMAIN dir[r] /\ f \in Names /\ f \in Nat
  BY <1>4, <1>8 DEF AppliedBy
<1>10. ASSUME NEW m \in DOMAIN dir[r], m < f PROVE Applied(m, dir[r][m].text)
  <2>1. m \notin AppliedBy(r) /\ m \in Nat /\ m \in Names
    BY <1>4, <1>8, <1>9, <1>10
  <2>2. already[r][m] # None
    BY <2>1 DEF AppliedBy
  <2>3. m \notin Left(r)
    <3>1. CASE Recorded(r) # {}
      <4>1. PICK k \in Recorded(r) : TRUE
        BY <3>1
      <4>2. k \in AppliedBy(r) /\ k \in Nat /\ f <= k
        BY <1>5, <1>7, <1>8, <4>1
      <4>3. m \in Left(r) => k < m
        BY <1>2, <4>1 DEF Working
      <4> QED
        BY <1>9, <1>10, <2>1, <4>2, <4>3
    <3>2. CASE Recorded(r) = {}
      <4>1. /\ todo[r] # <<>> /\ Current(r) \in AppliedBy(r)
        BY <1>5, <1>6, <3>2
      <4>2. /\ Left(r) = {Current(r)} \cup Members(Tail(todo[r]))
            /\ \A n \in Members(Tail(todo[r])) : Current(r) < n
            /\ Current(r) \in Nat
        BY <1>2, <4>1, AtAFile
      <4>3. f <= Current(r)
        BY <1>8, <4>1
      <4>4. m # Current(r) /\ ~(Current(r) < m)
        BY <1>9, <1>10, <2>1, <4>2, <4>3
      <4> QED
        BY <4>2, <4>4
    <3> QED
      BY <3>1, <3>2
  <2>4. tracking[m] = dir[r][m].text
    BY <1>2, <2>1, <2>2, <2>3 DEF Working
  <2> QED
    BY <1>1, <1>4, <2>1, <2>4 DEF EffectsMatchTracking
<1>11. ASSUME Script[dir[r][f].text] # <<>> PROVE Script[dir[r][f].text][1] \in Ran(r)
  <2>1. Script[dir[r][f].text] \in Seq(Statement)
    BY <1>4, <1>9, MigrationsConstants
  <2>2. 1 \in DOMAIN Script[dir[r][f].text]
    BY <1>11, <2>1, EmptySeq, LenProperties
  <2>3. CASE f \in Executed(r)
    <3>1. PICK i \in DOMAIN did[r] : did[r][i].name = f
      BY <2>3 DEF Executed
    <3>2. did[r][i].text = dir[r][f].text
      BY <1>2, <3>1 DEF Working
    <3> QED
      BY <2>2, <3>2, RanHas DEF StatementsOf
  <2>4. CASE f \notin Executed(r)
    <3>1. f \notin Recorded(r) /\ f \in Left(r)
      BY <1>5, <1>8, <2>4 DEF Recorded
    <3>2. Recorded(r) = {}
      <4>1. SUFFICES ASSUME NEW k \in Recorded(r) PROVE FALSE
        OBVIOUS
      <4>2. k < f /\ k \in Nat /\ f <= k
        BY <1>2, <1>5, <1>7, <1>8, <3>1 DEF Working
      <4> QED
        BY <1>9, <4>2
    <3>3. /\ todo[r] # <<>> /\ Current(r) \in AppliedBy(r) /\ pc[r] # "file"
          /\ (pc[r] = "execute" => at[r] # 0)
      BY <1>5, <1>6, <3>2
    <3>4. /\ Left(r) = {Current(r)} \cup Members(Tail(todo[r]))
          /\ \A n \in Members(Tail(todo[r])) : Current(r) < n
          /\ Current(r) \in Nat /\ FileOf(r) = dir[r][Current(r)]
      BY <1>2, <3>3, AtAFile
    <3>5. f = Current(r)
      <4>1. f <= Current(r)
        BY <1>8, <3>3
      <4>2. ~(Current(r) < f)
        BY <1>9, <3>4, <4>1
      <4> QED
        BY <3>1, <3>4, <4>2
    <3>6. pc[r] = "execute"
      BY <1>2, <2>4, <3>3, <3>5 DEF Working, AtWork
    <3>7. at[r] \in Nat /\ at[r] # 0
      BY <1>1, <3>3, <3>6 DEF TypeOK
    <3>8. 1 \in 1 .. at[r]
      BY <3>7
    <3> QED
      BY <3>4, <3>5, <3>8, RanHas
  <2> QED
    BY <2>3, <2>4
<1> QED
  BY <1>9, <1>10, <1>11 DEF FirstOf

\* Of runners of one history only one has executed anything: two would have made
\* the same object, or one would have made what was there.
LEMMA OneAtATime ==
  ASSUME MigInv, InStep, NEW p \in Runners, NEW q \in Runners, p # q, Touched(p), Touched(q)
  PROVE  FALSE
<1>1. \A r \in {p, q} : pc[r] # "idle" /\ dir[r] \in Checkouts
  <2>1. ASSUME NEW r \in Runners, Touched(r) PROVE pc[r] # "idle" /\ dir[r] \in Checkouts
    BY <2>1 DEF MigInv, RunnerInv, TypeOK, Touched, Open
  <2> QED
    BY <2>1
<1>2. PICK f \in Names : FirstOf(p, f)
  BY TouchedHasAFirst
<1>3. PICK g \in Names : FirstOf(q, g)
  BY TouchedHasAFirst
<1>4. f \in Nat /\ g \in Nat
  BY MigrationsConstants
<1>5. ASSUME NEW r \in {p, q}, NEW n \in DOMAIN dir[r]
      PROVE  /\ n \in Names /\ dir[r][n].text \in Texts
             /\ Script[dir[r][n].text] # <<>> /\ Script[dir[r][n].text][1].makes # {}
             /\ 1 \in DOMAIN Script[dir[r][n].text]
  <2>0. dir[r] \in Checkouts
    BY <1>1
  <2>1. PICK D \in SUBSET Names : dir[r] \in [D -> File]
    BY <2>0, MigrationsConstants
  <2>2. n \in Names /\ dir[r][n].text \in Texts
    BY <2>1 DEF File
  <2>3. Script[dir[r][n].text] # <<>> /\ Script[dir[r][n].text][1].makes # {}
    BY <1>1 DEF InStep
  <2>4. Script[dir[r][n].text] \in Seq(Statement)
    BY <2>2, MigrationsConstants
  <2>5. 1 \in DOMAIN Script[dir[r][n].text]
    BY <2>3, <2>4, EmptySeq, LenProperties
  <2> QED
    BY <2>2, <2>3, <2>5
\* Nobody is before another: its first file was applied, or the other has it too.
<1>6. ASSUME NEW a \in {p, q}, NEW b \in {p, q}, a # b, NEW m \in Names, NEW n \in Names,
             FirstOf(a, m), FirstOf(b, n), m <= n
      PROVE  FALSE
  <2>1. m \in DOMAIN dir[a] /\ n \in DOMAIN dir[b] /\ m \in Nat /\ n \in Nat
    BY <1>6, MigrationsConstants DEF FirstOf
  <2>2. m \in DOMAIN dir[b]
    <3>1. CASE m = n
      BY <2>1, <3>1
    <3>2. CASE m # n
      <4>1. m < n
        BY <1>6, <2>1, <3>2
      <4> QED
        BY <1>1, <2>1, <4>1 DEF InStep
    <3> QED
      BY <3>1, <3>2
  <2>3. dir[a][m].text = dir[b][m].text
    BY <1>1, <2>1, <2>2 DEF InStep
  <2> DEFINE text == dir[a][m].text
  <2>4. text \in Texts /\ Script[text][1].makes # {} /\ 1 \in DOMAIN Script[text]
    BY <1>5, <2>1
  <2>5. Script[text][1].makes \subseteq Made(a)
    BY <1>5, <1>6, <2>1 DEF FirstOf, Made
  <2>6. CASE m = n
    <3>1. Script[text][1].makes \subseteq Made(b)
      BY <1>5, <1>6, <2>1, <2>3, <2>6 DEF FirstOf, Made
    <3>2. Made(a) \cap Made(b) = {}
      BY <1>6 DEF MigInv, MadeApart
    <3> QED
      BY <2>4, <2>5, <3>1, <3>2
  <2>7. CASE m # n
    <3>1. m < n
      BY <1>6, <2>1, <2>7
    <3>2. Applied(m, text)
      BY <1>6, <2>2, <2>3, <3>1 DEF FirstOf
    <3>3. Script[text][1].makes \subseteq There
      BY <2>4, <3>2, AppliedIsThere
    <3>4. Made(a) \cap There = {}
      BY DEF MigInv, Fresh
    <3> QED
      BY <2>4, <2>5, <3>3, <3>4
  <2> QED
    BY <2>6, <2>7
<1>7. CASE f <= g
  BY <1>2, <1>3, <1>6, <1>7
<1>8. CASE g <= f
  BY <1>2, <1>3, <1>6, <1>8
<1> QED
  BY <1>4, <1>7, <1>8

\* Nobody waits in a circle of runners of one history: all in it would have
\* executed something.
LEMMA NoCircle ==
  ASSUME MigInv, InStep, NEW r \in Runners
  PROVE  ~InWaitCycle(r)
<1>1. SUFFICES ASSUME InWaitCycle(r) PROVE FALSE
  OBVIOUS
<1>2. PICK circle \in SUBSET Runners :
        /\ r \in circle
        /\ \A p \in circle : \E q \in circle : WaitsFor(p, q)
        /\ \A q \in circle : \E p \in circle : WaitsFor(p, q)
  BY <1>1 DEF InWaitCycle
<1>3. ASSUME NEW p \in circle PROVE Touched(p)
  <2>1. SUFFICES ASSUME ~Touched(p) PROVE FALSE
    OBVIOUS
  <2>2. creates[p]
    BY <1>2, <2>1, AwaitedHasTouched
  <2>3. PICK q \in circle : WaitsFor(p, q)
    BY <1>2
  <2>4. pc[p] # "creating"
    BY <2>2 DEF MigInv, RunnerInv
  <2>5. Touched(q) /\ q # p
    BY <2>3, <2>4, AwaitedHasTouched DEF WaitsFor
  <2>6. AtWork(q)
    BY <2>5 DEF MigInv, RunnerInv, TypeOK, Touched, AtWork
  <2>7. table \/ creates[q]
    BY <2>6 DEF MigInv, RunnerInv, Working
  <2> QED
    BY <2>2, <2>5, <2>7 DEF MigInv, TypeOK
<1>4. PICK q \in circle : WaitsFor(r, q)
  BY <1>2
<1>5. q # r
  BY <1>4 DEF WaitsFor
<1> QED
  BY <1>2, <1>3, <1>5, OneAtATime

\* A runner that is cancelled is beside one that is not of its history.
LEMMA AbortDeadlockKeeps ==
  ASSUME MigInv, NEW r \in Runners, AbortDeadlock(r)
  PROVE  MigInv'
<1>1. ~InStep
  BY NoCircle DEF AbortDeadlock
<1>2. pc[r] \in {"creating", "execute", "record"}
  BY DEF AbortDeadlock, InWaitCycle, Waits, WaitsFor
<1>3. End(r, "deadlock") /\ pc[r] \notin Ended /\ pc[r] # "idle"
  BY <1>2 DEF AbortDeadlock, Ended
<1> QED
  BY <1>1, <1>3, EndStep DEF Ended

--------------------------------------------------------------------------------
(* A runner commits *)

\* Effects without a repeated name, followed by effects in ascending order of
\* names that are not among them, repeat no name.
LEMMA ConcatEffects ==
  ASSUME NEW s \in Seq(Effect), NEW t \in Seq(Effect), Names \subseteq Nat, Ascending(t),
         \A i, j \in DOMAIN s : s[i].name = s[j].name => i = j,
         NamesIn(s) \cap NamesIn(t) = {}
  PROVE  /\ s \o t \in Seq(Effect) /\ Members(s \o t) = Members(s) \cup Members(t)
         /\ \A i, j \in DOMAIN (s \o t) : (s \o t)[i].name = (s \o t)[j].name => i = j
<1> DEFINE u == s \o t
           m == Len(s)
           n == Len(t)
<1>1. /\ u \in Seq(Effect) /\ Len(u) = m + n
      /\ \A i \in 1 .. m + n : u[i] = IF i <= m THEN s[i] ELSE t[i - m]
  BY ConcatProperties
<1>2. /\ m \in Nat /\ n \in Nat /\ DOMAIN s = 1 .. m /\ DOMAIN t = 1 .. n
      /\ DOMAIN u = 1 .. m + n /\ \A i \in 1 .. n : t[i] \in Effect
  BY <1>1, LenProperties, ElementOfSeq
<1> HIDE DEF u, m, n
<1>3. \A i \in 1 .. m + n : \/ i \in 1 .. m /\ u[i] = s[i]
                            \/ i - m \in 1 .. n /\ u[i] = t[i - m]
  BY <1>1, <1>2
<1>4. \A i \in 1 .. m : i \in DOMAIN u /\ u[i] = s[i]
  BY <1>1, <1>2
<1>5. \A i \in 1 .. n : m + i \in DOMAIN u /\ u[m + i] = t[i]
  BY <1>1, <1>2
<1>6. Members(u) = Members(s) \cup Members(t)
  <2>1. Members(u) \subseteq Members(s) \cup Members(t)
    BY <1>2, <1>3 DEF Members
  <2>2. Members(s) \subseteq Members(u)
    BY <1>2, <1>4 DEF Members
  <2>3. Members(t) \subseteq Members(u)
    BY <1>2, <1>5 DEF Members
  <2> QED
    BY <2>1, <2>2, <2>3
<1>7. \A i \in 1 .. n, j \in 1 .. n : t[i].name = t[j].name => i = j
  <2>1. SUFFICES ASSUME NEW i \in 1 .. n, NEW j \in 1 .. n, t[i].name = t[j].name, i # j
                 PROVE  FALSE
    OBVIOUS
  <2>2. t[i].name \in Nat
    BY <1>2 DEF Effect
  <2>3. i < j \/ j < i
    BY <1>2, <2>1
  <2> QED
    BY <1>2, <2>1, <2>2, <2>3 DEF Ascending
<1>8. \A i \in 1 .. m, j \in 1 .. n : s[i].name # t[j].name
  BY <1>2 DEF NamesIn
<1>9. ASSUME NEW i \in DOMAIN u, NEW j \in DOMAIN u, u[i].name = u[j].name PROVE i = j
  <2>1. \/ i \in 1 .. m /\ u[i] = s[i]
        \/ i - m \in 1 .. n /\ u[i] = t[i - m]
    BY <1>2, <1>3
  <2>2. \/ j \in 1 .. m /\ u[j] = s[j]
        \/ j - m \in 1 .. n /\ u[j] = t[j - m]
    BY <1>2, <1>3
  <2>3. CASE i \in 1 .. m /\ u[i] = s[i] /\ j \in 1 .. m /\ u[j] = s[j]
    BY <1>2, <1>9, <2>3
  <2>4. CASE i - m \in 1 .. n /\ u[i] = t[i - m] /\ j - m \in 1 .. n /\ u[j] = t[j - m]
    <3>1. i - m = j - m
      BY <1>7, <1>9, <2>4
    <3> QED
      BY <1>2, <3>1
  <2> QED
    BY <1>8, <1>9, <2>1, <2>2, <2>3, <2>4
<1> QED
  BY <1>1, <1>6, <1>9 DEF u

\* What a runner that finishes commits: every file of its directory that it had
\* not found applied, none of which has a row.
LEMMA Commits ==
  ASSUME MigInv, NEW r \in Runners, Finish(r)
  PROVE  /\ Executed(r) = AppliedBy(r) /\ Recorded(r) = Executed(r)
         /\ Executed(r) = NamesIn(did[r]) /\ Executed(r) \subseteq Names
         /\ Executed(r) \subseteq DOMAIN dir[r] /\ dir[r] \in Checkouts
         /\ Executed(r) = {n \in Names : tracking'[n] # tracking[n]}
         /\ \A n \in Executed(r) :
              tracking[n] = None /\ tracking'[n] = dir[r][n].text /\ dir[r][n].text \in Texts
         /\ \A n \in Names \ Executed(r) : tracking'[n] = tracking[n]
         /\ \A n \in DOMAIN dir[r] : tracking'[n] = dir[r][n].text
         /\ Working(r) /\ DOMAIN dir[r] \subseteq Names
<1>1. TypeOK /\ Working(r) /\ dir[r] \in Checkouts /\ pc[r] = "file" /\ todo[r] = <<>>
  BY DEF MigInv, RunnerInv, Finish, AtWork
<1>2. PICK D \in SUBSET Names : dir[r] \in [D -> File]
  BY <1>1, MigrationsConstants
<1>3. Recorded(r) = Executed(r) /\ Executed(r) = NamesIn(did[r])
  BY <1>1 DEF Recorded, Executed, NamesIn
<1>4. Left(r) = {}
  BY <1>1 DEF Left, Members
<1>5. Executed(r) = AppliedBy(r) /\ Executed(r) \subseteq DOMAIN dir[r]
  BY <1>1, <1>3, <1>4 DEF Working, AppliedBy
<1>6. \A n \in DOMAIN dir[r] : n \in Names /\ dir[r][n].text \in Texts
  BY <1>2 DEF File
<1>7. \A n \in Names : tracking'[n] = IF n \in Executed(r) THEN dir[r][n].text ELSE tracking[n]
  BY DEF Finish, Checksum
<1>8. \A n \in Executed(r) : tracking[n] = None
  BY <1>1, <1>3 DEF Working
<1>9. \A n \in DOMAIN dir[r] : tracking'[n] = dir[r][n].text
  <2>1. SUFFICES ASSUME NEW n \in DOMAIN dir[r], n \notin Executed(r)
                 PROVE  tracking[n] = dir[r][n].text
    BY <1>6, <1>7
  <2>2. already[r][n] # None
    BY <1>5, <1>6, <2>1 DEF AppliedBy
  <2>3. already[r][n] = dir[r][n].text
    BY <1>1, <1>4, <2>2 DEF Working
  <2> QED
    BY <1>1, <1>6, <2>2, <2>3 DEF Working
<1>10. Executed(r) = {n \in Names : tracking'[n] # tracking[n]}
  BY <1>5, <1>6, <1>7, <1>8, MigrationsConstants
<1> QED
  BY <1>1, <1>3, <1>5, <1>6, <1>7, <1>8, <1>9, <1>10

\* Rows that stand are never rewritten, so what other runners know of them stays.
LEMMA FinishOthers ==
  ASSUME MigInv, NEW r \in Runners, Finish(r), NEW q \in Runners \ {r}
  PROVE  RunnerInv(q)' /\ Outcome(q)' /\ Recorded(q)' = Recorded(q) /\ Made(q)' = Made(q)
<1>1. /\ TypeOK /\ Kept(q) /\ RunnerInv(q) /\ Outcome(q) /\ (table => table')
      /\ pc'[r] = "done" /\ pc' = [pc EXCEPT ![r] = "done"] /\ dir' = dir
  BY DEF MigInv, Finish, Goto, Kept, TypeOK
<1>2. /\ Executed(q)' = Executed(q) /\ Recorded(q)' = Recorded(q) /\ Made(q)' = Made(q)
  BY <1>1, KeptRecorded
<1>3. \A n \in Names : \/ tracking[n] # None /\ tracking'[n] = tracking[n]
                       \/ n \notin Executed(r) /\ tracking'[n] = tracking[n]
                       \/ n \in Executed(r) /\ tracking[n] = None
  BY Commits
<1>4. Executed(r) \cap Recorded(q) = {}
  BY Commits DEF MigInv, Apart
<1>5. Left(q)' = Left(q) /\ AppliedBy(q)' = AppliedBy(q) /\ Current(q)' = Current(q)
  BY <1>1 DEF Kept, Left, AppliedBy, Members, Current
<1>6. AtWork(q)' = AtWork(q)
  BY <1>1 DEF Kept, AtWork
<1>7. AtWork(q) => (table \/ creates[q]) /\ DOMAIN dir[q] \subseteq Names
  <2>1. AtWork(q) => Working(q) /\ dir[q] \in Checkouts
    BY <1>1 DEF RunnerInv, AtWork
  <2>2. ASSUME dir[q] \in Checkouts PROVE DOMAIN dir[q] \subseteq Names
    <3>1. PICK D \in SUBSET Names : dir[q] \in [D -> File]
      BY <2>2, MigrationsConstants
    <3> QED
      BY <3>1
  <2> QED
    BY <2>1, <2>2 DEF Working
<1>8. ASSUME Working(q), AtWork(q) PROVE Working(q)'
  <2>1. \A n \in Names : already[q][n] # None => tracking'[n] = already[q][n]
    BY <1>3, <1>8 DEF Working
  <2>2. Recorded(q) \subseteq Names
    BY <1>7, <1>8 DEF Working, AppliedBy
  <2>3. \A n \in Recorded(q) : tracking'[n] = None
    BY <1>3, <1>4, <1>8, <2>2 DEF Working
  <2> QED
    BY <1>1, <1>2, <1>5, <1>8, <2>1, <2>3 DEF Working, Kept, Sorted, Ascending
<1>9. RunnerInv(q)'
  BY <1>1, <1>6, <1>8 DEF RunnerInv, Kept
<1>10. Outcome(q)'
  <2>1. pc[q] # "idle" => dir[q] \in Checkouts
    BY <1>1 DEF RunnerInv
  <2>2. pc[q] # "idle" => \A n \in DOMAIN dir[q] : n \in Names /\ dir[q][n].text \in Texts
    <3>1. SUFFICES ASSUME pc[q] # "idle" PROVE \A n \in DOMAIN dir[q] : n \in Names /\ dir[q][n].text \in Texts
      OBVIOUS
    <3>2. PICK D \in SUBSET Names : dir[q] \in [D -> File]
      BY <2>1, <3>1, MigrationsConstants
    <3> QED
      BY <3>2 DEF File
  <2>3. pc[q] = "done" => \A n \in DOMAIN dir[q] : tracking'[n] = dir[q][n].text
    BY <1>1, <1>3, <2>2, MigrationsConstants DEF Outcome
  <2>4. pc[q] = "refused_changed" =>
          \E n \in DOMAIN dir[q] : tracking'[n] \notin {None, dir[q][n].text}
    BY <1>1, <1>3, <2>2 DEF Outcome, Clashes
  <2>5. pc[q] = "duplicate" => Overtaken(q)'
    <3>1. SUFFICES ASSUME pc[q] = "duplicate" PROVE Overtaken(q)'
      OBVIOUS
    <3>2. Overtaken(q)
      BY <1>1, <3>1 DEF Outcome
    <3>3. r \in Runners \ {q} /\ pc'[r] = "done"
      BY <1>1
    <3>4. \A n \in DOMAIN dir[q] : tracking[n] # None => tracking'[n] # None
      BY <1>3, <2>2, <3>1
    <3> QED
      BY <1>1, <3>2, <3>3, <3>4 DEF Overtaken, Kept
  <2>6. pc[q] = "undefined" => Incomplete(dir[q])'
    BY <1>1 DEF Outcome, Kept, Incomplete
  <2>7. pc[q] = "deadlock" => ~InStep'
    <3>1. \A p \in Runners : pc[p] # "idle" => pc'[p] # "idle" /\ dir'[p] = dir[p]
      BY <1>1 DEF TypeOK
    <3> QED
      BY <1>1, <3>1, StaysOutOfStep DEF Outcome
  <2> QED
    BY <1>1, <2>3, <2>4, <2>5, <2>6, <2>7 DEF Outcome, Clashes, Kept
<1> QED
  BY <1>2, <1>9, <1>10

\* A runner that commits has seen or made the table.
LEMMA FinishTypeOK ==
  ASSUME MigInv, NEW r \in Runners, Finish(r)
  PROVE  TypeOK'
<1>1. TypeOK /\ pc[r] = "file" /\ RunnerInv(r) /\ AtWork(r)
  BY DEF MigInv, Finish, AtWork
<1>2. effects' \in Seq(Effect)
  BY <1>1, ConcatProperties DEF TypeOK, Finish
<1>3. tracking' \in Rows
  <2>1. \A n \in Names : (IF n \in Executed(r) THEN Checksum(dir[r][n]) ELSE tracking[n])
                           \in Texts \cup {None}
    BY <1>1, Commits DEF TypeOK, Rows, Checksum
  <2> QED
    BY <2>1 DEF Finish, Rows
<1>4. /\ pc' = [pc EXCEPT ![r] = "done"] /\ table' = (table \/ creates[r])
      /\ did' = [did EXCEPT ![r] = <<>>] /\ creates' = [creates EXCEPT ![r] = FALSE]
      /\ UNCHANGED <<dir, already, todo, at>>
  BY DEF Finish, Goto
<1>5. did' \in [Runners -> Seq(Effect)] /\ pc'[r] = "done" /\ did'[r] = <<>> /\ ~creates'[r]
  BY <1>1, <1>4, EmptySeq DEF TypeOK
<1>6. table \/ creates[r]
  BY <1>1 DEF RunnerInv, Working
<1>7. table' /\ table' \in BOOLEAN
  BY <1>1, <1>4, <1>6 DEF TypeOK
<1>8. \A q \in Runners : creates'[q] => ~table' /\ \A p \in Runners \ {q} : ~creates'[p]
  BY <1>1, <1>4, <1>6 DEF TypeOK
<1>9. \A q \in Runners : ~Open(q)' => did'[q] = <<>> /\ ~creates'[q]
  BY <1>1, <1>4, <1>5 DEF TypeOK, Open
<1>10. /\ pc' \in [Runners -> Ended \cup {"idle", "tracking", "creating", "applied", "file",
                                          "execute", "record"}]
       /\ creates' \in [Runners -> BOOLEAN]
  BY <1>1, <1>4 DEF TypeOK, Ended
<1>11. ASSUME NEW q \in Runners, at'[q] # 0
       PROVE  pc'[q] = "execute" /\ at'[q] <= Len(Script[FileOf(q)'.text])
  <2>1. q # r /\ pc'[q] = pc[q] /\ FileOf(q)' = FileOf(q)
    BY <1>1, <1>4, <1>11 DEF TypeOK, FileOf, Current
  <2> QED
    BY <1>1, <1>4, <1>11, <2>1 DEF TypeOK
<1> QED
  BY <1>1, <1>2, <1>3, <1>4, <1>5, <1>7, <1>8, <1>9, <1>10, <1>11 DEF TypeOK

\* Effects and rows are committed together.
LEMMA FinishEffects ==
  ASSUME MigInv, NEW r \in Runners, Finish(r)
  PROVE  EffectsMatchTracking'
<1>1. TypeOK /\ EffectsMatchTracking /\ Working(r) /\ effects' = effects \o did[r]
  BY Commits DEF MigInv, Finish
<1>2. effects \in Seq(Effect) /\ did[r] \in Seq(Effect) /\ Ascending(did[r])
  BY <1>1 DEF TypeOK, Working
<1>3. NamesIn(effects) \cap NamesIn(did[r]) = {}
  <2>1. SUFFICES ASSUME NEW i \in DOMAIN effects, effects[i].name \in Executed(r) PROVE FALSE
    BY Commits DEF NamesIn
  <2>2. effects[i] \in Effect
    BY <1>2, ElementOfSeq
  <2>3. Applied(effects[i].name, effects[i].text) /\ effects[i].text \in Texts
    BY <2>2 DEF Applied, Effect
  <2>4. effects[i].name \in Names /\ tracking[effects[i].name] = None
    BY <2>1, Commits
  <2> QED
    BY <1>1, <2>3, <2>4, MigrationsConstants DEF EffectsMatchTracking
<1>4. \A i, j \in DOMAIN effects : effects[i].name = effects[j].name => i = j
  BY <1>1 DEF EffectsMatchTracking
<1>5. /\ Members(effects') = Members(effects) \cup Members(did[r])
      /\ \A i, j \in DOMAIN effects' : effects'[i].name = effects'[j].name => i = j
  BY <1>1, <1>2, <1>3, <1>4, ConcatEffects, MigrationsConstants
<1>6. \A n \in Names, t \in Texts :
        /\ Applied(n, t) <=> [name |-> n, text |-> t] \in Members(effects)
        /\ Applied(n, t)' <=> [name |-> n, text |-> t] \in Members(effects')
  BY DEF Applied, Members
<1>7. \A n \in Names, t \in Texts : [name |-> n, text |-> t] \in Members(did[r])
                                      <=> n \in Executed(r) /\ dir[r][n].text = t
  <2>1. ASSUME NEW n \in Names, NEW t \in Texts, [name |-> n, text |-> t] \in Members(did[r])
        PROVE  n \in Executed(r) /\ dir[r][n].text = t
    <3>1. PICK i \in DOMAIN did[r] : did[r][i] = [name |-> n, text |-> t]
      BY <2>1 DEF Members
    <3>2. did[r][i].name = n /\ did[r][i].text = t
      BY <3>1
    <3> QED
      BY <1>1, <3>2 DEF Working, Executed
  <2>2. ASSUME NEW n \in Executed(r) PROVE [name |-> n, text |-> dir[r][n].text] \in Members(did[r])
    <3>1. PICK i \in DOMAIN did[r] : did[r][i].name = n
      BY <2>2 DEF Executed
    <3>2. did[r][i].text = dir[r][n].text /\ did[r][i] \in Effect
      BY <1>1, <1>2, <3>1, ElementOfSeq DEF Working
    <3>3. did[r][i] = [name |-> n, text |-> dir[r][n].text]
      BY <3>1, <3>2 DEF Effect
    <3> QED
      BY <3>3 DEF Members
  <2> QED
    BY <2>1, <2>2
<1>8. ASSUME NEW n \in Names, NEW t \in Texts PROVE tracking'[n] = t <=> Applied(n, t)'
  <2>1. tracking[n] = t <=> Applied(n, t)
    BY <1>1 DEF EffectsMatchTracking
  <2>2. Applied(n, t)' <=> Applied(n, t) \/ (n \in Executed(r) /\ dir[r][n].text = t)
    BY <1>5, <1>6, <1>7
  <2>3. CASE n \in Executed(r)
    BY <2>1, <2>2, <2>3, Commits, MigrationsConstants
  <2>4. CASE n \notin Executed(r)
    BY <2>1, <2>2, <2>4, Commits
  <2> QED
    BY <2>3, <2>4
<1> QED
  BY <1>5, <1>8 DEF EffectsMatchTracking

\* Files that are committed are files of the runner's checkout, and what they have
\* made is there from now on.
LEMMA FinishMade ==
  ASSUME MigInv, NEW r \in Runners, Finish(r)
  PROVE  EffectsHaveFiles' /\ There' \subseteq There \cup Made(r)
<1>1. /\ TypeOK /\ Working(r) /\ dir[r] \in Checkouts /\ effects' = effects \o did[r]
      /\ EffectsHaveFiles
  BY Commits DEF MigInv, Finish
<1>2. effects \in Seq(Effect) /\ did[r] \in Seq(Effect)
  BY <1>1 DEF TypeOK
<1>3. ASSUME NEW i \in DOMAIN effects'
      PROVE  \/ \E j \in DOMAIN effects : effects'[i] = effects[j]
             \/ \E j \in DOMAIN did[r] : effects'[i] = did[r][j]
  <2> DEFINE u == effects \o did[r]
             m == Len(effects)
             n == Len(did[r])
  <2>1. /\ u \in Seq(Effect) /\ Len(u) = m + n
        /\ \A k \in 1 .. m + n : u[k] = IF k <= m THEN effects[k] ELSE did[r][k - m]
    BY <1>2, ConcatProperties
  <2>2. /\ m \in Nat /\ n \in Nat /\ DOMAIN effects = 1 .. m /\ DOMAIN did[r] = 1 .. n
        /\ DOMAIN u = 1 .. m + n
    BY <1>2, <2>1, LenProperties
  <2>3. effects' = u /\ i \in DOMAIN u
    BY <1>1, <1>3
  <2> HIDE DEF u, m, n
  <2>4. CASE i <= m
    BY <2>1, <2>2, <2>3, <2>4
  <2>5. CASE ~(i <= m)
    <3>1. i - m \in 1 .. n /\ u[i] = did[r][i - m]
      BY <2>1, <2>2, <2>3, <2>5
    <3> QED
      BY <2>2, <2>3, <3>1
  <2> QED
    BY <2>4, <2>5
<1>4. EffectsHaveFiles'
  <2>1. SUFFICES ASSUME NEW i \in DOMAIN effects'
                 PROVE  \E d \in Checkouts : /\ effects'[i].name \in DOMAIN d
                                             /\ effects'[i].text = d[effects'[i].name].text
    BY DEF EffectsHaveFiles
  <2>2. CASE \E j \in DOMAIN effects : effects'[i] = effects[j]
    BY <1>1, <2>2 DEF EffectsHaveFiles
  <2>3. CASE \E j \in DOMAIN did[r] : effects'[i] = did[r][j]
    BY <1>1, <2>3 DEF Working
  <2> QED
    BY <1>3, <2>2, <2>3
<1>5. There' \subseteq There \cup Made(r)
  <2>1. SUFFICES ASSUME NEW o, o \in There' PROVE o \in There \cup Made(r)
    OBVIOUS
  <2>2. PICK i \in DOMAIN effects' : \E s \in StatementsOf(effects'[i].text) : o \in s.makes
    BY <2>1 DEF There, StatementsOf
  <2>3. CASE \E j \in DOMAIN effects : effects'[i] = effects[j]
    BY <2>2, <2>3 DEF There
  <2>4. CASE \E j \in DOMAIN did[r] : effects'[i] = did[r][j]
    BY <2>2, <2>4 DEF Made, Ran
  <2> QED
    BY <1>3, <2>3, <2>4
<1> QED
  BY <1>4, <1>5

\* The end of a run that committed.
LEMMA FinishKeeps ==
  ASSUME MigInv, NEW r \in Runners, Finish(r)
  PROVE  MigInv'
<1>1. TypeOK /\ Apart /\ MadeApart /\ Fresh /\ RunnerInv(r)
  BY DEF MigInv
<1>2. pc'[r] = "done" /\ did'[r] = <<>> /\ at'[r] = 0 /\ dir' = dir
  BY <1>1 DEF TypeOK, Finish, Goto
<1>3. RunnerInv(r)' /\ Outcome(r)' /\ Recorded(r)' = {} /\ Made(r)' = {}
  BY <1>2, Commits, NothingMade DEF RunnerInv, Outcome, AtWork, Recorded, Executed
<1>4. Apart' /\ MadeApart' /\ Fresh'
  <2>1. \A q \in Runners \ {r} : Recorded(q)' = Recorded(q) /\ Made(q)' = Made(q)
    BY FinishOthers
  <2>2. There' \subseteq There \cup Made(r)
    BY FinishMade
  <2>3. \A q \in Runners \ {r} : Made(q) \cap (There \cup Made(r)) = {}
    BY <1>1 DEF MadeApart, Fresh
  <2>4. Fresh'
    BY <1>3, <2>1, <2>2, <2>3 DEF Fresh
  <2> QED
    BY <1>1, <1>3, <2>1, <2>4 DEF Apart, MadeApart
<1>5. TableHasItsRunner'
  BY <1>2 DEF TableHasItsRunner
<1>6. \A q \in Runners : RunnerInv(q)' /\ Outcome(q)'
  BY <1>3, FinishOthers
<1> QED
  BY <1>4, <1>5, <1>6, FinishTypeOK, FinishEffects, FinishMade DEF MigInv

--------------------------------------------------------------------------------
\* The invariant is inductive.
LEMMA NextKeeps == MigInv /\ [Next]_vars => MigInv'
<1> SUFFICES ASSUME MigInv, [Next]_vars PROVE MigInv'
  OBVIOUS
<1>1. CASE UNCHANGED vars
  <2>1. TypeOK'
    BY <1>1 DEF vars, db, MigInv, TypeOK, Open, FileOf, Current
  <2>2. EffectsMatchTracking' /\ EffectsHaveFiles' /\ There' = There
    BY <1>1 DEF vars, db, MigInv, EffectsMatchTracking, Applied, EffectsHaveFiles, There
  <2>3. \A q \in Runners : Kept(q) /\ Recorded(q)' = Recorded(q) /\ Made(q)' = Made(q)
    BY <1>1, KeptRecorded DEF vars, Kept
  <2>4. Apart' /\ MadeApart' /\ Fresh' /\ TableHasItsRunner'
    BY <1>1, <2>2, <2>3 DEF vars, db, MigInv, Apart, MadeApart, Fresh, TableHasItsRunner
  <2>5. ASSUME NEW q \in Runners PROVE RunnerInv(q)' /\ Outcome(q)'
    <3>1. /\ RunnerInv(q) /\ Outcome(q)
          /\ UNCHANGED <<table, tracking, pc, dir, already, todo, did, creates>>
      BY <1>1 DEF vars, db, MigInv
    <3>2. /\ Recorded(q)' = Recorded(q) /\ Executed(q)' = Executed(q) /\ Left(q)' = Left(q)
          /\ AppliedBy(q)' = AppliedBy(q) /\ Current(q)' = Current(q)
      BY <2>3, <3>1, KeptRecorded DEF Left, Members, AppliedBy, Current
    <3>3. Working(q) => Working(q)'
      BY <3>1, <3>2 DEF Working, Sorted, Ascending
    <3>4. RunnerInv(q)'
      BY <3>1, <3>3 DEF RunnerInv, AtWork
    <3>5. Overtaken(q)' = Overtaken(q) /\ Incomplete(dir[q])' = Incomplete(dir[q]) /\ InStep' = InStep
      BY <3>1 DEF Overtaken, Incomplete, InStep
    <3> QED
      BY <3>1, <3>4, <3>5 DEF Outcome, Clashes
  <2> QED
    BY <2>1, <2>2, <2>4, <2>5 DEF MigInv
<1>2. ASSUME NEW r \in Runners, NEW directory \in Checkouts, Start(r, directory) PROVE MigInv'
  BY <1>2, StartKeeps
<1>3. ASSUME NEW r \in Runners, Step(r) PROVE MigInv'
  BY <1>3, LookForTableKeeps, CreateTableKeeps, ReadAppliedKeeps, TakeFileKeeps, ExecuteStatementKeeps,
     FinishFileKeeps, RecordFileKeeps, FinishKeeps, AbortDeadlockKeeps DEF Step
<1>4. ASSUME NEW r \in Runners, Kill(r) PROVE MigInv'
  BY <1>4, KillKeeps
<1> QED
  BY <1>1, <1>2, <1>3, <1>4 DEF Next

\* The invariant holds of every run of the runners.
THEOREM InvariantHolds == Spec => []MigInv
BY InitInv, NextKeeps, PTL DEF Spec

\* Variables keep their types, at most one runner is creating the table, and one
\* that has ended holds nothing: migrate.py's connection is gone with its run.
THEOREM TypeCorrect == Spec => []TypeOK
<1>1. MigInv => TypeOK
  BY DEF MigInv
<1> QED
  BY <1>1, InvariantHolds, PTL

\* Whatever checkouts, runners and failures, the database has had exactly the
\* files schema_migrations names, each once and as its checksum says.
THEOREM FilesAreAppliedOnce == Spec => []EffectsMatchTracking
<1>1. MigInv => EffectsMatchTracking
  BY DEF MigInv
<1> QED
  BY <1>1, InvariantHolds, PTL

\* A runner that ends well has every file of its directory applied as it is
\* there, for good.
THEOREM DoneIsCurrent == Spec => []DoneMeansCurrent
<1>1. ASSUME MigInv PROVE DoneMeansCurrent
  <2>1. SUFFICES ASSUME NEW r \in Runners, pc[r] = "done", NEW n \in DOMAIN dir[r]
                 PROVE  Applied(n, dir[r][n].text)
    BY DEF DoneMeansCurrent
  <2>2. EffectsMatchTracking /\ dir[r] \in Checkouts /\ tracking[n] = dir[r][n].text
    BY <1>1, <2>1 DEF MigInv, RunnerInv, Outcome
  <2>3. PICK D \in SUBSET Names : dir[r] \in [D -> File]
    BY <2>2, MigrationsConstants
  <2>4. n \in Names /\ dir[r][n].text \in Texts
    BY <2>3 DEF File
  <2> QED
    BY <2>2, <2>4 DEF EffectsMatchTracking
<1> QED
  BY <1>1, InvariantHolds, PTL

\* A runner is told that its files have changed only when one has, and raises only
\* over what another made since it looked, over what its directory lacks, or as a
\* deadlock victim beside a checkout that is not of its history.
THEOREM RefusalsHaveTheirCause == Spec => []RefusedForCause
<1>1. ASSUME MigInv PROVE RefusedForCause
  <2>1. ASSUME NEW r \in Runners, pc[r] = "refused_changed"
        PROVE  \E n \in DOMAIN dir[r] : tracking[n] # None /\ ~Applied(n, dir[r][n].text)
    <3>1. EffectsMatchTracking /\ dir[r] \in Checkouts
      BY <1>1, <2>1 DEF MigInv, RunnerInv
    <3>2. PICK n \in DOMAIN dir[r] : Clashes(r, n)
      BY <1>1, <2>1 DEF MigInv, Outcome
    <3>3. PICK D \in SUBSET Names : dir[r] \in [D -> File]
      BY <3>1, MigrationsConstants
    <3>4. n \in Names /\ dir[r][n].text \in Texts
      BY <3>3 DEF File
    <3>5. tracking[n] # None /\ ~Applied(n, dir[r][n].text)
      BY <3>1, <3>2, <3>4 DEF Clashes, EffectsMatchTracking
    <3> QED
      BY <3>5
  <2>2. \A r \in Runners : Outcome(r)
    BY <1>1 DEF MigInv
  <2> QED
    BY <2>1, <2>2 DEF RefusedForCause, Outcome
<1> QED
  BY <1>1, InvariantHolds, PTL

\* Rows and effects move only when a runner finishes, by exactly the files of
\* its directory it had not found applied, in filename order.
THEOREM RunsAreAtomic == Spec => RunIsAtomic
<1> DEFINE Whole ==
      <<tracking, effects>>' # <<tracking, effects>> =>
        \E r \in Runners :
          /\ pc[r] # "done" /\ pc'[r] = "done"
          /\ {n \in Names : tracking'[n] # tracking[n]} = AppliedBy(r)
          /\ effects' = effects \o did[r] /\ Ascending(did[r])
<1>1. ASSUME MigInv, [Next]_vars PROVE [Whole]_vars
  <2>1. SUFFICES ASSUME <<tracking, effects>>' # <<tracking, effects>>
                 PROVE  \E r \in Runners :
                          /\ pc[r] # "done" /\ pc'[r] = "done"
                          /\ {n \in Names : tracking'[n] # tracking[n]} = AppliedBy(r)
                          /\ effects' = effects \o did[r] /\ Ascending(did[r])
    OBVIOUS
  <2>2. PICK r \in Runners : Finish(r)
    BY <1>1, <2>1 DEF Next, vars, db, Start, Step, Kill, End, LookForTable, CreateTable, ReadApplied,
                      TakeFile, NextFile, ExecuteStatement, FinishFile, RecordFile, AbortDeadlock
  <2>3. pc[r] = "file" /\ pc'[r] = "done" /\ effects' = effects \o did[r]
    BY <1>1, <2>2 DEF MigInv, TypeOK, Finish, Goto
  <2>4. {n \in Names : tracking'[n] # tracking[n]} = AppliedBy(r) /\ Ascending(did[r])
    BY <1>1, <2>2, Commits DEF Working
  <2> QED
    BY <2>3, <2>4
<1> QED
  BY <1>1, InvariantHolds, PTL DEF Spec, RunIsAtomic

\* Runners whose checkouts are of one history, whose files each begin by making
\* something, never wait in a circle: deploys of one line of releases, however
\* many overlap, are no deadlock victims.
THEOREM ReleasesTakeTurns == Spec => []NobodyIsStuck
<1>1. MigInv => NobodyIsStuck
  BY NoCircle DEF NobodyIsStuck
<1> QED
  BY <1>1, InvariantHolds, PTL

================================================================================
