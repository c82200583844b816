------------------------ MODULE AutotunerGroup_proofs ------------------------
(***************************************************************************)
(* Proofs about AutotunerGroup, for any number of ranks, profiles, runners *)
(* and tactics and any failures: the inductive invariant IInv, and from it *)
(* that after a reload all ranks serve alike, however they are grouped,    *)
(* that ranks which are one process group reduce the same tactics and      *)
(* choose alike, and that what comes out of a reduction is of the kind and *)
(* within the bounds that its taker relies on.                             *)
(***************************************************************************)
EXTENDS AutotunerGroup, WellFoundedInduction, FiniteSetTheorems, TLAPS

-----------------------------------------------------------------------------
LEMMA Sizes ==
  /\ NProfiles \in Nat \ {0} /\ Len(Tactics) \in Nat \ {0}
  /\ Runners = 1 .. Len(Tactics)
  /\ \A i \in Runners : /\ Len(Tactics[i]) \in Nat
                        /\ DOMAIN Tactics[i] = 1 .. Len(Tactics[i])
                        /\ \A j \in DOMAIN Tactics[i] : Tactics[i][j] \in AllTactics
<1>1. NProfiles \in Nat \ {0} /\ Len(Tactics) \in Nat \ {0} /\ Runners = 1 .. Len(Tactics)
  BY SizesAssumption DEF Runners
<1>2. ASSUME NEW i \in Runners
      PROVE  Len(Tactics[i]) \in Nat /\ DOMAIN Tactics[i] = 1 .. Len(Tactics[i])
  <2>1. Tactics[i] \in Seq(Range(Tactics[i]))
    BY SizesAssumption DEF Runners
  <2> QED BY <2>1
<1>3. ASSUME NEW i \in Runners, NEW j \in DOMAIN Tactics[i]
      PROVE  Tactics[i][j] \in AllTactics
  <2>1. Tactics[i][j] \in Range(Tactics[i])
    BY DEF Range
  <2> QED BY <2>1 DEF AllTactics
<1> QED BY <1>1, <1>2, <1>3

LEMMA Markers == /\ None # Missing /\ None \notin AllTactics /\ Missing \notin AllTactics
                 /\ TRUE # None /\ FALSE # None
BY MarkersAssumption

LEMMA MinIs == ASSUME NEW S \in SUBSET Nat, NEW x \in S, \A y \in S : x <= y
               PROVE  Min(S) = x
<1>1. \A z \in S : (\A y \in S : z <= y) => z = x
  OBVIOUS
<1> QED BY <1>1 DEF Min

\* The natural numbers are well-ordered.
LEMMA Least == ASSUME NEW S \in SUBSET Nat, S # {}
               PROVE  \E x \in S : \A y \in S : x <= y
<1>1. PICK x \in S : \A y \in S : <<y, x>> \notin OpToRel(<, Nat)
  BY WFMin, NatLessThanWellFounded
<1>2. \A y \in S : ~(y < x)
  BY <1>1 DEF OpToRel
<1> QED BY <1>2

LEMMA MinIn == ASSUME NEW S \in SUBSET Nat, S # {}
               PROVE  Min(S) \in S /\ \A y \in S : Min(S) <= y
BY Least DEF Min

-----------------------------------------------------------------------------
\* What an action does, one rank at a time.
Funcs == /\ winners = [q \in Ranks |-> winners[q]] /\ memo = [q \in Ranks |-> memo[q]]
         /\ pc = [q \in Ranks |-> pc[q]] /\ phase = [q \in Ranks |-> phase[q]]
         /\ profile = [q \in Ranks |-> profile[q]] /\ runner = [q \in Ranks |-> runner[q]]
         /\ tactic = [q \in Ranks |-> tactic[q]]
         /\ best = [q \in Ranks |-> best[q]] /\ DOMAIN post = Ranks
         /\ DOMAIN outcome = Ranks /\ DOMAIN choice = Ranks

SameRank(q) == /\ winners'[q] = winners[q] /\ memo'[q] = memo[q]
               /\ pc'[q] = pc[q] /\ phase'[q] = phase[q] /\ profile'[q] = profile[q]
               /\ runner'[q] = runner[q] /\ tactic'[q] = tactic[q] /\ best'[q] = best[q]
               /\ post'[q] = post[q] /\ outcome'[q] = outcome[q] /\ choice'[q] = choice[q]

\* Only rank r's own variables change.
Local(r) == Funcs' /\ groups' = groups /\ \A q \in Ranks \ {r} : SameRank(q)

Placing(r, l, ph, p, i, j, b) ==
  /\ pc'[r] = l /\ phase'[r] = ph /\ profile'[r] = p
  /\ runner'[r] = i /\ tactic'[r] = j /\ best'[r] = b

SameCaches(r) == store' = store /\ winners'[r] = winners[r] /\ memo'[r] = memo[r]
SameReduction(r) == post'[r] = post[r] /\ outcome'[r] = outcome[r]
SameChosen(r) == choice'[r] = choice[r]

ToNext(r) == /\ IF profile[r] < NProfiles
                  THEN Placing(r, "search", phase[r], profile[r] + 1, 1, 1, NoBest)
                  ELSE Placing(r, "search", "final", profile[r], 1, 1, NoBest)
             /\ SameChosen(r)
ToReturn(r, c) == /\ Placing(r, "done", phase[r], profile[r], 1, 1, NoBest)
                  /\ choice'[r] = c
ToHit(r, i, t) == IF phase[r] = "tune" THEN ToNext(r) ELSE ToReturn(r, <<i, t>>)
ToMiss(r) == IF phase[r] = "tune"
             THEN Placing(r, "prepare", phase[r], profile[r], 1, 1, NoBest) /\ SameChosen(r)
             ELSE ToReturn(r, Fallback)

LEMMA TypesFuncs == Types => Funcs
BY DEF Types, Funcs

LEMMA AttachEffect ==
  ASSUME Types, NEW r \in Ranks, Attach(r)
  PROVE  /\ Local(r) /\ pc[r] = "attach"
         /\ Placing(r, "search", phase[r], profile[r], runner[r], tactic[r], best[r])
         /\ store' = store /\ winners'[r] = winners[r] /\ memo'[r] = Hydrated(memo[r])
         /\ SameReduction(r) /\ SameChosen(r)
BY TypesFuncs DEF Types, Attach, Goto, position, reduction, Local, Funcs, SameRank, Placing, SameReduction, SameChosen

LEMMA SearchEffect ==
  ASSUME Types, NEW r \in Ranks, SearchMemory(r)
  PROVE  /\ Local(r) /\ pc[r] = "search"
         /\ IF Remembered(r) # {}
              THEN ToHit(r, Min(Remembered(r)), winners[r][EntryOf(r, Min(Remembered(r)))])
              ELSE Placing(r, "probe", phase[r], profile[r], runner[r], tactic[r], best[r])
                   /\ SameChosen(r)
         /\ SameCaches(r) /\ SameReduction(r)
BY TypesFuncs DEF Types, SearchMemory, Hit, NextProfile, Return, Rewind, Goto, position, reduction, caches, Local, Funcs, SameRank, Placing, SameReduction, SameChosen, SameCaches, ToHit, ToNext, ToReturn


ToTaken(r, e, t) ==
  /\ store' = store /\ memo'[r] = [memo[r] EXCEPT ![e] = t]
  /\ \/ /\ t # Missing /\ winners'[r] = [winners[r] EXCEPT ![e] = t]
        /\ ToHit(r, runner[r], t)
     \/ t = Missing /\ runner[r] = Len(Tactics) /\ winners'[r] = winners[r] /\ ToMiss(r)
     \/ /\ t = Missing /\ runner[r] < Len(Tactics) /\ winners'[r] = winners[r]
        /\ Placing(r, pc[r], phase[r], profile[r], runner[r] + 1, tactic[r], best[r])
        /\ SameChosen(r)
  /\ SameReduction(r)

\* What the memo or the store says of entry e.
Found(r, e) == IF memo[r][e] # None THEN memo[r][e]
               ELSE IF store[e] # None THEN store[e] ELSE Missing

LEMMA TakeEffect ==
  ASSUME Types, NEW r \in Ranks, NEW e, NEW t, Take(r, e, t)
  PROVE  Local(r) /\ ToTaken(r, e, t)
<1> USE TypesFuncs DEF Types, Take, Local, Funcs, SameRank, ToTaken, SameReduction, reduction
<1>1. CASE /\ t # Missing /\ winners' = [winners EXCEPT ![r][e] = t]
           /\ Hit(r, runner[r], t)
  <2>1. CASE phase[r] = "tune" /\ profile[r] < NProfiles
    BY <1>1, <2>1 DEF Hit, NextProfile, Rewind, Goto, Placing, SameChosen, ToHit, ToNext
  <2>2. CASE phase[r] = "tune" /\ ~(profile[r] < NProfiles)
    BY <1>1, <2>2 DEF Hit, NextProfile, Rewind, Goto, Placing, SameChosen, ToHit, ToNext
  <2>3. CASE phase[r] # "tune"
    BY <1>1, <2>3 DEF Hit, Return, Rewind, Goto, Placing, ToHit, ToReturn
  <2> QED BY <2>1, <2>2, <2>3
<1>2. CASE /\ t = Missing /\ runner[r] = Len(Tactics)
           /\ Miss(r) /\ UNCHANGED winners
  BY <1>2 DEF Miss, Return, Rewind, Goto, Placing, SameChosen, ToMiss, ToReturn
<1>3. CASE /\ t = Missing /\ runner[r] < Len(Tactics)
           /\ runner' = [runner EXCEPT ![r] = @ + 1]
           /\ UNCHANGED <<winners, pc, phase, profile, tactic, best, choice>>
  BY <1>3 DEF Placing, SameChosen
<1> QED BY <1>1, <1>2, <1>3

LEMMA ProbeEffect ==
  ASSUME Types, NEW r \in Ranks, ProbeStore(r)
  PROVE  /\ Local(r) /\ pc[r] = "probe"
         /\ ToTaken(r, EntryOf(r, runner[r]), Found(r, EntryOf(r, runner[r])))
BY TakeEffect DEF ProbeStore, Found

LEMMA UnreadableEffect ==
  ASSUME Types, NEW r \in Ranks, Unreadable(r)
  PROVE  /\ Local(r) /\ pc[r] = "probe" /\ phase[r] # "serve" /\ ~Grouped(r)
         /\ ToTaken(r, EntryOf(r, runner[r]), Missing)
BY TakeEffect DEF Unreadable

Entering(r, l) == /\ Placing(r, l, phase[r], profile[r], runner[r], tactic[r], best[r])
                  /\ SameChosen(r) /\ outcome'[r] = outcome[r]
                  /\ SameCaches(r)
                  /\ post'[r] = [at |-> l, profile |-> profile[r], runner |-> runner[r],
                                 tactic |-> tactic[r], value |-> post'[r].value]

LEMMA ReduceEffect ==
  ASSUME Types, NEW r \in Ranks, NEW l, NEW v, Reduce(r, l, v)
  PROVE  Local(r) /\ Entering(r, l)
BY TypesFuncs DEF Types, Reduce, Goto, caches, position, Local, Funcs, SameRank, Entering, Placing, SameChosen, SameCaches

LEMMA EnterEffect ==
  ASSUME Types, NEW r \in Ranks, PrepareInputs(r) \/ PrepareRunner(r) \/ ProfileTactic(r)
  PROVE  /\ Local(r)
         /\ \/ pc[r] = "prepare" /\ Entering(r, "inputs")
            \/ pc[r] = "runner" /\ Entering(r, "prepared")
            \/ pc[r] = "profile" /\ Entering(r, "timed")
BY ReduceEffect DEF PrepareInputs, PrepareRunner, ProfileTactic

LEMMA OutOfMemoryEffect ==
  ASSUME Types, NEW r \in Ranks, OutOfMemory(r)
  PROVE  /\ Local(r) /\ pc[r] = "profile" /\ ~Grouped(r)
         /\ ToReturn(r, Fallback) /\ SameCaches(r) /\ SameReduction(r)
BY TypesFuncs DEF Types, OutOfMemory, Return, Rewind, Goto, caches, reduction, Local, Funcs, SameRank, ToReturn, Placing, SameCaches, SameReduction

Leaving(r, l) == /\ pc[r] = l /\ outcome[r] # None /\ outcome'[r] = None
                 /\ post'[r] = post[r] /\ SameCaches(r)

LEMMA GiveUpEffect ==
  ASSUME Types, NEW r \in Ranks, GiveUp(r)
  PROVE  /\ Local(r) /\ (Leaving(r, "inputs") \/ Leaving(r, "prepared"))
         /\ outcome[r] /\ ToReturn(r, Fallback)
BY TypesFuncs DEF Types, GiveUp, Leave, Return, Rewind, Goto, caches, Local, Funcs, SameRank, ToReturn, Placing, SameCaches, Leaving

\* On to runner i, with candidate b as the best so far; on to tactic j.
OnToRunner(r, i, b) ==
  /\ Placing(r, IF i <= Len(Tactics) THEN "runner" ELSE "publish",
             phase[r], profile[r], i, tactic[r], b)
  /\ SameChosen(r)
OnToTactic(r, j, b) ==
  IF j <= Len(Tactics[runner[r]])
    THEN Placing(r, "profile", phase[r], profile[r], runner[r], j, b) /\ SameChosen(r)
    ELSE OnToRunner(r, runner[r] + 1, b)

LEMMA StartProfileEffect ==
  ASSUME Types, NEW r \in Ranks, StartProfile(r)
  PROVE  /\ Local(r) /\ Leaving(r, "inputs") /\ ~outcome[r]
         /\ OnToRunner(r, 1, best[r])
BY TypesFuncs DEF Types, StartProfile, Leave, ToRunner, Goto, caches, Local, Funcs, SameRank, OnToRunner, Placing, SameCaches, SameChosen, Leaving

LEMMA StartRunnerEffect ==
  ASSUME Types, NEW r \in Ranks, StartRunner(r)
  PROVE  /\ Local(r) /\ Leaving(r, "prepared") /\ ~outcome[r]
         /\ OnToTactic(r, 1, best[r])
BY TypesFuncs DEF Types, StartRunner, Leave, ToTactic, ToRunner, Goto, caches, Local, Funcs, SameRank, OnToTactic, OnToRunner, Placing, SameCaches, SameChosen, Leaving

LEMMA JudgeEffect ==
  ASSUME Types, NEW r \in Ranks, Judge(r)
  PROVE  /\ Local(r) /\ Leaving(r, "timed")
         /\ OnToTactic(r, tactic[r] + 1, Judged(r))
<1>1. best' = [best EXCEPT ![r] = Judged(r)]
  BY DEF Types, Judge, Judged
<1> QED BY <1>1, TypesFuncs DEF Types, Judge, Leave, ToTactic, ToRunner, Goto, caches, Local, Funcs, SameRank, OnToTactic, OnToRunner, Placing, SameCaches, SameChosen, Leaving

Publishing(r, e) ==
  /\ winners'[r] = [winners[r] EXCEPT ![e] = best[r].tactic]
  /\ \/ /\ store' = [store EXCEPT ![e] = best[r].tactic]
        /\ memo'[r] = [memo[r] EXCEPT ![e] = best[r].tactic]
     \/ store' = store /\ memo'[r] = memo[r]

LEMMA PublishEffect ==
  ASSUME Types, NEW r \in Ranks, Publish(r)
  PROVE  /\ Local(r) /\ pc[r] = "publish" /\ ToNext(r) /\ SameReduction(r)
         /\ IF best[r].runner = 0 THEN SameCaches(r)
                                  ELSE Publishing(r, <<profile[r], best[r].runner>>)
<1> USE TypesFuncs DEF Types, Publish, NextProfile, Goto, Rewind, caches, reduction, Local, Funcs, SameRank, ToNext, Placing, SameCaches, SameReduction, SameChosen, Publishing
<1>1. CASE best[r].runner = 0
  BY <1>1
<1>2. CASE best[r].runner # 0
  <2> DEFINE e == <<profile[r], best[r].runner>>
  <2>1. \/ winners' = [winners EXCEPT ![r][e] = best[r].tactic]
           /\ store' = [store EXCEPT ![e] = best[r].tactic]
           /\ memo' = [memo EXCEPT ![r][e] = best[r].tactic]
        \/ winners' = [winners EXCEPT ![r][e] = best[r].tactic]
           /\ store' = store /\ memo' = memo
    BY <1>2
  <2> HIDE DEF e
  <2>2. /\ Funcs' /\ groups' = groups /\ \A q \in Ranks \ {r} : SameRank(q)
        /\ Publishing(r, e)
    BY <2>1
  <2> QED BY <1>2, <2>2 DEF e
<1> QED BY <1>1, <1>2

LEMMA ReloadEffect ==
  ASSUME Types, NEW r \in Ranks, Reload(r)
  PROVE  /\ Local(r) /\ pc[r] = "done" /\ phase[r] # "serve"
         /\ \A q \in Ranks : pc[q] = "done" \/ phase[q] = "serve"
         /\ Placing(r, "search", "serve", NProfiles, runner[r], tactic[r], best[r])
         /\ choice'[r] = None /\ store' = store /\ SameReduction(r)
         /\ winners'[r] = [e \in Entries |-> None] /\ memo'[r] = Hydrated(Forgotten(r))
BY TypesFuncs DEF Types, Reload, Goto, position, reduction, Local, Funcs, SameRank, Placing, SameReduction

LEMMA CompleteEffect ==
  ASSUME Types, NEW g \in groups, Complete(g)
  PROVE  /\ Funcs' /\ groups' = groups /\ store' = store
         /\ \A r \in Ranks :
              /\ Placing(r, pc[r], phase[r], profile[r], runner[r], tactic[r], best[r])
              /\ SameCaches(r) /\ SameChosen(r)
              /\ IF r \in g
                   THEN /\ post[r] # None /\ post'[r] = None
                        /\ outcome'[r] = IF post[r].at = "timed" THEN Time(r, g) ELSE Oom(r, g)
                   ELSE SameReduction(r)
         /\ \A q, r \in g : (post[q].at = "timed") = (post[r].at = "timed")
BY TypesFuncs DEF Types, Complete, caches, position, Funcs, Placing, SameCaches, SameChosen, SameReduction

-----------------------------------------------------------------------------
\* Types.
TypesAt(r) ==
  /\ winners[r] \in [Entries -> {None} \cup AllTactics]
  /\ memo[r] \in [Entries -> {None, Missing} \cup AllTactics]
  /\ pc[r] \in {"attach", "search", "probe", "prepare", "inputs", "runner", "prepared",
                "profile", "timed", "publish", "done"}
  /\ phase[r] \in {"tune", "final", "serve"}
  /\ profile[r] \in Profiles
  /\ runner[r] \in 1 .. Len(Tactics) + 1 /\ tactic[r] \in Nat \ {0}
  /\ \/ best[r].runner = 0
     \/ best[r].runner \in Runners /\ best[r].tactic \in AllTactics

LEMMA TypesHere == ASSUME Types, NEW r \in Ranks PROVE TypesAt(r)
BY DEF Types, TypesAt

LEMMA LocalTypes ==
  ASSUME Types, NEW r \in Ranks, Local(r), TypesAt(r)',
         store' \in [Entries -> {None} \cup AllTactics]
  PROVE  Types'
<1>1. Funcs' /\ groups' = groups
  BY DEF Local
<1>2. ASSUME NEW q \in Ranks PROVE TypesAt(q)'
  <2>1. CASE q = r
    BY <2>1
  <2>2. CASE q # r
    BY <2>2, TypesHere DEF Local, SameRank, TypesAt
  <2> QED BY <2>1, <2>2
<1>3. groups' \in Groupings
  BY <1>1 DEF Types
<1>4. \A q \in Ranks : \/ best'[q].runner = 0
                       \/ best'[q].runner \in Runners /\ best'[q].tactic \in AllTactics
  BY <1>2 DEF TypesAt
<1>5. /\ winners' \in [Ranks -> [Entries -> {None} \cup AllTactics]]
      /\ memo' \in [Ranks -> [Entries -> {None, Missing} \cup AllTactics]]
  BY <1>1, <1>2 DEF TypesAt, Funcs
<1>6. /\ pc' \in [Ranks -> {"attach", "search", "probe", "prepare", "inputs", "runner",
                            "prepared", "profile", "timed", "publish", "done"}]
      /\ phase' \in [Ranks -> {"tune", "final", "serve"}]
      /\ profile' \in [Ranks -> Profiles]
      /\ runner' \in [Ranks -> 1 .. Len(Tactics) + 1]
      /\ tactic' \in [Ranks -> Nat \ {0}]
  BY <1>1, <1>2 DEF TypesAt, Funcs
<1>7. /\ best' = [q \in Ranks |-> best'[q]] /\ DOMAIN post' = Ranks
      /\ DOMAIN outcome' = Ranks /\ DOMAIN choice' = Ranks
  BY <1>1 DEF Funcs
<1> QED BY <1>3, <1>4, <1>5, <1>6, <1>7 DEF Types

LEMMA EntryFacts ==
  ASSUME Types, NEW r \in Ranks, NEW i \in Runners
  PROVE  EntryOf(r, i) \in Entries /\ <<profile[r], i>> \in Entries
BY DEF Types, EntryOf, Entries

\* The steps that only move a rank, with what it then is.
LEMMA NextTypes ==
  ASSUME Types, NEW r \in Ranks
  PROVE  /\ ToNext(r) => /\ pc'[r] \in {"search"} /\ phase'[r] \in {"tune", "final", "serve"}
                         /\ profile'[r] \in Profiles /\ runner'[r] = 1 /\ tactic'[r] = 1
                         /\ best'[r] = NoBest
         /\ \A c : ToReturn(r, c) =>
              /\ pc'[r] = "done" /\ phase'[r] = phase[r] /\ profile'[r] = profile[r]
              /\ runner'[r] = 1 /\ tactic'[r] = 1 /\ best'[r] = NoBest
BY Sizes, TypesHere DEF TypesAt, ToNext, ToReturn, Placing, Profiles

LEMMA TakenTypes ==
  ASSUME Types, NEW r \in Ranks, Local(r), pc[r] = "probe", runner[r] \in Runners,
         tactic[r] = 1, best[r] = NoBest,
         NEW t \in AllTactics \cup {Missing}, ToTaken(r, EntryOf(r, runner[r]), t)
  PROVE  Types'
<1> USE Sizes, Markers, TypesHere, EntryFacts
<1>1. /\ winners'[r] \in [Entries -> {None} \cup AllTactics]
      /\ memo'[r] \in [Entries -> {None, Missing} \cup AllTactics]
      /\ store' \in [Entries -> {None} \cup AllTactics]
  <2>1. /\ winners[r] \in [Entries -> {None} \cup AllTactics]
        /\ memo[r] \in [Entries -> {None, Missing} \cup AllTactics]
        /\ store \in [Entries -> {None} \cup AllTactics]
    BY DEF TypesAt, Types
  <2>2. store' = store /\ memo'[r] = [memo[r] EXCEPT ![EntryOf(r, runner[r])] = t]
    BY DEF ToTaken
  <2>3. \/ winners'[r] = winners[r]
        \/ t # Missing /\ winners'[r] = [winners[r] EXCEPT ![EntryOf(r, runner[r])] = t]
    BY DEF ToTaken
  <2>4. winners'[r] \in [Entries -> {None} \cup AllTactics]
    BY <2>1, <2>3
  <2>5. memo'[r] \in [Entries -> {None, Missing} \cup AllTactics]
    BY <2>1, <2>2
  <2> QED BY <2>1, <2>2, <2>4, <2>5
<1>2. /\ pc'[r] \in {"search", "probe", "prepare", "done"}
      /\ phase'[r] \in {"tune", "final", "serve"}
      /\ profile'[r] \in Profiles /\ runner'[r] \in 1 .. Len(Tactics) + 1
      /\ tactic'[r] = 1 /\ best'[r] = NoBest
  BY NextTypes DEF ToTaken, ToHit, ToMiss, Placing, TypesAt
<1>3. NoBest.runner = 0
  BY DEF NoBest
<1> QED BY <1>1, <1>2, <1>3, LocalTypes DEF TypesAt

LEMMA FoundTypes ==
  ASSUME Types, NEW r \in Ranks, NEW e \in Entries
  PROVE  Found(r, e) \in AllTactics \cup {Missing}
BY Markers DEF Types, Found

LEMMA HydratedTypes ==
  ASSUME Types, NEW m
  PROVE  /\ m \in [Entries -> {None, Missing} \cup AllTactics] =>
              Hydrated(m) \in [Entries -> {None, Missing} \cup AllTactics]
BY DEF Hydrated, Types

LEMMA CacheTypes ==
  ASSUME Types, NEW r \in Ranks, SameCaches(r)
  PROVE  /\ winners'[r] \in [Entries -> {None} \cup AllTactics]
         /\ memo'[r] \in [Entries -> {None, Missing} \cup AllTactics]
         /\ store' \in [Entries -> {None} \cup AllTactics]
<1>1. TypesAt(r) /\ store \in [Entries -> {None} \cup AllTactics]
  BY TypesHere DEF Types
<1> QED BY <1>1 DEF TypesAt, SameCaches

LEMMA JudgedTypes ==
  ASSUME Types, Placed, NEW r \in Ranks, pc[r] = "timed"
  PROVE  \/ Judged(r).runner = 0
         \/ Judged(r).runner \in Runners /\ Judged(r).tactic \in AllTactics
<1>1. runner[r] \in Runners /\ tactic[r] \in DOMAIN Tactics[runner[r]]
  BY DEF Placed, PlacedAt
<1>2. Tactics[runner[r]][tactic[r]] \in AllTactics
  BY <1>1, Sizes
<1> QED BY <1>1, <1>2 DEF Judged, Types

LEMMA TypesStep == ASSUME Types, Placed, NEW r \in Ranks, Step(r) PROVE Types'
<1> USE Sizes, TypesHere
<1>0. PlacedAt(r) /\ NoBest.runner = 0
  BY DEF Placed, NoBest
<1>1. CASE Attach(r)
  <2>1. /\ Local(r) /\ store' = store /\ winners'[r] = winners[r]
        /\ memo'[r] = Hydrated(memo[r])
        /\ Placing(r, "search", phase[r], profile[r], runner[r], tactic[r], best[r])
    BY <1>1, AttachEffect
  <2>2. memo'[r] \in [Entries -> {None, Missing} \cup AllTactics]
    BY <2>1, HydratedTypes DEF TypesAt
  <2>3. TypesAt(r)'
    BY <2>1, <2>2 DEF TypesAt, Placing
  <2> QED BY <2>1, <2>3, LocalTypes DEF Types
<1>2. CASE SearchMemory(r)
  <2>1. SameCaches(r) /\ Local(r)
    BY <1>2, SearchEffect
  <2>2. TypesAt(r)'
    <3>1. CASE Remembered(r) # {}
      <4>1. ToNext(r) \/ \E c : ToReturn(r, c)
        BY <1>2, <3>1, SearchEffect DEF ToHit
      <4>2. /\ pc'[r] \in {"search", "done"} /\ phase'[r] \in {"tune", "final", "serve"}
            /\ profile'[r] \in Profiles /\ runner'[r] = 1 /\ tactic'[r] = 1
            /\ best'[r] = NoBest
        BY <4>1, NextTypes DEF TypesAt
      <4> QED BY <1>0, <2>1, <4>2, CacheTypes DEF TypesAt
    <3>2. CASE Remembered(r) = {}
      <4>1. Placing(r, "probe", phase[r], profile[r], runner[r], tactic[r], best[r])
        BY <1>2, <3>2, SearchEffect
      <4> QED BY <2>1, <4>1, CacheTypes DEF Placing, TypesAt
    <3> QED BY <3>1, <3>2
  <2> QED BY <2>1, <2>2, CacheTypes, LocalTypes
<1>3. CASE ProbeStore(r)
  <2>1. runner[r] \in Runners /\ tactic[r] = 1 /\ best[r] = NoBest
    BY <1>0, <1>3, ProbeEffect DEF PlacedAt
  <2> QED BY <1>3, <2>1, ProbeEffect, EntryFacts, FoundTypes, TakenTypes
<1>4. CASE Unreadable(r)
  <2>1. runner[r] \in Runners /\ tactic[r] = 1 /\ best[r] = NoBest
    BY <1>0, <1>4, UnreadableEffect DEF PlacedAt
  <2> QED BY <1>4, <2>1, UnreadableEffect, TakenTypes
<1>5. CASE PrepareInputs(r) \/ PrepareRunner(r) \/ ProfileTactic(r)
  <2>1. PICK l \in Waiting : Local(r) /\ Entering(r, l)
    BY <1>5, EnterEffect DEF Waiting
  <2>2. TypesAt(r)'
    BY <2>1, CacheTypes DEF Entering, Placing, TypesAt, Waiting
  <2> QED BY <2>1, <2>2, CacheTypes, LocalTypes DEF Entering
<1>6. CASE OutOfMemory(r) \/ GiveUp(r)
  <2>1. Local(r) /\ SameCaches(r) /\ ToReturn(r, Fallback)
    BY <1>6, OutOfMemoryEffect, GiveUpEffect DEF Leaving
  <2>2. TypesAt(r)'
    BY <1>0, <2>1, NextTypes, CacheTypes DEF TypesAt
  <2> QED BY <2>1, <2>2, CacheTypes, LocalTypes
<1>7. CASE StartProfile(r)
  <2>1. Local(r) /\ SameCaches(r) /\ OnToRunner(r, 1, best[r])
    BY <1>7, StartProfileEffect DEF Leaving
  <2>2. TypesAt(r)'
    BY <2>1, CacheTypes DEF TypesAt, OnToRunner, Placing
  <2> QED BY <2>1, <2>2, CacheTypes, LocalTypes
<1>8. CASE StartRunner(r) \/ Judge(r)
  <2>1. PICK j \in Nat \ {0}, b \in {best[r], Judged(r)} :
          /\ Local(r) /\ pc[r] \in {"prepared", "timed"} /\ SameCaches(r)
          /\ OnToTactic(r, j, b)
          /\ b # best[r] => pc[r] = "timed" /\ b = Judged(r)
    <3>1. 1 \in Nat \ {0} /\ tactic[r] + 1 \in Nat \ {0}
      BY DEF TypesAt
    <3>2. CASE StartRunner(r)
      BY <3>1, <3>2, StartRunnerEffect DEF Leaving
    <3>3. CASE Judge(r)
      BY <3>1, <3>3, JudgeEffect DEF Leaving
    <3> QED BY <1>8, <3>2, <3>3
  <2>2. runner[r] \in Runners
    BY <1>0, <2>1 DEF PlacedAt
  <2>3. /\ pc'[r] \in {"profile", "runner", "publish"} /\ best'[r] = b
        /\ phase'[r] = phase[r] /\ profile'[r] = profile[r]
        /\ runner'[r] \in 1 .. Len(Tactics) + 1 /\ tactic'[r] \in Nat \ {0}
    BY <2>1, <2>2 DEF TypesAt, OnToTactic, OnToRunner, Placing
  <2>4. b.runner = 0 \/ (b.runner \in Runners /\ b.tactic \in AllTactics)
    BY <2>1, JudgedTypes DEF TypesAt
  <2> QED BY <2>1, <2>3, <2>4, CacheTypes, LocalTypes DEF TypesAt
<1>9. CASE Publish(r)
  <2>1. /\ winners'[r] \in [Entries -> {None} \cup AllTactics]
        /\ memo'[r] \in [Entries -> {None, Missing} \cup AllTactics]
        /\ store' \in [Entries -> {None} \cup AllTactics]
    <3>1. CASE best[r].runner = 0
      BY <1>9, <3>1, PublishEffect, CacheTypes
    <3>2. CASE best[r].runner # 0
      <4> DEFINE e == <<profile[r], best[r].runner>>
      <4>1. best[r].runner \in Runners /\ best[r].tactic \in AllTactics
        BY <3>2 DEF TypesAt
      <4>2. e \in Entries
        BY <4>1, EntryFacts
      <4>3. Publishing(r, e)
        BY <1>9, <3>2, PublishEffect
      <4> HIDE DEF e
      <4>4. /\ winners[r] \in [Entries -> {None} \cup AllTactics]
            /\ memo[r] \in [Entries -> {None, Missing} \cup AllTactics]
            /\ store \in [Entries -> {None} \cup AllTactics]
        BY DEF TypesAt, Types
      <4>5. winners'[r] \in [Entries -> {None} \cup AllTactics]
        BY <4>1, <4>2, <4>3, <4>4 DEF Publishing
      <4>6. memo'[r] \in [Entries -> {None, Missing} \cup AllTactics]
        BY <4>1, <4>2, <4>3, <4>4 DEF Publishing
      <4>7. store' \in [Entries -> {None} \cup AllTactics]
        BY <4>1, <4>2, <4>3, <4>4 DEF Publishing
      <4> QED BY <4>5, <4>6, <4>7
    <3> QED BY <3>1, <3>2
  <2>2. /\ pc'[r] = "search" /\ phase'[r] \in {"tune", "final", "serve"}
        /\ profile'[r] \in Profiles /\ runner'[r] = 1 /\ tactic'[r] = 1
        /\ best'[r] = NoBest /\ Local(r)
    BY <1>9, PublishEffect, NextTypes
  <2>3. TypesAt(r)'
    BY <1>0, <2>1, <2>2 DEF TypesAt
  <2> QED BY <2>1, <2>2, <2>3, LocalTypes
<1>10. CASE Reload(r)
  <2>1. Hydrated(Forgotten(r)) \in [Entries -> {None, Missing} \cup AllTactics]
    BY HydratedTypes DEF Forgotten
  <2>2. /\ Local(r) /\ store' = store /\ winners'[r] = [e \in Entries |-> None]
        /\ memo'[r] = Hydrated(Forgotten(r))
        /\ Placing(r, "search", "serve", NProfiles, runner[r], tactic[r], best[r])
    BY <1>10, ReloadEffect
  <2>3. TypesAt(r)'
    BY <2>1, <2>2 DEF TypesAt, Placing, Profiles
  <2> QED BY <2>2, <2>3, LocalTypes DEF Types
<1> QED BY <1>1, <1>2, <1>3, <1>4, <1>5, <1>6, <1>7, <1>8, <1>9, <1>10 DEF Step

-----------------------------------------------------------------------------
\* Where a rank is.
LEMMA PlacedOthers ==
  ASSUME Placed, NEW r \in Ranks, Local(r), NEW q \in Ranks \ {r}
  PROVE  PlacedAt(q)'
BY DEF Placed, Local, SameRank, PlacedAt

LEMMA NextPlaced ==
  ASSUME Types, NEW r \in Ranks, PlacedAt(r), SameReduction(r),
         post[r] = None, outcome[r] = None,
         (phase[r] = "tune" /\ ToNext(r)) \/ \E c : ToReturn(r, c)
  PROVE  PlacedAt(r)'
<1>1. /\ pc'[r] \in {"search", "done"} /\ runner'[r] = 1 /\ tactic'[r] = 1
      /\ best'[r] = NoBest /\ post'[r] = None /\ outcome'[r] = None
  BY DEF ToNext, ToReturn, Placing, SameReduction
<1>2. phase'[r] # "tune" => profile'[r] = NProfiles
  BY Sizes, TypesHere DEF ToNext, ToReturn, Placing, PlacedAt, TypesAt, Profiles
<1> QED BY <1>1, <1>2 DEF PlacedAt

LEMMA TakenPlaced ==
  ASSUME Types, NEW r \in Ranks, PlacedAt(r), pc[r] = "probe",
         NEW e, NEW t, ToTaken(r, e, t)
  PROVE  PlacedAt(r)'
<1>1. SameReduction(r) /\ post[r] = None /\ outcome[r] = None
  BY DEF ToTaken, PlacedAt, Waiting
<1>2. CASE t # Missing
  <2>1. ToHit(r, runner[r], t)
    BY <1>2 DEF ToTaken
  <2>2. (phase[r] = "tune" /\ ToNext(r)) \/ \E c : ToReturn(r, c)
    BY <2>1 DEF ToHit
  <2> QED BY <1>1, <2>2, NextPlaced
<1>3. CASE t = Missing /\ ToMiss(r)
  <2>1. CASE phase[r] = "tune"
    BY <1>1, <1>3, <2>1 DEF ToMiss, Placing, PlacedAt, SameReduction
  <2>2. CASE phase[r] # "tune"
    BY <1>1, <1>3, <2>2, NextPlaced DEF ToMiss
  <2> QED BY <2>1, <2>2
<1>4. CASE /\ runner[r] < Len(Tactics)
           /\ Placing(r, pc[r], phase[r], profile[r], runner[r] + 1, tactic[r], best[r])
  <2>1. runner[r] + 1 \in Runners
    BY <1>4, Sizes DEF PlacedAt
  <2> QED BY <1>1, <1>4, <2>1 DEF Placing, PlacedAt, SameReduction
<1> QED BY <1>2, <1>3, <1>4 DEF ToTaken

LEMMA OnPlaced ==
  ASSUME Types, NEW r \in Ranks, PlacedAt(r), phase[r] = "tune",
         post'[r] = None, outcome'[r] = None
  PROVE  /\ \A b : \A i \in 1 .. Len(Tactics) + 1 : OnToRunner(r, i, b) => PlacedAt(r)'
         /\ \A b : \A j \in Nat \ {0} :
              runner[r] \in Runners /\ OnToTactic(r, j, b) => PlacedAt(r)'
<1>1. ASSUME NEW b, NEW i \in 1 .. Len(Tactics) + 1, OnToRunner(r, i, b)
      PROVE  PlacedAt(r)'
  <2>1. i <= Len(Tactics) => i \in Runners
    BY Sizes
  <2> QED BY <1>1, <2>1 DEF OnToRunner, Placing, PlacedAt
<1>2. ASSUME NEW b, NEW j \in Nat \ {0}, runner[r] \in Runners, OnToTactic(r, j, b)
      PROVE  PlacedAt(r)'
  <2>1. CASE j <= Len(Tactics[runner[r]])
    <3>1. j \in DOMAIN Tactics[runner[r]]
      BY <1>2, <2>1, Sizes
    <3> QED BY <1>2, <2>1, <3>1 DEF OnToTactic, Placing, PlacedAt
  <2>2. CASE ~(j <= Len(Tactics[runner[r]]))
    <3>1. runner[r] + 1 \in 1 .. Len(Tactics) + 1
      BY <1>2, Sizes
    <3> QED BY <1>1, <1>2, <2>2, <3>1 DEF OnToTactic
  <2> QED BY <2>1, <2>2
<1> QED BY <1>1, <1>2

LEMMA PlacedStep == ASSUME Types, Placed, NEW r \in Ranks, Step(r) PROVE PlacedAt(r)'
<1>0. PlacedAt(r) /\ TypesAt(r) /\ Len(Tactics) \in Nat \ {0}
  BY TypesHere, Sizes DEF Placed
<1>1. CASE Attach(r)
  BY <1>0, <1>1, AttachEffect DEF Placing, SameReduction, PlacedAt, Waiting
<1>2. CASE SearchMemory(r)
  <2>1. SameReduction(r) /\ post[r] = None /\ outcome[r] = None /\ pc[r] = "search"
    BY <1>0, <1>2, SearchEffect DEF PlacedAt, Waiting
  <2>2. CASE Remembered(r) # {}
    <3>1. (phase[r] = "tune" /\ ToNext(r)) \/ \E c : ToReturn(r, c)
      BY <1>2, <2>2, SearchEffect DEF ToHit
    <3> QED BY <1>0, <2>1, <3>1, NextPlaced
  <2>3. CASE Remembered(r) = {}
    <3>1. Placing(r, "probe", phase[r], profile[r], runner[r], tactic[r], best[r])
      BY <1>2, <2>3, SearchEffect
    <3>2. 1 \in Runners
      BY Sizes
    <3> QED BY <1>0, <2>1, <3>1, <3>2 DEF Placing, SameReduction, PlacedAt
  <2> QED BY <2>2, <2>3
<1>3. CASE ProbeStore(r)
  BY <1>0, <1>3, ProbeEffect, TakenPlaced
<1>4. CASE Unreadable(r)
  BY <1>0, <1>4, UnreadableEffect, TakenPlaced
<1>5. CASE PrepareInputs(r) \/ PrepareRunner(r) \/ ProfileTactic(r)
  <2>1. PICK l \in Waiting : Entering(r, l)
    BY <1>5, EnterEffect DEF Waiting
  <2>2. /\ l = "inputs" => pc[r] = "prepare"
        /\ l = "prepared" => pc[r] = "runner"
        /\ l = "timed" => pc[r] = "profile"
    BY <1>5, <2>1, EnterEffect DEF Entering, Placing
  <2>3. CASE l = "inputs"
    BY <1>0, <2>1, <2>2, <2>3 DEF Entering, Placing, PlacedAt, Waiting
  <2>4. CASE l = "prepared"
    BY <1>0, <2>1, <2>2, <2>4 DEF Entering, Placing, PlacedAt, Waiting
  <2>5. CASE l = "timed"
    BY <1>0, <2>1, <2>2, <2>5 DEF Entering, Placing, PlacedAt, Waiting
  <2> QED BY <2>3, <2>4, <2>5 DEF Waiting
<1>6. CASE OutOfMemory(r) \/ GiveUp(r)
  <2>1. ToReturn(r, Fallback)
    BY <1>6, OutOfMemoryEffect, GiveUpEffect
  <2>2. post'[r] = None /\ outcome'[r] = None
    BY <1>0, <1>6, OutOfMemoryEffect, GiveUpEffect DEF PlacedAt, Waiting, Leaving, SameReduction
  <2>3. phase[r] = "tune"
    BY <1>0, <1>6, OutOfMemoryEffect, GiveUpEffect DEF PlacedAt, Leaving
  <2> QED BY <2>1, <2>2, <2>3 DEF PlacedAt, ToReturn, Placing
<1>7. CASE StartProfile(r)
  <2>1. Leaving(r, "inputs") /\ OnToRunner(r, 1, best[r])
    BY <1>7, StartProfileEffect
  <2>2. phase[r] = "tune" /\ post'[r] = None /\ outcome'[r] = None /\ 1 \in 1 .. Len(Tactics) + 1
    BY <1>0, <2>1 DEF Leaving, PlacedAt
  <2> QED BY <1>0, <2>1, <2>2, OnPlaced
<1>8. CASE StartRunner(r)
  <2>1. Leaving(r, "prepared") /\ OnToTactic(r, 1, best[r])
    BY <1>8, StartRunnerEffect
  <2>2. phase[r] = "tune" /\ post'[r] = None /\ outcome'[r] = None /\ runner[r] \in Runners /\ 1 \in Nat \ {0}
    BY <1>0, <2>1 DEF Leaving, PlacedAt
  <2> QED BY <1>0, <2>1, <2>2, OnPlaced
<1>9. CASE Judge(r)
  <2>1. Leaving(r, "timed") /\ OnToTactic(r, tactic[r] + 1, Judged(r))
    BY <1>9, JudgeEffect
  <2>2. /\ phase[r] = "tune" /\ post'[r] = None /\ outcome'[r] = None /\ runner[r] \in Runners
        /\ tactic[r] + 1 \in Nat \ {0}
    BY <1>0, <2>1 DEF Leaving, PlacedAt, TypesAt
  <2> QED BY <1>0, <2>1, <2>2, OnPlaced
<1>10. CASE Publish(r)
  <2>1. SameReduction(r) /\ post[r] = None /\ outcome[r] = None /\ phase[r] = "tune" /\ ToNext(r)
    BY <1>0, <1>10, PublishEffect DEF PlacedAt, Waiting
  <2> QED BY <1>0, <2>1, NextPlaced
<1>11. CASE Reload(r)
  BY <1>0, <1>11, ReloadEffect DEF Placing, SameReduction, PlacedAt, Waiting
<1> QED BY <1>1, <1>2, <1>3, <1>4, <1>5, <1>6, <1>7, <1>8, <1>9, <1>10, <1>11 DEF Step

LEMMA PlacedComplete ==
  ASSUME Types, Placed, NEW g \in groups, Complete(g)
  PROVE  Placed'
<1> SUFFICES ASSUME NEW r \in Ranks PROVE PlacedAt(r)'
  BY DEF Placed
<1>1. PlacedAt(r) /\ Placing(r, pc[r], phase[r], profile[r], runner[r], tactic[r], best[r])
  BY CompleteEffect DEF Placed
<1>2. (post[r] # None /\ post'[r] = None) \/ SameReduction(r)
  BY CompleteEffect
<1> QED BY <1>1, <1>2 DEF PlacedAt, Placing, SameReduction

LEMMA TypesComplete ==
  ASSUME Types, NEW g \in groups, Complete(g)
  PROVE  Types'
<1>1. /\ Funcs' /\ groups' = groups /\ store' = store
      /\ \A r \in Ranks :
           /\ winners'[r] = winners[r] /\ memo'[r] = memo[r] /\ best'[r] = best[r]
           /\ pc'[r] = pc[r] /\ phase'[r] = phase[r] /\ profile'[r] = profile[r]
           /\ runner'[r] = runner[r] /\ tactic'[r] = tactic[r]
  BY CompleteEffect DEF Placing, SameCaches
<1>2. /\ winners' = winners /\ memo' = memo /\ pc' = pc /\ phase' = phase
      /\ profile' = profile /\ runner' = runner /\ tactic' = tactic /\ best' = best
  BY <1>1, TypesFuncs DEF Funcs
<1> QED BY <1>1, <1>2 DEF Types, Funcs

-----------------------------------------------------------------------------
\* Serving after a reload.
LEMMA StoredSame == ASSUME UNCHANGED store
                    PROVE  /\ StoredChoice' = StoredChoice
                           /\ \A p : StoredFor(p)' = StoredFor(p) /\ FromLookup(p)' = FromLookup(p)
BY DEF StoredChoice, StoredFor, FromLookup, Unstored

LEMMA StoredMin ==
  ASSUME NEW p, NEW i \in Runners, store[<<p, i>>] # None,
         \A j \in 1 .. i - 1 : store[<<p, j>>] = None
  PROVE  StoredFor(p) # {} /\ Min(StoredFor(p)) = i
<1>1. Runners \subseteq Nat /\ i \in StoredFor(p)
  BY Sizes DEF StoredFor
<1>2. \A j \in StoredFor(p) : i <= j
  <2> SUFFICES ASSUME NEW j \in StoredFor(p), ~(i <= j) PROVE FALSE
    OBVIOUS
  <2>1. j \in Runners /\ store[<<p, j>>] # None
    BY DEF StoredFor
  <2>2. j \in 1 .. i - 1
    BY <2>1, Sizes
  <2> QED BY <2>1, <2>2
<1>3. StoredFor(p) \in SUBSET Nat
  BY <1>1 DEF StoredFor
<1> QED BY <1>1, <1>2, <1>3, MinIs

\* A rank that serves finds what the store holds.
LEMMA ServedFound ==
  ASSUME Types, NEW r \in Ranks, ServedAt(r), phase[r] = "serve", NEW e \in Entries
  PROVE  Found(r, e) = IF store[e] = None THEN Missing ELSE store[e]
<1>1. store[e] \in {None} \cup AllTactics
  BY DEF Types
<1>2. memo[r][e] = store[e] \/ (memo[r][e] = Missing /\ store[e] = None)
  BY DEF ServedAt
<1> QED BY <1>1, <1>2, Markers DEF Found

LEMMA ServedProbe ==
  ASSUME Types, NEW r \in Ranks, Placed, ServedAt(r), phase[r] = "serve", pc[r] = "probe",
         NEW e, e = EntryOf(r, runner[r]), ToTaken(r, e, Found(r, e))
  PROVE  /\ phase'[r] = "serve" /\ pc'[r] \in {"probe", "done"}
         /\ \A x \in Entries : \/ memo'[r][x] = store[x]
                               \/ memo'[r][x] = Missing /\ store[x] = None
         /\ pc'[r] = "probe" => /\ winners'[r] = winners[r]
                                /\ \A i \in 1 .. runner'[r] - 1 : store[<<NProfiles, i>>] = None
         /\ pc'[r] = "done" => choice'[r] = StoredChoice
<1>1. runner[r] \in Runners /\ profile[r] = NProfiles
  BY DEF Placed, PlacedAt
<1>2. e = <<NProfiles, runner[r]>> /\ e \in Entries
  BY <1>1, EntryFacts DEF EntryOf
<1>3. Found(r, e) = IF store[e] = None THEN Missing ELSE store[e]
  BY <1>2, ServedFound
<1>4. store[e] \in {None} \cup AllTactics /\ memo[r] \in [Entries -> {None, Missing} \cup AllTactics]
  BY <1>2, TypesHere DEF Types, TypesAt
<1>5. \A i \in 1 .. runner[r] - 1 : store[<<NProfiles, i>>] = None
  BY DEF ServedAt
<1>6. \A x \in Entries : \/ memo'[r][x] = store[x]
                         \/ memo'[r][x] = Missing /\ store[x] = None
  <2>1. memo'[r] = [memo[r] EXCEPT ![e] = Found(r, e)]
    BY DEF ToTaken
  <2>2. \A x \in Entries : memo[r][x] = store[x] \/ (memo[r][x] = Missing /\ store[x] = None)
    BY DEF ServedAt
  <2> QED BY <1>2, <1>3, <1>4, <2>1, <2>2
<1>7. CASE store[e] # None
  <2>1. Found(r, e) = store[e] /\ Found(r, e) # Missing
    BY <1>3, <1>4, <1>7, Markers
  <2>2. ToReturn(r, <<runner[r], store[e]>>)
    BY <2>1 DEF ToTaken, ToHit
  <2>3. StoredChoice = <<runner[r], store[e]>>
    BY <1>1, <1>2, <1>5, <1>7, StoredMin DEF StoredChoice
  <2> QED BY <1>6, <2>2, <2>3 DEF ToReturn, Placing
<1>8. CASE store[e] = None
  <2>1. Found(r, e) = Missing
    BY <1>3, <1>8
  <2>2. \A i \in 1 .. runner[r] : store[<<NProfiles, i>>] = None
    <3> TAKE i \in 1 .. runner[r]
    <3>1. i = runner[r] \/ i \in 1 .. runner[r] - 1
      BY <1>1, Sizes
    <3> QED BY <1>2, <1>5, <1>8, <3>1
  <2>3. CASE runner[r] = Len(Tactics) /\ winners'[r] = winners[r] /\ ToMiss(r)
    <3>1. StoredFor(NProfiles) = {}
      BY <2>2, <2>3, Sizes DEF StoredFor
    <3>2. ToReturn(r, Fallback)
      BY <2>3 DEF ToMiss
    <3> QED BY <1>6, <3>1, <3>2 DEF ToReturn, Placing, StoredChoice
  <2>4. CASE /\ runner[r] < Len(Tactics) /\ winners'[r] = winners[r]
             /\ Placing(r, pc[r], phase[r], profile[r], runner[r] + 1, tactic[r], best[r])
    <3>1. runner'[r] = runner[r] + 1 /\ runner'[r] - 1 = runner[r]
      BY <1>1, <2>4, Sizes DEF Placing
    <3> QED BY <1>6, <2>2, <2>4, <3>1 DEF Placing
  <2> QED BY <2>1, <2>3, <2>4 DEF ToTaken
<1> QED BY <1>7, <1>8

LEMMA HydratedFresh == ASSUME NEW r, NEW e \in Entries
                       PROVE  Hydrated(Forgotten(r))[e] = store[e]
BY DEF Hydrated, Forgotten

\* Where a rank of a tuning phase that is not done is going, it does not serve.
LEMMA NoServe ==
  ASSUME Types, Placed, NEW r \in Ranks, Step(r), ~Reload(r)
  PROVE  /\ phase'[r] = "serve" => phase[r] = "serve"
         /\ phase[r] = "serve" => /\ phase'[r] = "serve"
                                  /\ SearchMemory(r) \/ ProbeStore(r)
         /\ pc[r] # "done"
<1>0. PlacedAt(r) /\ TypesAt(r)
  BY TypesHere DEF Placed
<1>1. CASE Attach(r)
  BY <1>0, <1>1, AttachEffect DEF Placing, PlacedAt
<1>2. CASE SearchMemory(r)
  BY <1>2, SearchEffect DEF ToHit, ToNext, ToReturn, Placing
<1>3. CASE ProbeStore(r)
  BY <1>3, ProbeEffect DEF ToTaken, ToHit, ToMiss, ToNext, ToReturn, Placing
<1>4. CASE Unreadable(r)
  BY <1>4, UnreadableEffect DEF ToTaken, ToHit, ToMiss, ToNext, ToReturn, Placing
<1>5. CASE PrepareInputs(r) \/ PrepareRunner(r) \/ ProfileTactic(r)
  BY <1>0, <1>5, EnterEffect DEF Entering, Placing, PlacedAt
<1>6. CASE OutOfMemory(r) \/ GiveUp(r)
  BY <1>0, <1>6, OutOfMemoryEffect, GiveUpEffect DEF ToReturn, Placing, PlacedAt, Leaving
<1>7. CASE StartProfile(r) \/ StartRunner(r) \/ Judge(r)
  BY <1>0, <1>7, StartProfileEffect, StartRunnerEffect, JudgeEffect
     DEF OnToTactic, OnToRunner, Placing, PlacedAt, Leaving
<1>8. CASE Publish(r)
  BY <1>0, <1>8, PublishEffect DEF ToNext, Placing, PlacedAt
<1> QED BY <1>1, <1>2, <1>3, <1>4, <1>5, <1>6, <1>7, <1>8 DEF Step

LEMMA StepLocal ==
  ASSUME Types, NEW r \in Ranks, Step(r)
  PROVE  Local(r) /\ (~Publish(r) => store' = store)
<1> USE DEF SameCaches, ToTaken, Entering, Leaving
<1>1. CASE Attach(r) \/ SearchMemory(r) \/ ProbeStore(r) \/ Unreadable(r)
  BY <1>1, AttachEffect, SearchEffect, ProbeEffect, UnreadableEffect
<1>2. CASE PrepareInputs(r) \/ PrepareRunner(r) \/ ProfileTactic(r) \/ OutOfMemory(r)
  BY <1>2, EnterEffect, OutOfMemoryEffect
<1>3. CASE GiveUp(r) \/ StartProfile(r) \/ StartRunner(r) \/ Judge(r)
  BY <1>3, GiveUpEffect, StartProfileEffect, StartRunnerEffect, JudgeEffect
<1>4. CASE Publish(r) \/ Reload(r)
  BY <1>4, PublishEffect, ReloadEffect
<1> QED BY <1>1, <1>2, <1>3, <1>4 DEF Step

LEMMA ServedStep == ASSUME Types, Placed, Served, NEW r \in Ranks, Step(r) PROVE Served'
<1>0. Local(r) /\ PlacedAt(r) /\ TypesAt(r)
  BY StepLocal, TypesHere DEF Placed
<1>1. CASE Publish(r)
  <2>1. /\ pc[r] = "publish" /\ phase[r] = "tune" /\ phase'[r] # "serve"
    BY <1>0, <1>1, PublishEffect, NoServe DEF PlacedAt, ToNext, Placing
  <2>2. \A s \in Ranks : phase[s] # "serve"
    BY <2>1 DEF Served, ServedAt
  <2>3. \A s \in Ranks : phase'[s] # "serve"
    BY <1>0, <2>1, <2>2 DEF Local, SameRank
  <2> QED BY <2>3 DEF Served, ServedAt
<1>2. CASE ~Publish(r)
  <2>1. store' = store /\ StoredChoice' = StoredChoice
    BY <1>2, StepLocal, StoredSame
  <2>2. ASSUME NEW s \in Ranks, phase'[s] = "serve", NEW q \in Ranks
        PROVE  phase'[q] = "serve" \/ pc'[q] = "done"
    <3>1. CASE Reload(r)
      BY <1>0, <3>1, ReloadEffect DEF Local, SameRank, Placing
    <3>2. CASE ~Reload(r)
      <4>1. phase[s] = "serve"
        BY <1>0, <2>2, <3>2, NoServe DEF Local, SameRank
      <4>2. phase[q] = "serve" \/ pc[q] = "done"
        BY <4>1 DEF Served, ServedAt
      <4> QED BY <1>0, <3>2, <4>2, NoServe DEF Local, SameRank
    <3> QED BY <3>1, <3>2
  <2>3. ASSUME NEW s \in Ranks \ {r} PROVE ServedAt(s)'
    <3> SUFFICES ASSUME phase'[s] = "serve" PROVE ServedAt(s)'
      BY DEF ServedAt
    <3>1. \A q \in Ranks : phase'[q] = "serve" \/ pc'[q] = "done"
      BY <2>2
    <3>2. SameRank(s) /\ ServedAt(s)
      BY <1>0 DEF Local, Served
    <3> QED BY <2>1, <3>1, <3>2 DEF ServedAt, SameRank
  <2>4. ServedAt(r)'
    <3> SUFFICES ASSUME phase'[r] = "serve" PROVE ServedAt(r)'
      BY DEF ServedAt
    <3>1. \A q \in Ranks : phase'[q] = "serve" \/ pc'[q] = "done"
      BY <2>2
    <3>2. CASE Reload(r)
      <4>1. \A e \in Entries : memo'[r][e] = store[e] /\ winners'[r][e] = None
        BY <3>2, ReloadEffect, HydratedFresh
      <4>2. pc'[r] = "search"
        BY <3>2, ReloadEffect DEF Placing
      <4> QED BY <2>1, <3>1, <4>1, <4>2 DEF ServedAt
    <3>3. CASE ~Reload(r)
      <4>1. phase[r] = "serve" /\ (SearchMemory(r) \/ ProbeStore(r)) /\ ServedAt(r)
        BY <3>3, NoServe DEF Served
      <4>2. CASE SearchMemory(r)
        <5>1. pc[r] = "search" /\ \A e \in Entries : winners[r][e] = None
          BY <4>1, <4>2, SearchEffect DEF ServedAt
        <5>2. Remembered(r) = {}
          BY <5>1, EntryFacts DEF Remembered
        <5>3. /\ Placing(r, "probe", phase[r], profile[r], runner[r], tactic[r], best[r])
              /\ SameCaches(r)
          BY <4>2, <5>2, SearchEffect
        <5>4. runner'[r] = 1
          BY <1>0, <5>1, <5>3 DEF PlacedAt, Placing
        <5> QED BY <2>1, <3>1, <4>1, <5>1, <5>3, <5>4 DEF ServedAt, SameCaches, Placing
      <4>3. CASE ProbeStore(r)
        <5>1. /\ pc[r] = "probe"
              /\ ToTaken(r, EntryOf(r, runner[r]), Found(r, EntryOf(r, runner[r])))
              /\ \A e \in Entries : winners[r][e] = None
          BY <4>1, <4>3, ProbeEffect DEF ServedAt
        <5>2. /\ pc'[r] \in {"probe", "done"}
              /\ \A x \in Entries : \/ memo'[r][x] = store[x]
                                    \/ memo'[r][x] = Missing /\ store[x] = None
              /\ pc'[r] = "probe" =>
                   /\ winners'[r] = winners[r]
                   /\ \A i \in 1 .. runner'[r] - 1 : store[<<NProfiles, i>>] = None
              /\ pc'[r] = "done" => choice'[r] = StoredChoice
          BY <4>1, <5>1, ServedProbe
        <5> QED BY <2>1, <3>1, <5>1, <5>2 DEF ServedAt
      <4> QED BY <4>1, <4>2, <4>3
    <3> QED BY <3>2, <3>3
  <2> QED BY <2>3, <2>4 DEF Served
<1> QED BY <1>1, <1>2

LEMMA ServedComplete ==
  ASSUME Types, Served, NEW g \in groups, Complete(g)
  PROVE  Served'
<1> SUFFICES ASSUME NEW r \in Ranks PROVE ServedAt(r)'
  BY DEF Served
<1>1. store' = store /\ StoredChoice' = StoredChoice
  BY CompleteEffect, StoredSame
<1>2. \A q \in Ranks : /\ pc'[q] = pc[q] /\ phase'[q] = phase[q] /\ runner'[q] = runner[q]
                       /\ winners'[q] = winners[q] /\ memo'[q] = memo[q]
                       /\ choice'[q] = choice[q]
  BY CompleteEffect DEF Placing, SameCaches, SameChosen
<1> QED BY <1>1, <1>2 DEF Served, ServedAt

-----------------------------------------------------------------------------
\* One process group.
LEMMA GroupFacts ==
  ASSUME Types, OneGroup
  PROVE  /\ \A r \in Ranks : Grouped(r)
         /\ groups' = groups => OneGroup'
         /\ \A g \in groups : g = Ranks
BY DEF OneGroup, Grouped

LEMMA OneGroupStep ==
  ASSUME Types, [Next]_vars, OneGroup'
  PROVE  OneGroup
<1>1. ASSUME NEW r \in Ranks, Step(r) PROVE groups' = groups
  BY <1>1, StepLocal DEF Local
<1>2. ASSUME NEW g \in groups, Complete(g) PROVE groups' = groups
  BY <1>2, CompleteEffect
<1>3. groups' = groups
  BY <1>1, <1>2 DEF Next, vars
<1> QED BY <1>3 DEF OneGroup

\* What moves a rank on in its profiles.
LEMMA PastStep ==
  ASSUME Types, Placed, NEW r \in Ranks, Step(r), NEW p \in Nat, Past(r, p)
  PROVE  Past(r, p)'
<1>0. PlacedAt(r) /\ profile[r] \in Nat /\ phase[r] \in {"tune", "final", "serve"}
  BY TypesHere, Sizes DEF Placed, TypesAt, Profiles
<1>1. CASE phase[r] # "tune" /\ ~Reload(r)
  <2>1. phase'[r] = phase[r]
    <3>1. pc[r] \in {"search", "probe", "done"}
      BY <1>0, <1>1 DEF PlacedAt
    <3>2. CASE SearchMemory(r)
      BY <1>1, <3>2, SearchEffect DEF ToHit, ToReturn, Placing
    <3>3. CASE ProbeStore(r)
      BY <1>1, <3>3, ProbeEffect DEF ToTaken, ToHit, ToMiss, ToReturn, Placing
    <3>4. CASE Unreadable(r)
      BY <1>1, <3>4, UnreadableEffect DEF ToTaken, ToHit, ToMiss, ToReturn, Placing
    <3>5. ~(Attach(r) \/ PrepareInputs(r) \/ PrepareRunner(r) \/ ProfileTactic(r) \/ OutOfMemory(r)
            \/ GiveUp(r) \/ StartProfile(r) \/ StartRunner(r) \/ Judge(r) \/ Publish(r))
      BY <3>1, AttachEffect, EnterEffect, OutOfMemoryEffect, GiveUpEffect, StartProfileEffect,
         StartRunnerEffect, JudgeEffect, PublishEffect DEF Leaving
    <3> QED BY <1>1, <3>2, <3>3, <3>4, <3>5 DEF Step
  <2> QED BY <1>1, <2>1 DEF Past
<1>2. CASE Reload(r)
  BY <1>2, ReloadEffect DEF Placing, Past
<1>3. CASE phase[r] = "tune" /\ ~Reload(r)
  <2>1. CASE Attach(r)
    BY <1>0, <1>3, <2>1, AttachEffect DEF Past, Looking, Placing
  <2>2. ASSUME ToNext(r), pc[r] # "done" PROVE Past(r, p)'
    BY <1>0, <1>3, <2>2 DEF Past, Looking, ToNext, Placing
  <2>3. ASSUME NEW c, ToReturn(r, c) PROVE Past(r, p)'
    BY <2>3 DEF Past, ToReturn, Placing
  <2>4. ASSUME Placing(r, pc'[r], phase[r], profile[r], runner'[r], tactic'[r], best'[r]),
               pc[r] \in {"search", "probe"} \/ pc'[r] \notin {"attach", "search", "probe", "prepare"},
               pc[r] # "done"
        PROVE  Past(r, p)'
    BY <1>0, <1>3, <2>4 DEF Past, Looking, Placing
  <2>5. CASE SearchMemory(r)
    <3>1. CASE Remembered(r) # {}
      BY <2>2, <2>3, <2>5, <3>1, SearchEffect DEF ToHit
    <3>2. CASE Remembered(r) = {}
      BY <2>4, <2>5, <3>2, SearchEffect DEF Placing
    <3> QED BY <3>1, <3>2
  <2>6. ASSUME NEW e, NEW t, ToTaken(r, e, t), pc[r] = "probe" PROVE Past(r, p)'
    BY <1>3, <2>2, <2>4, <2>6 DEF ToTaken, ToHit, ToMiss, Placing
  <2>7. CASE ProbeStore(r) \/ Unreadable(r)
    BY <2>6, <2>7, ProbeEffect, UnreadableEffect
  <2>8. CASE PrepareInputs(r) \/ PrepareRunner(r) \/ ProfileTactic(r)
    BY <2>4, <2>8, EnterEffect DEF Entering, Placing
  <2>9. CASE OutOfMemory(r) \/ GiveUp(r)
    BY <2>3, <2>9, OutOfMemoryEffect, GiveUpEffect
  <2>10. CASE StartProfile(r) \/ StartRunner(r) \/ Judge(r)
    BY <2>4, <2>10, StartProfileEffect, StartRunnerEffect, JudgeEffect
       DEF OnToTactic, OnToRunner, Placing, Leaving
  <2>11. CASE Publish(r)
    BY <2>2, <2>11, PublishEffect
  <2> QED BY <1>3, <2>1, <2>5, <2>7, <2>8, <2>9, <2>10, <2>11 DEF Step
<1> QED BY <1>1, <1>2, <1>3

LEMMA ReducedStep ==
  ASSUME Types, Placed, NEW r \in Ranks, Step(r), Reduced(r)'
  PROVE  Reduced(r) /\ profile'[r] = profile[r]
<1>0. PlacedAt(r)
  BY DEF Placed
<1>1. ~(Attach(r) \/ Reload(r) \/ OutOfMemory(r) \/ GiveUp(r) \/ Publish(r))
  BY AttachEffect, ReloadEffect, OutOfMemoryEffect, GiveUpEffect, PublishEffect
     DEF Reduced, ToReturn, ToNext, Placing
<1>2. ~SearchMemory(r)
  BY SearchEffect DEF Reduced, ToHit, ToReturn, ToNext, Placing
<1>3. ~(ProbeStore(r) \/ Unreadable(r))
  BY ProbeEffect, UnreadableEffect DEF Reduced, ToTaken, ToHit, ToMiss, ToReturn, ToNext, Placing
<1>4. CASE PrepareInputs(r) \/ PrepareRunner(r) \/ ProfileTactic(r)
  BY <1>0, <1>4, EnterEffect DEF Reduced, Entering, Placing, PlacedAt, Waiting
<1>5. CASE StartProfile(r) \/ StartRunner(r) \/ Judge(r)
  BY <1>5, StartProfileEffect, StartRunnerEffect, JudgeEffect
     DEF Reduced, OnToTactic, OnToRunner, Placing, Leaving
<1> QED BY <1>1, <1>2, <1>3, <1>4, <1>5 DEF Step

LEMMA LateStep ==
  ASSUME Types, Placed, NoLateLookup, NEW r \in Ranks, Step(r)
  PROVE  NoLateLookup'
<1> SUFFICES ASSUME OneGroup', NEW q \in Ranks, NEW s \in Ranks, Reduced(q)'
             PROVE  Past(s, profile[q])'
  BY DEF NoLateLookup
<1>1. Local(r) /\ OneGroup
  BY StepLocal DEF Local, OneGroup
<1>2. Reduced(q) /\ profile'[q] = profile[q]
  <2>1. CASE q = r
    BY <2>1, ReducedStep
  <2>2. CASE q # r
    BY <1>1, <2>2 DEF Local, SameRank, Reduced
  <2> QED BY <2>1, <2>2
<1>3. Past(s, profile[q]) /\ profile[q] \in Nat
  BY <1>1, <1>2, TypesHere, Sizes DEF NoLateLookup, TypesAt, Profiles
<1>4. CASE s = r
  <2>1. \/ phase'[s] # "tune" \/ pc'[s] = "done" \/ profile'[s] > profile[q]
        \/ profile'[s] = profile[q] /\ ~Looking(s)'
    BY <1>3, <1>4, PastStep DEF Past
  <2> QED BY <1>2, <2>1 DEF Past
<1>5. CASE s # r
  BY <1>1, <1>2, <1>3, <1>5 DEF Local, SameRank, Past, Looking
<1> QED BY <1>4, <1>5

LEMMA HeadingPosted ==
  ASSUME Types, Placed, NEW r \in Ranks, post[r] # None
  PROVE  /\ Heading(r) = Here(r, pc[r]) /\ phase[r] = "tune" /\ pc[r] \in Waiting
         /\ outcome[r] = None
<1>1. pc[r] \in Waiting /\ outcome[r] = None /\ phase[r] = "tune"
  BY DEF Placed, PlacedAt, Waiting
<1> QED BY <1>1 DEF Heading, Waiting

\* All ranks wait in the same reduction when one ends.
LEMMA CompleteTogether ==
  ASSUME Types, Placed, Lockstep, OneGroup, NEW g \in groups, Complete(g),
         NEW q \in Ranks, NEW r \in Ranks
  PROVE  /\ phase[r] = "tune" /\ pc[r] \in Waiting /\ post[r] # None
         /\ pc[q] = pc[r] /\ profile[q] = profile[r] /\ runner[q] = runner[r]
         /\ tactic[q] = tactic[r] /\ best[q] = best[r]
         /\ outcome'[q] = outcome'[r]
<1>1. g = Ranks /\ \A s \in Ranks : post[s] # None
  BY GroupFacts, CompleteEffect
<1>2. \A s \in Ranks : /\ Heading(s) = Here(s, pc[s]) /\ phase[s] = "tune"
                       /\ pc[s] \in Waiting
  BY <1>1, HeadingPosted
<1>3. Here(q, pc[q]) = Here(r, pc[r])
  BY <1>2 DEF Lockstep
<1>4. /\ pc[q] = pc[r] /\ profile[q] = profile[r] /\ runner[q] = runner[r]
      /\ tactic[q] = tactic[r] /\ best[q] = best[r]
  BY <1>3 DEF Here, At
<1>5. (post[q].at = "timed") = (post[r].at = "timed")
  BY <1>1, CompleteEffect
<1>6. \A s \in Ranks : outcome'[s] = IF post[s].at = "timed" THEN Time(s, g) ELSE Oom(s, g)
  BY <1>1, CompleteEffect
<1>7. Time(q, g) = Time(r, g) /\ Oom(q, g) = Oom(r, g)
  BY DEF Time, Oom
<1>8. outcome'[q] = outcome'[r]
  BY <1>5, <1>6, <1>7
<1> QED BY <1>1, <1>2, <1>4, <1>8

LEMMA LateComplete ==
  ASSUME Types, Placed, Lockstep, NEW g \in groups, Complete(g)
  PROVE  NoLateLookup'
<1> SUFFICES ASSUME OneGroup', NEW q \in Ranks, NEW s \in Ranks
             PROVE  Past(s, profile[q])'
  BY DEF NoLateLookup
<1>1. OneGroup
  BY CompleteEffect DEF OneGroup
<1>2. profile[q] = profile[s] /\ pc[s] \in Waiting
  BY <1>1, CompleteTogether
<1>3. pc'[s] = pc[s] /\ profile'[s] = profile[s] /\ profile'[q] = profile[q]
  BY CompleteEffect DEF Placing
<1> QED BY <1>2, <1>3 DEF Past, Looking, Waiting

-----------------------------------------------------------------------------
\* What the ranks of the group know of the store.

\* A publication changes the store at a profile no other rank will look up.
LEMMA PublishStore ==
  ASSUME Types, NEW r \in Ranks, Publish(r)
  PROVE  \A p \in Profiles : p # profile[r] => \A i \in Runners : store'[<<p, i>>] = store[<<p, i>>]
<1>1. CASE best[r].runner = 0
  BY <1>1, PublishEffect DEF SameCaches
<1>2. CASE best[r].runner # 0
  <2>1. \/ store' = [store EXCEPT ![<<profile[r], best[r].runner>>] = best[r].tactic]
        \/ store' = store
    BY <1>2, PublishEffect DEF Publishing
  <2>2. store \in [Entries -> {None} \cup AllTactics]
    BY DEF Types
  <2> QED BY <2>1, <2>2 DEF Entries
<1> QED BY <1>1, <1>2

LEMMA StoreAhead ==
  ASSUME Types, Placed, NoLateLookup, OneGroup, NEW r \in Ranks, Step(r),
         NEW s \in Ranks \ {r}, phase[s] = "tune", pc[s] # "done"
  PROVE  /\ \A p \in profile[s] + 1 .. NProfiles : \A i \in Runners :
              store'[<<p, i>>] = store[<<p, i>>]
         /\ Looking(s) => \A i \in Runners :
              store'[<<profile[s], i>>] = store[<<profile[s], i>>]
<1>1. CASE ~Publish(r)
  BY <1>1, StepLocal
<1>2. CASE Publish(r)
  <2>1. Reduced(r)
    BY <1>2, PublishEffect DEF Reduced
  <2>2. profile[s] > profile[r] \/ (profile[s] = profile[r] /\ ~Looking(s))
    BY <2>1 DEF NoLateLookup, Past
  <2>3. /\ profile[s] \in Profiles /\ profile[r] \in Profiles
        /\ \A p \in profile[s] + 1 .. NProfiles : p \in Profiles /\ p # profile[r]
    BY <2>2, TypesHere, Sizes DEF TypesAt, Profiles
  <2>4. Looking(s) => profile[s] # profile[r]
    BY <2>2, <2>3, Sizes DEF Profiles
  <2> QED BY <1>2, <2>3, <2>4, PublishStore
<1> QED BY <1>1, <1>2

LEMMA KnownOthers ==
  ASSUME Types, Placed, NoLateLookup, KnownAll, OneGroup, NEW r \in Ranks, Step(r),
         NEW s \in Ranks \ {r}
  PROVE  Known(s)'
<1>1. SameRank(s) /\ Known(s)
  BY StepLocal DEF Local, KnownAll
<1>2. Remembered(s)' = Remembered(s)
  BY <1>1 DEF SameRank, Remembered, EntryOf
<1>3. CASE phase[s] = "tune" /\ pc[s] # "done"
  <2>1. pc[s] # "attach" => \A p \in profile[s] + 1 .. NProfiles : Fresh(s, p)'
    <3> SUFFICES ASSUME pc[s] # "attach", NEW p \in profile[s] + 1 .. NProfiles
                 PROVE  Fresh(s, p)'
      OBVIOUS
    <3>1. Fresh(s, p)
      BY <1>1, <1>3 DEF Known
    <3>2. \A i \in Runners : store'[<<p, i>>] = store[<<p, i>>]
      BY <1>3, StoreAhead
    <3> QED BY <1>1, <3>1, <3>2 DEF SameRank, Fresh
  <2>2. pc[s] = "search" => Fresh(s, profile[s])
    BY <1>1, <1>3 DEF Known
  <2>3. pc[s] = "search" => Fresh(s, profile[s])'
    BY <1>1, <1>3, <2>2, StoreAhead DEF SameRank, Fresh, Looking
  <2>4. pc[s] = "probe" => \A i \in Runners : store'[<<profile[s], i>>] = store[<<profile[s], i>>]
    BY <1>3, StoreAhead DEF Looking
  <2>5. pc[s] = "probe" =>
          \A i \in Runners :
            /\ winners[s][<<profile[s], i>>] = None
            /\ IF i < runner[s] THEN /\ memo[s][<<profile[s], i>>] = Missing
                                     /\ store'[<<profile[s], i>>] = None
                                ELSE memo[s][<<profile[s], i>>] = store'[<<profile[s], i>>]
    BY <1>1, <1>3, <2>4 DEF Known
  <2> QED BY <1>1, <1>3, <2>1, <2>3, <2>5 DEF Known, SameRank
<1>4. CASE phase[s] # "tune" \/ pc[s] = "done"
  BY <1>1, <1>2, <1>4 DEF Known, SameRank, Waiting
<1> QED BY <1>3, <1>4

\* From the profile a rank is through with to the next one, or to the lookup of
\* the operation's own shape.
LEMMA NextKnown ==
  ASSUME Types, NEW r \in Ranks, phase[r] = "tune", ToNext(r),
         \A p \in profile[r] + 1 .. NProfiles : Fresh(r, p)',
         profile[r] = NProfiles =>
           \/ Remembered(r)' # {}
           \/ \A i \in Runners : memo'[r][<<NProfiles, i>>] = Missing
  PROVE  Known(r)'
<1>1. profile[r] \in 1 .. NProfiles /\ NProfiles \in Nat
  BY TypesHere, Sizes DEF TypesAt, Profiles
<1>2. CASE profile[r] < NProfiles
  <2>1. /\ pc'[r] = "search" /\ phase'[r] = "tune" /\ profile'[r] = profile[r] + 1
    BY <1>2 DEF ToNext, Placing
  <2>2. \A p : p = profile[r] + 1 => Fresh(r, p)'
    BY <1>1, <1>2
  <2>3. Fresh(r, profile[r])'
    BY <2>1, <2>2 DEF Fresh
  <2>4. \A p \in profile'[r] + 1 .. NProfiles : Fresh(r, p)'
    BY <1>1, <2>1
  <2> QED BY <2>1, <2>3, <2>4 DEF Known, Waiting
<1>3. CASE ~(profile[r] < NProfiles)
  <2>1. profile[r] = NProfiles /\ pc'[r] = "search" /\ phase'[r] = "final"
    BY <1>1, <1>3 DEF ToNext, Placing
  <2> QED BY <2>1 DEF Known
<1> QED BY <1>2, <1>3

\* A lookup while tuning.
LEMMA TuneFound ==
  ASSUME Types, NEW r \in Ranks, Placed, Known(r), phase[r] = "tune", pc[r] = "probe"
  PROVE  LET e == <<profile[r], runner[r]>> IN
           /\ e = EntryOf(r, runner[r]) /\ e \in Entries /\ runner[r] \in Runners
           /\ Found(r, e) = IF store[e] = None THEN Missing ELSE store[e]
           /\ store[e] \in {None} \cup AllTactics
           /\ \A i \in 1 .. runner[r] - 1 : store[<<profile[r], i>>] = None
<1>1. runner[r] \in Runners
  BY DEF Placed, PlacedAt
<1>2. /\ EntryOf(r, runner[r]) = <<profile[r], runner[r]>>
      /\ <<profile[r], runner[r]>> \in Entries
  BY <1>1, EntryFacts DEF EntryOf
<1>3. memo[r][<<profile[r], runner[r]>>] = store[<<profile[r], runner[r]>>]
  BY <1>1, Sizes DEF Known
<1>4. \A i \in 1 .. runner[r] - 1 : store[<<profile[r], i>>] = None
  BY <1>1, Sizes DEF Known
<1>5. store[<<profile[r], runner[r]>>] \in {None} \cup AllTactics
  BY <1>2 DEF Types
<1> QED BY <1>1, <1>2, <1>3, <1>4, <1>5, Markers DEF Found

\* The caches at the profiles to come are not touched.
LEMMA AheadSame ==
  ASSUME Types, NEW r \in Ranks, NEW i \in Runners, NEW t,
         (winners'[r] = winners[r] \/ winners'[r] = [winners[r] EXCEPT ![<<profile[r], i>>] = t]),
         (memo'[r] = memo[r] \/ memo'[r] = [memo[r] EXCEPT ![<<profile[r], i>>] = t]),
         (store' = store \/ store' = [store EXCEPT ![<<profile[r], i>>] = t]),
         \A p \in profile[r] + 1 .. NProfiles : Fresh(r, p)
  PROVE  \A p \in profile[r] + 1 .. NProfiles : Fresh(r, p)'
<1>1. /\ winners[r] \in [Entries -> {None} \cup AllTactics]
      /\ memo[r] \in [Entries -> {None, Missing} \cup AllTactics]
      /\ store \in [Entries -> {None} \cup AllTactics]
      /\ profile[r] \in 1 .. NProfiles /\ NProfiles \in Nat
  BY TypesHere, Sizes DEF Types, TypesAt, Profiles
<1>2. ASSUME NEW p \in profile[r] + 1 .. NProfiles, NEW j \in Runners
      PROVE  /\ winners'[r][<<p, j>>] = None
             /\ memo'[r][<<p, j>>] = store'[<<p, j>>]
  <2>1. <<p, j>> \in Entries /\ <<p, j>> # <<profile[r], i>>
    BY <1>1, <1>2 DEF Entries, Profiles
  <2>2. winners[r][<<p, j>>] = None /\ memo[r][<<p, j>>] = store[<<p, j>>]
    BY <1>2 DEF Fresh
  <2> QED BY <1>1, <2>1, <2>2
<1> QED BY <1>2 DEF Fresh

LEMMA ProbeKnown ==
  ASSUME Types, Placed, NEW r \in Ranks, Known(r), phase[r] \in {"tune", "final"}, pc[r] = "probe",
         NEW e, e = EntryOf(r, runner[r]), ToTaken(r, e, Found(r, e))
  PROVE  Known(r)'
<1>0. /\ PlacedAt(r) /\ TypesAt(r) /\ runner[r] \in Runners /\ e = <<profile[r], runner[r]>>
      /\ e \in Entries
  BY TypesHere, EntryFacts DEF Placed, PlacedAt, EntryOf
<1>1. store' = store /\ memo'[r] = [memo[r] EXCEPT ![e] = Found(r, e)]
  BY DEF ToTaken
<1>2. CASE phase[r] = "tune"
  <2>1. Found(r, e) = IF store[e] = None THEN Missing ELSE store[e]
    BY <1>0, <1>2, TuneFound
  <2>2. store[e] \in {None} \cup AllTactics
    BY <1>0 DEF Types
  <2>3. \A p \in profile[r] + 1 .. NProfiles : Fresh(r, p)
    BY <1>2 DEF Known
  <2>4. winners'[r] = winners[r] \/ winners'[r] = [winners[r] EXCEPT ![e] = Found(r, e)]
    BY DEF ToTaken
  <2>5. \A p \in profile[r] + 1 .. NProfiles : Fresh(r, p)'
    <3>1. PICK i \in Runners : i = runner[r]
      BY <1>0
    <3>2. PICK t : t = Found(r, e)
      OBVIOUS
    <3>3. winners'[r] = winners[r] \/ winners'[r] = [winners[r] EXCEPT ![<<profile[r], i>>] = t]
      BY <1>0, <2>4, <3>1, <3>2
    <3>4. memo'[r] = memo[r] \/ memo'[r] = [memo[r] EXCEPT ![<<profile[r], i>>] = t]
      BY <1>0, <1>1, <3>1, <3>2
    <3> HIDE DEF Types
    <3> QED BY <1>1, <2>3, <3>3, <3>4, AheadSame
  <2>6. \A i \in Runners : /\ winners[r][<<profile[r], i>>] = None
                           /\ IF i < runner[r]
                                THEN /\ memo[r][<<profile[r], i>>] = Missing
                                     /\ store[<<profile[r], i>>] = None
                                ELSE memo[r][<<profile[r], i>>] = store[<<profile[r], i>>]
    BY <1>2 DEF Known
  <2>7. CASE store[e] # None
    <3>1. /\ ToNext(r) /\ Found(r, e) \in AllTactics
          /\ winners'[r] = [winners[r] EXCEPT ![e] = Found(r, e)]
      BY <1>2, <2>1, <2>2, <2>7, Markers DEF ToTaken, ToHit
    <3>2. profile[r] = NProfiles => Remembered(r)' # {}
      <4> SUFFICES ASSUME profile[r] = NProfiles PROVE Remembered(r)' # {}
        OBVIOUS
      <4>1. profile'[r] = NProfiles
        BY <3>1, Sizes DEF ToNext, Placing
      <4>2. winners'[r][e] = Found(r, e)
        BY <1>0, <3>1 DEF TypesAt
      <4>3. winners'[r][<<profile'[r], runner[r]>>] # None
        BY <1>0, <3>1, <4>1, <4>2, Markers
      <4> QED BY <1>0, <4>3 DEF Remembered, EntryOf
    <3> QED BY <1>2, <2>5, <3>1, <3>2, NextKnown
  <2>8. CASE store[e] = None
    <3>1. Found(r, e) = Missing /\ winners'[r] = winners[r]
      BY <2>1, <2>8 DEF ToTaken
    <3>2. \A i \in Runners : i <= runner[r] => memo'[r][<<profile[r], i>>] = Missing
      <4> TAKE i \in Runners
      <4>1. i < runner[r] \/ i = runner[r] \/ runner[r] < i
        BY <1>0, Sizes
      <4>2. <<profile[r], i>> \in Entries
        BY EntryFacts
      <4> QED BY <1>0, <1>1, <2>6, <3>1, <4>1, <4>2, Sizes DEF TypesAt
    <3>3. \A i \in Runners : runner[r] < i =>
            memo'[r][<<profile[r], i>>] = store[<<profile[r], i>>]
      <4> SUFFICES ASSUME NEW i \in Runners, runner[r] < i
                   PROVE  memo'[r][<<profile[r], i>>] = store[<<profile[r], i>>]
        OBVIOUS
      <4>1. <<profile[r], i>> # e /\ ~(i < runner[r])
        BY <1>0, Sizes
      <4>2. <<profile[r], i>> \in Entries
        BY EntryFacts
      <4>3. memo'[r][<<profile[r], i>>] = memo[r][<<profile[r], i>>]
        BY <1>0, <1>1, <4>1, <4>2 DEF TypesAt
      <4> QED BY <2>6, <4>1, <4>3
    <3>4. CASE runner[r] = Len(Tactics) /\ ToMiss(r)
      <4>1. \A i \in Runners : i <= runner[r]
        BY <3>4, Sizes
      <4>2. /\ phase'[r] = "tune" /\ pc'[r] = "prepare" /\ profile'[r] = profile[r]
        BY <1>2, <3>4 DEF ToMiss, Placing
      <4> QED BY <2>5, <2>6, <3>1, <3>2, <4>1, <4>2 DEF Known, Waiting
    <3>5. CASE Placing(r, pc[r], phase[r], profile[r], runner[r] + 1, tactic[r], best[r])
      <4>1. /\ phase'[r] = "tune" /\ pc'[r] = "probe" /\ profile'[r] = profile[r]
            /\ runner'[r] = runner[r] + 1
        BY <1>2, <3>5 DEF Placing
      <4>2. ASSUME NEW i \in Runners
            PROVE  IF i < runner'[r] THEN /\ memo'[r][<<profile[r], i>>] = Missing
                                          /\ store[<<profile[r], i>>] = None
                   ELSE memo'[r][<<profile[r], i>>] = store[<<profile[r], i>>]
        <5>1. CASE i < runner[r] + 1
          <6>1. i <= runner[r] /\ (i < runner[r] \/ i = runner[r])
            BY <1>0, <5>1, Sizes
          <6> QED BY <1>0, <2>6, <2>8, <3>2, <4>1, <5>1, <6>1
        <5>2. CASE ~(i < runner[r] + 1)
          BY <1>0, <3>3, <4>1, <5>2, Sizes
        <5> QED BY <5>1, <5>2
      <4> QED BY <1>1, <2>5, <2>6, <3>1, <4>1, <4>2 DEF Known, Waiting
    <3> QED BY <3>1, <3>4, <3>5 DEF ToTaken
  <2> QED BY <2>7, <2>8
<1>3. CASE phase[r] = "final"
  <2>1. profile[r] = NProfiles /\ Remembered(r) = {}
    BY <1>0, <1>3, Sizes DEF PlacedAt, Known
  <2>2. \A i \in Runners : memo[r][<<NProfiles, i>>] = Missing
    BY <1>3 DEF Known
  <2>3. Found(r, e) = Missing /\ winners'[r] = winners[r]
    BY <1>0, <2>1, <2>2, Markers DEF Found, ToTaken
  <2>4. \A i \in Runners : memo'[r][<<NProfiles, i>>] = Missing
    BY <1>0, <1>1, <2>1, <2>2, <2>3, EntryFacts DEF TypesAt
  <2>5. phase'[r] = "final" /\ profile'[r] = NProfiles
    BY <1>3, <2>1, <2>3 DEF ToTaken, ToMiss, ToReturn, Placing
  <2>6. Remembered(r)' = {}
    BY <2>1, <2>3, <2>5 DEF Remembered, EntryOf
  <2>7. pc'[r] \in {"probe", "done"}
    BY <1>3, <2>3 DEF ToTaken, ToMiss, ToReturn, Placing
  <2> QED BY <2>4, <2>5, <2>6, <2>7 DEF Known
<1> QED BY <1>2, <1>3

LEMMA PublishKnown ==
  ASSUME Types, Placed, NEW r \in Ranks, Known(r), Publish(r)
  PROVE  Known(r)'
<1>1. /\ PlacedAt(r) /\ TypesAt(r) /\ pc[r] = "publish" /\ phase[r] = "tune" /\ ToNext(r)
  BY TypesHere, PublishEffect DEF Placed, PlacedAt
<1>2. /\ \A p \in profile[r] + 1 .. NProfiles : Fresh(r, p)
      /\ \A i \in Runners : memo[r][<<profile[r], i>>] = Missing
  BY <1>1 DEF Known, Waiting
<1>3. CASE best[r].runner = 0
  <2>1. SameCaches(r)
    BY <1>3, PublishEffect
  <2>2. \A p \in profile[r] + 1 .. NProfiles : Fresh(r, p)'
    BY <1>2, <2>1 DEF SameCaches, Fresh
  <2>3. profile[r] = NProfiles => \A i \in Runners : memo'[r][<<NProfiles, i>>] = Missing
    BY <1>2, <2>1 DEF SameCaches
  <2> QED BY <1>1, <2>2, <2>3, NextKnown
<1>4. CASE best[r].runner # 0
  <2>1. PICK i \in Runners, t \in AllTactics : i = best[r].runner /\ t = best[r].tactic
    BY <1>1, <1>4 DEF TypesAt
  <2>2. Publishing(r, <<profile[r], i>>)
    BY <1>4, <2>1, PublishEffect
  <2>3. /\ winners'[r] = [winners[r] EXCEPT ![<<profile[r], i>>] = t]
        /\ (memo'[r] = memo[r] \/ memo'[r] = [memo[r] EXCEPT ![<<profile[r], i>>] = t])
        /\ (store' = store \/ store' = [store EXCEPT ![<<profile[r], i>>] = t])
    BY <2>1, <2>2 DEF Publishing
  <2>8. (winners'[r] = winners[r] \/ winners'[r] = [winners[r] EXCEPT ![<<profile[r], i>>] = t])
    BY <2>3
  <2>4. \A p \in profile[r] + 1 .. NProfiles : Fresh(r, p)'
    <3>1. \A p \in profile[r] + 1 .. NProfiles : Fresh(r, p)
      BY <1>2
    <3> HIDE DEF Types
    <3> QED BY <2>3, <2>8, <3>1, AheadSame
  <2>5. <<profile[r], i>> \in Entries
    BY <2>1, EntryFacts
  <2>6. winners'[r][<<profile[r], i>>] # None
    BY <1>1, <2>1, <2>3, <2>5, Markers DEF TypesAt
  <2>7. profile[r] = NProfiles => Remembered(r)' # {}
    <3> SUFFICES ASSUME profile[r] = NProfiles PROVE Remembered(r)' # {}
      OBVIOUS
    <3>1. profile'[r] = profile[r]
      BY <1>1, Sizes DEF ToNext, Placing
    <3> QED BY <2>1, <2>6, <3>1 DEF Remembered, EntryOf
  <2> QED BY <1>1, <2>4, <2>7, NextKnown
<1> QED BY <1>3, <1>4

LEMMA KnownMoving ==
  ASSUME Types, NEW r \in Ranks, Known(r), phase[r] = "tune", SameCaches(r),
         pc[r] \in Waiting \cup {"prepare", "runner", "profile"},
         pc'[r] \in Waiting \cup {"runner", "profile", "publish"},
         phase'[r] = phase[r], profile'[r] = profile[r]
  PROVE  Known(r)'
<1>1. /\ \A p \in profile[r] + 1 .. NProfiles : Fresh(r, p)
      /\ \A i \in Runners : /\ winners[r][<<profile[r], i>>] = None
                            /\ memo[r][<<profile[r], i>>] = Missing
  BY DEF Known, Waiting
<1>2. \A p \in profile[r] + 1 .. NProfiles : Fresh(r, p)'
  BY <1>1 DEF SameCaches, Fresh
<1> QED BY <1>1, <1>2 DEF Known, SameCaches, Waiting

LEMMA KnownStep ==
  ASSUME Types, Placed, NEW r \in Ranks, Known(r), Grouped(r), Step(r)
  PROVE  Known(r)'
<1>0. PlacedAt(r) /\ TypesAt(r)
  BY TypesHere DEF Placed
<1>1. CASE Attach(r)
  <2>1. /\ pc[r] = "attach" /\ phase[r] = "tune" /\ profile[r] = 1
        /\ pc'[r] = "search" /\ phase'[r] = "tune" /\ profile'[r] = 1
        /\ store' = store /\ winners'[r] = winners[r] /\ memo'[r] = Hydrated(memo[r])
    BY <1>0, <1>1, AttachEffect DEF Placing, PlacedAt
  <2>2. \A e \in Entries : winners'[r][e] = None /\ memo'[r][e] = store'[e]
    BY <2>1 DEF Known, Hydrated
  <2>3. \A p \in Profiles : \A i \in Runners : <<p, i>> \in Entries
    BY DEF Entries
  <2>4. \A p \in Profiles : Fresh(r, p)'
    BY <2>2, <2>3 DEF Fresh
  <2>5. \A p \in 1 .. NProfiles : Fresh(r, p)'
    BY <2>4 DEF Profiles
  <2>6. \A p \in profile'[r] + 1 .. NProfiles : Fresh(r, p)'
    BY <2>1, <2>5, Sizes
  <2>7. \A p : p = profile'[r] => Fresh(r, p)'
    BY <2>1, <2>5, Sizes
  <2>8. Fresh(r, profile[r])'
    BY <2>7 DEF Fresh
  <2> QED BY <2>1, <2>6, <2>8 DEF Known, Waiting
<1>2. CASE SearchMemory(r)
  <2>1. pc[r] = "search" /\ SameCaches(r)
    BY <1>2, SearchEffect
  <2>2. CASE phase[r] = "tune"
    <3>1. /\ \A p \in profile[r] + 1 .. NProfiles : Fresh(r, p)
          /\ Fresh(r, profile[r])
      BY <2>1, <2>2 DEF Known
    <3>2. Remembered(r) = {}
      BY <3>1 DEF Remembered, Fresh, EntryOf
    <3>3. /\ pc'[r] = "probe" /\ phase'[r] = "tune" /\ profile'[r] = profile[r]
          /\ runner'[r] = 1
      BY <1>0, <1>2, <2>1, <2>2, <3>2, SearchEffect DEF Placing, PlacedAt
    <3>4. \A p \in profile[r] + 1 .. NProfiles : Fresh(r, p)'
      BY <2>1, <3>1 DEF SameCaches, Fresh
    <3>5. \A i \in Runners : ~(i < runner'[r])
      BY <3>3, Sizes
    <3> QED BY <2>1, <3>1, <3>3, <3>4, <3>5 DEF Known, Fresh, SameCaches, Waiting
  <2>3. CASE phase[r] = "final"
    <3>1. profile[r] = NProfiles
      BY <1>0, <2>3 DEF PlacedAt
    <3>2. CASE Remembered(r) # {}
      BY <1>2, <2>3, <3>2, SearchEffect DEF Known, ToHit, ToReturn, Placing
    <3>3. CASE Remembered(r) = {}
      <4>1. /\ pc'[r] = "probe" /\ phase'[r] = "final" /\ profile'[r] = profile[r]
        BY <1>2, <2>3, <3>3, SearchEffect DEF Placing
      <4>2. Remembered(r)' = {}
        BY <2>1, <3>3, <4>1 DEF Remembered, EntryOf, SameCaches
      <4>3. \A i \in Runners : memo'[r][<<NProfiles, i>>] = Missing
        BY <2>1, <2>3, <3>3 DEF Known, SameCaches
      <4> QED BY <4>1, <4>2, <4>3 DEF Known
    <3> QED BY <3>2, <3>3
  <2>4. CASE phase[r] = "serve"
    <3>1. phase'[r] = "serve" /\ pc'[r] # "attach"
      BY <1>2, <2>4, SearchEffect DEF ToHit, ToReturn, Placing
    <3> QED BY <3>1 DEF Known
  <2> QED BY <1>0, <2>2, <2>3, <2>4 DEF TypesAt
<1>3. CASE ProbeStore(r)
  <2>1. /\ pc[r] = "probe"
        /\ ToTaken(r, EntryOf(r, runner[r]), Found(r, EntryOf(r, runner[r])))
    BY <1>3, ProbeEffect
  <2>2. CASE phase[r] \in {"tune", "final"}
    BY <2>1, <2>2, ProbeKnown
  <2>3. CASE phase[r] = "serve"
    <3>1. phase'[r] = "serve" /\ pc'[r] # "attach"
      BY <2>1, <2>3 DEF ToTaken, ToHit, ToMiss, ToReturn, Placing
    <3> QED BY <3>1 DEF Known
  <2> QED BY <1>0, <2>2, <2>3 DEF TypesAt
<1>4. CASE PrepareInputs(r) \/ PrepareRunner(r) \/ ProfileTactic(r)
  <2>1. /\ phase[r] = "tune" /\ SameCaches(r)
        /\ pc[r] \in {"prepare", "runner", "profile"} /\ pc'[r] \in Waiting
        /\ phase'[r] = phase[r] /\ profile'[r] = profile[r]
    BY <1>0, <1>4, EnterEffect DEF Entering, Placing, PlacedAt, Waiting
  <2> QED BY <2>1, KnownMoving
<1>5. CASE GiveUp(r)
  <2>1. phase'[r] = "tune" /\ pc'[r] = "done"
    BY <1>0, <1>5, GiveUpEffect DEF ToReturn, Placing, PlacedAt, Leaving
  <2> QED BY <2>1 DEF Known, Waiting
<1>6. CASE StartProfile(r) \/ StartRunner(r) \/ Judge(r)
  <2>1. SameCaches(r) /\ pc[r] \in Waiting
    BY <1>6, StartProfileEffect, StartRunnerEffect, JudgeEffect DEF Leaving, Waiting
  <2>2. phase[r] = "tune"
    BY <1>0, <2>1 DEF PlacedAt, Waiting
  <2>3. /\ pc'[r] \in {"runner", "profile", "publish"}
        /\ phase'[r] = phase[r] /\ profile'[r] = profile[r]
    BY <1>6, StartProfileEffect, StartRunnerEffect, JudgeEffect
       DEF OnToTactic, OnToRunner, Placing
  <2> QED BY <2>1, <2>2, <2>3, KnownMoving
<1>7. CASE Publish(r)
  BY <1>7, PublishKnown
<1>8. CASE Reload(r)
  BY <1>8, ReloadEffect DEF Known, Placing
<1>9. ~(Unreadable(r) \/ OutOfMemory(r))
  BY UnreadableEffect, OutOfMemoryEffect
<1> QED BY <1>1, <1>2, <1>3, <1>4, <1>5, <1>6, <1>7, <1>8, <1>9 DEF Step

LEMMA KnownAllStep ==
  ASSUME Types, Placed, NoLateLookup, KnownAll, NEW r \in Ranks, Step(r)
  PROVE  KnownAll'
<1> SUFFICES ASSUME OneGroup', NEW s \in Ranks PROVE Known(s)'
  BY DEF KnownAll
<1>1. OneGroup /\ Grouped(r)
  BY StepLocal, GroupFacts DEF Local, OneGroup
<1>2. CASE s = r
  BY <1>1, <1>2, KnownStep DEF KnownAll
<1>3. CASE s # r
  BY <1>1, <1>3, KnownOthers
<1> QED BY <1>2, <1>3

LEMMA KnownAllComplete ==
  ASSUME Types, KnownAll, NEW g \in groups, Complete(g)
  PROVE  KnownAll'
<1> SUFFICES ASSUME OneGroup', NEW r \in Ranks PROVE Known(r)'
  BY DEF KnownAll
<1>1. OneGroup
  BY CompleteEffect DEF OneGroup
<1>2. /\ pc'[r] = pc[r] /\ phase'[r] = phase[r] /\ profile'[r] = profile[r]
      /\ runner'[r] = runner[r] /\ winners'[r] = winners[r] /\ memo'[r] = memo[r]
      /\ store' = store
  BY CompleteEffect DEF Placing, SameCaches
<1>3. Remembered(r)' = Remembered(r) /\ \A p : Fresh(r, p)' = Fresh(r, p)
  BY <1>2 DEF Remembered, Fresh, EntryOf
<1>4. Fresh(r, profile[r])' = Fresh(r, profile[r])
  BY <1>2 DEF Fresh
<1> QED BY <1>1, <1>2, <1>3, <1>4 DEF KnownAll, Known

-----------------------------------------------------------------------------
\* Where the ranks of the group are heading.
LEMMA LookupStored ==
  ASSUME Types, NEW p \in Profiles
  PROVE  /\ StoredFor(p) # {} /\ p < NProfiles => FromLookup(p) = FromLookup(p + 1)
         /\ StoredFor(p) # {} /\ p = NProfiles => FromLookup(p) = Over(StoredChoice)
         /\ StoredFor(p) = {} => FromLookup(p) = At("inputs", p, 1, 1, NoBest)
<1>1. p \in Nat /\ NProfiles \in Nat /\ p \in p .. NProfiles
  BY Sizes DEF Profiles
<1>2. ASSUME StoredFor(p) # {}, p < NProfiles PROVE FromLookup(p) = FromLookup(p + 1)
  <2>1. Unstored(p) = Unstored(p + 1)
    <3>1. \A x \in p .. NProfiles : x = p \/ x \in p + 1 .. NProfiles
      BY <1>1
    <3>2. p + 1 .. NProfiles \subseteq p .. NProfiles
      BY <1>1
    <3> QED BY <1>2, <3>1, <3>2 DEF Unstored
  <2> QED BY <2>1 DEF FromLookup
<1>3. ASSUME StoredFor(p) # {}, p = NProfiles PROVE FromLookup(p) = Over(StoredChoice)
  <2>1. p .. NProfiles = {p}
    BY <1>1, <1>3
  <2>2. Unstored(p) = {}
    BY <1>3, <2>1 DEF Unstored
  <2> QED BY <2>2 DEF FromLookup
<1>4. ASSUME StoredFor(p) = {} PROVE FromLookup(p) = At("inputs", p, 1, 1, NoBest)
  <2>1. p \in Unstored(p) /\ Unstored(p) \in SUBSET Nat
    BY <1>1, <1>4 DEF Unstored
  <2>2. \A y \in Unstored(p) : p <= y
    BY <1>1 DEF Unstored
  <2>3. Min(Unstored(p)) = p
    BY <2>1, <2>2, MinIs
  <2> QED BY <2>1, <2>3 DEF FromLookup
<1> QED BY <1>2, <1>3, <1>4

\* The rest of the way depends on the store only at the profiles to come.
LEMMA FromSame ==
  ASSUME NEW p \in 0 .. NProfiles,
         \A x \in p + 1 .. NProfiles : \A i \in Runners : store'[<<x, i>>] = store[<<x, i>>]
  PROVE  /\ \A x \in p + 1 .. NProfiles : FromLookup(x)' = FromLookup(x)
         /\ \A b : FromEnd(p, b)' = FromEnd(p, b)
         /\ \A i, j, b : FromRunner(p, i, j, b)' = FromRunner(p, i, j, b)
         /\ \A i, j, k, b : FromTactic(p, i, j, k, b)' = FromTactic(p, i, j, k, b)
<1>1. p \in Nat /\ NProfiles \in Nat
  BY Sizes DEF Profiles
<1>2. \A x \in p + 1 .. NProfiles : StoredFor(x)' = StoredFor(x)
  BY DEF StoredFor
<1>3. \A x \in p + 1 .. NProfiles : Unstored(x)' = Unstored(x)
  <2> TAKE x \in p + 1 .. NProfiles
  <2>1. x .. NProfiles \subseteq p + 1 .. NProfiles
    BY <1>1
  <2> QED BY <1>2, <2>1 DEF Unstored
<1>4. p + 1 <= NProfiles => StoredChoice' = StoredChoice
  <2> SUFFICES ASSUME p + 1 <= NProfiles PROVE StoredChoice' = StoredChoice
    OBVIOUS
  <2>1. NProfiles \in p + 1 .. NProfiles
    BY <1>1
  <2>2. StoredFor(NProfiles)' = StoredFor(NProfiles)
    BY <1>2, <2>1
  <2>3. StoredFor(NProfiles) # {} => Min(StoredFor(NProfiles)) \in Runners
    <3>1. StoredFor(NProfiles) \subseteq Runners /\ Runners \subseteq Nat
      BY Sizes DEF StoredFor
    <3> QED BY <3>1, MinIn
  <2> QED BY <2>1, <2>2, <2>3 DEF StoredChoice
<1> QED BY <1>1, <1>3, <1>4 DEF FromLookup, FromEnd, FromRunner, FromTactic

\* No step of one rank changes where another one is heading.
LEMMA HeadingOthers ==
  ASSUME Types, Placed, NoLateLookup, OneGroup, NEW r \in Ranks, Step(r),
         NEW s \in Ranks \ {r}, phase[s] # "serve"
  PROVE  Heading(s)' = Heading(s)
<1>1. SameRank(s) /\ TypesAt(s)
  BY StepLocal, TypesHere DEF Local
<1>2. CASE pc[s] = "done"
  BY <1>1, <1>2 DEF Heading, SameRank
<1>3. CASE phase[s] # "tune" /\ pc[s] # "done"
  <2>1. pc[s] \in {"search", "probe"}
    BY <1>3 DEF Placed, PlacedAt
  <2>2. Remembered(s)' = Remembered(s)
    BY <1>1 DEF Remembered, EntryOf, SameRank
  <2>3. FinalChoice(s)' = FinalChoice(s)
    BY <1>1, <2>2 DEF FinalChoice, EntryOf, SameRank
  <2> QED BY <1>1, <1>3, <2>1, <2>3 DEF Heading, SameRank
<1>4. CASE phase[s] = "tune" /\ pc[s] # "done"
  <2>1. PICK p \in Profiles : p = profile[s]
    BY <1>1 DEF TypesAt
  <2>2. /\ p \in 0 .. NProfiles /\ p - 1 \in 0 .. NProfiles /\ (p - 1) + 1 = p
        /\ p .. NProfiles = {p} \cup (p + 1 .. NProfiles)
    BY <2>1, Sizes DEF Profiles
  <2>3. /\ \A x \in p + 1 .. NProfiles : \A i \in Runners : store'[<<x, i>>] = store[<<x, i>>]
        /\ Looking(s) => \A i \in Runners : store'[<<p, i>>] = store[<<p, i>>]
    BY <1>4, <2>1, StoreAhead
  <2>4. /\ \A b : FromEnd(p, b)' = FromEnd(p, b)
        /\ \A i, j, b : FromRunner(p, i, j, b)' = FromRunner(p, i, j, b)
        /\ \A i, j, k, b : FromTactic(p, i, j, k, b)' = FromTactic(p, i, j, k, b)
    BY <2>2, <2>3, FromSame
  <2>5. CASE pc[s] \in {"attach", "search", "probe"}
    <3>1. \A x \in p .. NProfiles : \A i \in Runners : store'[<<x, i>>] = store[<<x, i>>]
      BY <1>4, <2>2, <2>3, <2>5 DEF Looking
    <3>2. \A x \in p .. NProfiles : FromLookup(x)' = FromLookup(x)
      BY <2>2, <3>1, FromSame
    <3>3. FromLookup(p)' = FromLookup(p)
      BY <2>2, <3>2
    <3>4. FromLookup(profile[s])' = FromLookup(profile[s])
      BY <1>1, <2>1, <3>3 DEF SameRank, FromLookup
    <3> QED BY <1>1, <1>4, <2>5, <3>4 DEF Heading, SameRank
  <2>6. CASE pc[s] \in {"prepare", "runner", "profile"} \/ (pc[s] \in Waiting /\ outcome[s] = None)
    BY <1>1, <2>6 DEF Heading, SameRank, Here, Waiting
  <2>7. CASE pc[s] = "publish"
    <3>1. FromEnd(profile[s], best[s])' = FromEnd(profile[s], best[s])
      BY <1>1, <2>1, <2>4 DEF SameRank
    <3> QED BY <1>1, <2>7, <3>1 DEF Heading, SameRank, Waiting
  <2>8. CASE pc[s] \in Waiting /\ outcome[s] # None
    <3>1. Judged(s)' = Judged(s)
      BY <1>1 DEF SameRank, Judged
    <3>2. FromWait(s)' = FromWait(s)
      BY <1>1, <2>1, <2>4, <3>1 DEF SameRank, FromWait
    <3> QED BY <1>1, <2>8, <3>2 DEF Heading, SameRank, Waiting
  <2> QED BY <1>1, <1>4, <2>5, <2>6, <2>7, <2>8 DEF TypesAt, Waiting
<1> QED BY <1>2, <1>3, <1>4

\* Nor does a step of the rank itself.  One lemma for the steps that leave a
\* lookup or a reduction ...
LEMMA FromStill ==
  ASSUME store' = store
  PROVE  /\ \A p : FromLookup(p)' = FromLookup(p)
         /\ \A p, b : FromEnd(p, b)' = FromEnd(p, b)
         /\ \A p, i, j, b : FromRunner(p, i, j, b)' = FromRunner(p, i, j, b)
BY DEF FromLookup, FromEnd, FromRunner, Unstored, StoredFor, StoredChoice

LEMMA HeadingOnRunner ==
  ASSUME NEW r \in Ranks, store' = store, NEW i, NEW b, OnToRunner(r, i, b)
  PROVE  Heading(r)' = FromRunner(profile[r], i, tactic[r], b)
<1>1. CASE i <= Len(Tactics)
  BY <1>1 DEF OnToRunner, Placing, Heading, Here, FromRunner, Waiting
<1>2. CASE ~(i <= Len(Tactics))
  <2>1. FromEnd(profile[r], best[r])' = FromEnd(profile[r], b)
    BY <1>2, FromStill DEF OnToRunner, Placing
  <2> QED BY <1>2, <2>1 DEF OnToRunner, Placing, Heading, FromRunner, Waiting
<1> QED BY <1>1, <1>2

LEMMA HeadingOnTactic ==
  ASSUME NEW r \in Ranks, store' = store, NEW k, NEW b, OnToTactic(r, k, b)
  PROVE  Heading(r)' = FromTactic(profile[r], runner[r], tactic[r], k, b)
<1>1. CASE k <= Len(Tactics[runner[r]])
  BY <1>1 DEF OnToTactic, Placing, Heading, Here, FromTactic, Waiting
<1>2. CASE ~(k <= Len(Tactics[runner[r]]))
  BY <1>2, HeadingOnRunner DEF OnToTactic, FromTactic
<1> QED BY <1>1, <1>2

LEMMA LeavingFrom ==
  ASSUME NEW r \in Ranks, NEW l \in Waiting, Leaving(r, l)
  PROVE  Heading(r) = FromWait(r) /\ store' = store
BY DEF Leaving, Heading, Waiting, SameCaches

LEMMA HeadingLeaves ==
  ASSUME Types, NEW r \in Ranks, GiveUp(r) \/ StartProfile(r) \/ StartRunner(r) \/ Judge(r)
  PROVE  Heading(r)' = Heading(r)
<1>1. CASE GiveUp(r)
  <2>1. Heading(r) = Over(Fallback)
    BY <1>1, GiveUpEffect, LeavingFrom DEF Leaving, FromWait, Waiting
  <2> QED BY <1>1, <2>1, GiveUpEffect DEF ToReturn, Placing, Heading, Waiting
<1>2. CASE StartProfile(r)
  <2>1. Heading(r) = FromRunner(profile[r], 1, tactic[r], best[r]) /\ store' = store
    BY <1>2, StartProfileEffect, LeavingFrom DEF Leaving, FromWait, Waiting
  <2> QED BY <1>2, <2>1, StartProfileEffect, HeadingOnRunner
<1>3. CASE StartRunner(r)
  <2>1. /\ Heading(r) = FromTactic(profile[r], runner[r], tactic[r], 1, best[r])
        /\ store' = store
    BY <1>3, StartRunnerEffect, LeavingFrom DEF Leaving, FromWait, Waiting
  <2> QED BY <1>3, <2>1, StartRunnerEffect, HeadingOnTactic
<1>4. CASE Judge(r)
  <2>1. /\ Heading(r) = FromTactic(profile[r], runner[r], tactic[r], tactic[r] + 1, Judged(r))
        /\ store' = store
    BY <1>4, JudgeEffect, LeavingFrom DEF Leaving, FromWait, Waiting
  <2> QED BY <1>4, <2>1, JudgeEffect, HeadingOnTactic
<1> QED BY <1>1, <1>2, <1>3, <1>4

LEMMA HeadingEnters ==
  ASSUME Types, Placed, NEW r \in Ranks,
         PrepareInputs(r) \/ PrepareRunner(r) \/ ProfileTactic(r)
  PROVE  Heading(r)' = Heading(r)
<1>1. PICK l \in Waiting : /\ Entering(r, l) /\ pc[r] \notin Waiting
                           /\ Heading(r) = Here(r, l)
  BY EnterEffect DEF Heading, Waiting
<1>2. outcome'[r] = None
  BY <1>1 DEF Entering, Placed, PlacedAt
<1> QED BY <1>1, <1>2 DEF Entering, Placing, Heading, Here, Waiting

\* ... and one for each step of a lookup and for a publication.  A rank that
\* finds an entry heads for where one that does not is sent by the next profile.
LEMMA HeadingSearches ==
  ASSUME Types, Placed, NEW r \in Ranks, Known(r), phase[r] # "serve",
         Attach(r) \/ SearchMemory(r)
  PROVE  Heading(r)' = Heading(r)
<1>0. PlacedAt(r) /\ TypesAt(r)
  BY TypesHere DEF Placed
<1>1. CASE Attach(r)
  <2>1. /\ pc[r] = "attach" /\ phase[r] = "tune" /\ store' = store
        /\ pc'[r] = "search" /\ phase'[r] = "tune" /\ profile'[r] = profile[r]
    BY <1>0, <1>1, AttachEffect DEF PlacedAt, Placing
  <2>2. FromLookup(profile[r])' = FromLookup(profile[r])
    BY <2>1, FromStill
  <2> QED BY <2>1, <2>2 DEF Heading, Waiting
<1>2. CASE SearchMemory(r) /\ phase[r] = "tune"
  <2>1. pc[r] = "search" /\ SameCaches(r)
    BY <1>2, SearchEffect
  <2>2. Remembered(r) = {}
    BY <1>2, <2>1 DEF Known, Fresh, Remembered, EntryOf
  <2>3. /\ pc'[r] = "probe" /\ phase'[r] = "tune" /\ profile'[r] = profile[r]
    BY <1>2, <2>2, SearchEffect DEF Placing
  <2>4. FromLookup(profile[r])' = FromLookup(profile[r])
    BY <2>1, <2>3, FromStill DEF SameCaches
  <2> QED BY <1>2, <2>1, <2>3, <2>4 DEF Heading, Waiting
<1>3. CASE SearchMemory(r) /\ phase[r] # "tune"
  <2>1. /\ pc[r] = "search" /\ SameCaches(r)
        /\ Heading(r) = Over(FinalChoice(r))
    BY <1>3, SearchEffect DEF Heading, Waiting
  <2>2. CASE Remembered(r) # {}
    <3>1. pc'[r] = "done" /\ choice'[r] = FinalChoice(r)
      BY <1>3, <2>2, SearchEffect DEF ToHit, ToReturn, Placing, FinalChoice
    <3> QED BY <2>1, <3>1 DEF Heading, Waiting
  <2>3. CASE Remembered(r) = {}
    <3>1. pc'[r] = "probe" /\ phase'[r] = phase[r] /\ profile'[r] = profile[r]
      BY <1>3, <2>3, SearchEffect DEF Placing
    <3>2. Remembered(r)' = {}
      BY <2>1, <2>3, <3>1 DEF Remembered, EntryOf, SameCaches
    <3>3. FinalChoice(r)' = FinalChoice(r)
      BY <2>3, <3>2 DEF FinalChoice
    <3> QED BY <1>3, <2>1, <3>1, <3>3 DEF Heading, Waiting
  <2> QED BY <2>2, <2>3
<1> QED BY <1>1, <1>2, <1>3

\* The only winner a rank holds for the operation's own shape is what the
\* lookup will return.
LEMMA FinalOne ==
  ASSUME NEW r \in Ranks, NEW i \in Runners, NEW t, t # None,
         winners'[r][<<profile'[r], i>>] = t,
         \A j \in Runners : j # i => winners'[r][<<profile'[r], j>>] = None
  PROVE  FinalChoice(r)' = <<i, t>>
<1>1. Remembered(r)' = {i}
  BY DEF Remembered, EntryOf
<1>2. Min({i}) = i
  <2>1. i \in Nat /\ {i} \in SUBSET Nat
    BY Sizes
  <2> QED BY <2>1, MinIs
<1> QED BY <1>1, <1>2 DEF FinalChoice, EntryOf

LEMMA HeadingPublishes ==
  ASSUME Types, Placed, NEW r \in Ranks, Known(r), Publish(r)
  PROVE  Heading(r)' = Heading(r)
<1>1. /\ PlacedAt(r) /\ TypesAt(r) /\ pc[r] = "publish" /\ phase[r] = "tune" /\ ToNext(r)
  BY TypesHere, PublishEffect DEF Placed, PlacedAt
<1>2. \A i \in Runners : winners[r][<<profile[r], i>>] = None
  BY <1>1 DEF Known, Waiting
<1>3. Heading(r) = FromEnd(profile[r], best[r])
  BY <1>1 DEF Heading, Waiting
<1>4. CASE profile[r] < NProfiles
  <2>1. PICK p \in Profiles : p = profile[r]
    BY <1>1 DEF TypesAt
  <2>2. /\ \A x \in p + 1 .. NProfiles : x \in Profiles /\ x # p
        /\ p \in 0 .. NProfiles /\ p + 1 \in p + 1 .. NProfiles
    BY <1>4, <2>1, Sizes DEF Profiles
  <2>3. \A x \in p + 1 .. NProfiles : \A i \in Runners : store'[<<x, i>>] = store[<<x, i>>]
    BY <2>1, <2>2, PublishStore
  <2>4. FromLookup(p + 1)' = FromLookup(p + 1)
    BY <2>2, <2>3, FromSame
  <2>5. pc'[r] = "search" /\ phase'[r] = "tune" /\ profile'[r] = profile[r] + 1
    BY <1>1, <1>4 DEF ToNext, Placing
  <2>6. FromLookup(profile[r])' = FromLookup(p + 1)
    BY <2>1, <2>4, <2>5 DEF FromLookup
  <2> QED BY <1>3, <1>4, <2>1, <2>5, <2>6 DEF Heading, Waiting, FromEnd
<1>5. CASE ~(profile[r] < NProfiles)
  <2>1. pc'[r] = "search" /\ phase'[r] = "final" /\ profile'[r] = profile[r]
    BY <1>1, <1>5 DEF ToNext, Placing
  <2>2. Heading(r)' = Over(FinalChoice(r)')
    BY <2>1 DEF Heading, Waiting, Over
  <2>3. CASE best[r].runner = 0
    <3>1. Remembered(r)' = {}
      BY <1>2, <2>1, <2>3, PublishEffect DEF Remembered, EntryOf, SameCaches
    <3> QED BY <1>3, <1>5, <2>2, <2>3, <3>1 DEF FinalChoice, FromEnd
  <2>4. CASE best[r].runner # 0
    <3>1. PICK i \in Runners, t \in AllTactics : i = best[r].runner /\ t = best[r].tactic
      BY <1>1, <2>4 DEF TypesAt
    <3>2. /\ winners'[r] = [winners[r] EXCEPT ![<<profile[r], i>>] = t]
          /\ \A j \in Runners : <<profile[r], j>> \in Entries
      BY <2>4, <3>1, PublishEffect, EntryFacts DEF Publishing
    <3>3. /\ t # None /\ winners'[r][<<profile'[r], i>>] = t
          /\ \A j \in Runners : j # i => winners'[r][<<profile'[r], j>>] = None
      BY <1>1, <1>2, <2>1, <3>1, <3>2, Markers DEF TypesAt
    <3>4. FinalChoice(r)' = <<i, t>>
      BY <3>3, FinalOne
    <3> QED BY <1>3, <1>5, <2>2, <2>4, <3>1, <3>4 DEF FromEnd
  <2> QED BY <2>3, <2>4
<1> QED BY <1>4, <1>5

LEMMA HeadingProbes ==
  ASSUME Types, Placed, NEW r \in Ranks, Known(r), phase[r] # "serve", ProbeStore(r)
  PROVE  Heading(r)' = Heading(r)
<1>0. PlacedAt(r) /\ TypesAt(r)
  BY TypesHere DEF Placed
<1>1. PICK i \in Runners : i = runner[r]
  BY <1>0, ProbeEffect DEF PlacedAt
<1>2. PICK p \in Profiles : p = profile[r]
  BY <1>0 DEF TypesAt
<1>3. PICK t : t = Found(r, <<p, i>>)
  OBVIOUS
<1>4. pc[r] = "probe" /\ store' = store /\ ToTaken(r, <<p, i>>, t)
  BY <1>1, <1>2, <1>3, ProbeEffect DEF EntryOf, ToTaken
<1>5. CASE phase[r] = "tune"
  <2>1. /\ t = IF store[<<p, i>>] = None THEN Missing ELSE store[<<p, i>>]
        /\ store[<<p, i>>] \in {None} \cup AllTactics /\ <<p, i>> \in Entries
        /\ \A j \in 1 .. i - 1 : store[<<p, j>>] = None
    BY <1>1, <1>2, <1>3, <1>4, <1>5, TuneFound
  <2>2. \A j \in Runners : winners[r][<<p, j>>] = None
    BY <1>2, <1>4, <1>5 DEF Known
  <2>3. Heading(r) = FromLookup(p)
    BY <1>2, <1>4, <1>5 DEF Heading, Waiting
  <2>4. CASE t # Missing
    <3>1. /\ store[<<p, i>>] = t /\ t # None /\ ToNext(r)
          /\ winners'[r] = [winners[r] EXCEPT ![<<p, i>>] = t]
      BY <1>4, <1>5, <2>1, <2>4 DEF ToTaken, ToHit
    <3>2. StoredFor(p) # {} /\ Min(StoredFor(p)) = i
      BY <2>1, <3>1, StoredMin
    <3>3. CASE p < NProfiles
      <4>1. pc'[r] = "search" /\ phase'[r] = "tune" /\ profile'[r] = p + 1
        BY <1>2, <1>5, <3>1, <3>3 DEF ToNext, Placing
      <4>2. FromLookup(p) = FromLookup(p + 1)
        BY <3>2, <3>3, LookupStored
      <4>3. FromLookup(profile[r])' = FromLookup(p + 1)
        BY <1>4, <4>1, FromStill
      <4> QED BY <2>3, <4>1, <4>2, <4>3 DEF Heading, Waiting
    <3>4. CASE ~(p < NProfiles)
      <4>1. pc'[r] = "search" /\ phase'[r] = "final" /\ profile'[r] = p
        BY <1>2, <1>5, <3>1, <3>4 DEF ToNext, Placing
      <4>2. p = NProfiles
        BY <3>4, Sizes DEF Profiles
      <4>3. \A j \in Runners : <<p, j>> \in Entries
        BY DEF Entries
      <4>4. /\ winners'[r][<<profile'[r], i>>] = t
            /\ \A j \in Runners : j # i => winners'[r][<<profile'[r], j>>] = None
        BY <1>0, <2>1, <2>2, <3>1, <4>1, <4>3 DEF TypesAt
      <4>5. FinalChoice(r)' = <<i, t>>
        BY <3>1, <4>4, FinalOne
      <4>6. StoredChoice = <<i, t>>
        BY <3>1, <3>2, <4>2 DEF StoredChoice
      <4>7. FromLookup(p) = Over(StoredChoice)
        BY <3>2, <4>2, LookupStored
      <4> QED BY <2>3, <4>1, <4>5, <4>6, <4>7 DEF Heading, Waiting
    <3> QED BY <3>3, <3>4
  <2>5. CASE t = Missing /\ i = Len(Tactics)
    <3>1. /\ pc'[r] = "prepare" /\ profile'[r] = p /\ runner'[r] = 1
          /\ tactic'[r] = 1 /\ best'[r] = NoBest
      BY <1>1, <1>2, <1>4, <1>5, <2>5, Sizes DEF ToTaken, ToMiss, Placing
    <3>2. StoredFor(p) = {}
      <4>1. store[<<p, i>>] = None
        BY <2>1, <2>5, Markers
      <4>2. \A j \in Runners : j = i \/ j \in 1 .. i - 1
        BY <2>5, Sizes
      <4> QED BY <2>1, <4>1, <4>2 DEF StoredFor
    <3>3. FromLookup(p) = At("inputs", p, 1, 1, NoBest)
      BY <3>2, LookupStored
    <3>4. Heading(r)' = At("inputs", p, 1, 1, NoBest)
      BY <3>1 DEF Heading, Waiting, Here
    <3> QED BY <2>3, <3>3, <3>4
  <2>6. CASE t = Missing /\ i # Len(Tactics)
    <3>1. pc'[r] = "probe" /\ phase'[r] = "tune" /\ profile'[r] = p
      BY <1>1, <1>2, <1>4, <1>5, <2>6 DEF ToTaken, Placing
    <3>2. FromLookup(profile[r])' = FromLookup(p)
      BY <1>4, <3>1, FromStill
    <3> QED BY <2>3, <3>1, <3>2 DEF Heading, Waiting
  <2> QED BY <2>4, <2>5, <2>6
<1>6. CASE phase[r] = "final"
  <2>1. /\ Remembered(r) = {} /\ memo[r][<<p, i>>] = Missing
    BY <1>0, <1>1, <1>2, <1>4, <1>6 DEF Known, PlacedAt
  <2>2. t = Missing
    BY <1>3, <2>1, Markers DEF Found
  <2>3. Heading(r) = Over(Fallback)
    BY <1>4, <1>6, <2>1 DEF Heading, Waiting, FinalChoice
  <2>4. CASE i = Len(Tactics)
    <3>1. pc'[r] = "done" /\ choice'[r] = Fallback
      BY <1>1, <1>4, <1>6, <2>2, <2>4, Sizes DEF ToTaken, ToMiss, ToReturn, Placing
    <3> QED BY <2>3, <3>1 DEF Heading, Waiting
  <2>5. CASE i # Len(Tactics)
    <3>1. /\ pc'[r] = "probe" /\ phase'[r] = "final" /\ profile'[r] = profile[r]
          /\ winners'[r] = winners[r]
      BY <1>1, <1>4, <1>6, <2>2, <2>5 DEF ToTaken, Placing
    <3>2. Remembered(r)' = {}
      BY <2>1, <3>1 DEF Remembered, EntryOf
    <3> QED BY <2>3, <3>1, <3>2 DEF Heading, Waiting, FinalChoice
  <2> QED BY <2>4, <2>5
<1> QED BY <1>0, <1>5, <1>6 DEF TypesAt

LEMMA LockStep ==
  ASSUME Types, Placed, NoLateLookup, KnownAll, Lockstep, NEW r \in Ranks, Step(r)
  PROVE  Lockstep'
<1> SUFFICES ASSUME OneGroup',
                    NEW q \in Ranks, NEW s \in Ranks, phase'[q] # "serve", phase'[s] # "serve"
             PROVE  Heading(q)' = Heading(s)'
  BY DEF Lockstep
<1>1. Local(r) /\ OneGroup /\ Grouped(r) /\ Known(r)
  BY StepLocal, GroupFacts DEF Local, OneGroup, KnownAll
<1>2. ASSUME NEW x \in Ranks, phase'[x] # "serve"
      PROVE  phase[x] # "serve" /\ Heading(x)' = Heading(x)
  <2>1. CASE x # r
    <3>1. phase[x] # "serve"
      BY <1>1, <1>2, <2>1 DEF Local, SameRank
    <3> QED BY <1>1, <2>1, <3>1, HeadingOthers
  <2>2. CASE x = r
    <3>1. ~Reload(r)
      BY <1>2, <2>2, ReloadEffect DEF Placing
    <3>2. phase[r] # "serve"
      BY <1>2, <2>2, <3>1, NoServe
    <3>3. ~(Unreadable(r) \/ OutOfMemory(r))
      BY <1>1, UnreadableEffect, OutOfMemoryEffect
    <3>4. Heading(r)' = Heading(r)
      BY <1>1, <3>1, <3>2, <3>3, HeadingSearches, HeadingProbes, HeadingEnters, HeadingLeaves,
         HeadingPublishes DEF Step
    <3> QED BY <2>2, <3>2, <3>4
  <2> QED BY <2>1, <2>2
<1> QED BY <1>1, <1>2 DEF Lockstep

LEMMA LockComplete ==
  ASSUME Types, Placed, Lockstep, NEW g \in groups, Complete(g)
  PROVE  Lockstep'
<1> SUFFICES ASSUME OneGroup', NEW q \in Ranks, NEW s \in Ranks
             PROVE  Heading(q)' = Heading(s)'
  BY DEF Lockstep
<1>1. OneGroup
  BY CompleteEffect DEF OneGroup
<1>2. /\ pc[s] \in Waiting /\ pc[q] = pc[s] /\ profile[q] = profile[s] /\ runner[q] = runner[s]
      /\ tactic[q] = tactic[s] /\ best[q] = best[s] /\ outcome'[q] = outcome'[s]
  BY <1>1, CompleteTogether
<1>3. \A x \in Ranks : Placing(x, pc[x], phase[x], profile[x], runner[x], tactic[x], best[x])
  BY CompleteEffect
<1>4. Judged(q)' = Judged(s)'
  BY <1>2, <1>3 DEF Placing, Judged
<1>5. FromWait(q)' = FromWait(s)'
  BY <1>2, <1>3, <1>4 DEF Placing, FromWait
<1> QED BY <1>2, <1>3, <1>5 DEF Placing, Heading, Here, Waiting

-----------------------------------------------------------------------------
LEMMA InvInit == Init => IInv
<1> SUFFICES ASSUME Init PROVE IInv
  OBVIOUS
<1>1. /\ winners = [r \in Ranks |-> [e \in Entries |-> None]]
      /\ memo = [r \in Ranks |-> [e \in Entries |-> None]]
      /\ pc = [r \in Ranks |-> "attach"] /\ phase = [r \in Ranks |-> "tune"]
      /\ profile = [r \in Ranks |-> 1] /\ runner = [r \in Ranks |-> 1]
      /\ tactic = [r \in Ranks |-> 1] /\ best = [r \in Ranks |-> NoBest]
      /\ post = [r \in Ranks |-> None] /\ outcome = [r \in Ranks |-> None]
      /\ choice = [r \in Ranks |-> None]
  BY DEF Init
<1>2. Types
  <2>1. groups \in Groupings /\ store \in [Entries -> {None} \cup AllTactics]
    BY DEF Init
  <2>2. 1 \in Profiles /\ 1 \in 1 .. Len(Tactics) + 1 /\ 1 \in Nat \ {0}
    BY Sizes DEF Profiles
  <2>3. /\ winners \in [Ranks -> [Entries -> {None} \cup AllTactics]]
        /\ memo \in [Ranks -> [Entries -> {None, Missing} \cup AllTactics]]
    BY <1>1
  <2>4. \A r \in Ranks : best[r].runner = 0
    BY <1>1 DEF NoBest
  <2> QED BY <1>1, <2>1, <2>2, <2>3, <2>4 DEF Types
<1>3. Placed
  BY <1>1, Sizes DEF Placed, PlacedAt, Waiting
<1>4. Served
  BY <1>1 DEF Served, ServedAt
<1>5. NoLateLookup
  BY <1>1 DEF NoLateLookup, Reduced
<1>6. KnownAll
  BY <1>1 DEF KnownAll, Known, Waiting
<1>7. Lockstep
  <2>1. \A r \in Ranks : Heading(r) = FromLookup(1)
    BY <1>1 DEF Heading, Waiting
  <2> QED BY <2>1 DEF Lockstep
<1> QED BY <1>2, <1>3, <1>4, <1>5, <1>6, <1>7 DEF IInv

LEMMA InvStep == IInv /\ [Next]_vars => IInv'
<1> SUFFICES ASSUME IInv, [Next]_vars PROVE IInv'
  OBVIOUS
<1> USE DEF IInv
<1>1. ASSUME NEW r \in Ranks, Step(r) PROVE IInv'
  <2>1. \A q \in Ranks : PlacedAt(q)'
    BY <1>1, PlacedStep, PlacedOthers, StepLocal
  <2>2. Types' /\ Placed'
    BY <1>1, <2>1, TypesStep DEF Placed
  <2>3. Served' /\ NoLateLookup' /\ KnownAll'
    BY <1>1, ServedStep, LateStep, KnownAllStep
  <2>4. Lockstep'
    BY <1>1, LockStep
  <2> QED BY <2>2, <2>3, <2>4
<1>2. ASSUME NEW g \in groups, Complete(g) PROVE IInv'
  <2>1. Types' /\ Placed' /\ Served'
    BY <1>2, TypesComplete, PlacedComplete, ServedComplete
  <2>2. NoLateLookup' /\ KnownAll' /\ Lockstep'
    BY <1>2, LateComplete, KnownAllComplete, LockComplete
  <2> QED BY <2>1, <2>2
<1>3. CASE UNCHANGED vars
  <2> USE <1>3 DEF vars
  <2>1. Types' /\ Placed'
    BY DEF Types, Placed, PlacedAt
  <2>2. Served' /\ NoLateLookup'
    BY StoredSame DEF Served, ServedAt, NoLateLookup, OneGroup, Reduced, Past, Looking
  <2>3. KnownAll'
    BY DEF KnownAll, OneGroup, Known, Fresh, Remembered, EntryOf
  <2>4. Lockstep'
    <3>1. \A r \in Ranks : Heading(r)' = Heading(r)
      <4> TAKE r \in Ranks
      <4>1. /\ FromLookup(profile[r])' = FromLookup(profile[r])
            /\ FromEnd(profile[r], best[r])' = FromEnd(profile[r], best[r])
        BY FromStill
      <4>2. FinalChoice(r)' = FinalChoice(r) /\ Judged(r)' = Judged(r)
        BY DEF FinalChoice, Judged, Remembered, EntryOf
      <4>3. FromWait(r)' = FromWait(r)
        BY <4>2, FromStill DEF FromWait, FromTactic
      <4> QED BY <4>1, <4>2, <4>3 DEF Heading, Here, Waiting
    <3> QED BY <3>1 DEF Lockstep, OneGroup
  <2> QED BY <2>1, <2>2, <2>3, <2>4
<1> QED BY <1>1, <1>2, <1>3 DEF Next

\* The strengthening is an invariant of every tuning.
THEOREM InductiveInvariant == Spec => []IInv
<1> QED BY InvInit, InvStep, PTL DEF Spec

\* However the ranks are grouped, whatever they measured and whatever failed:
\* after a reload, the ranks that have looked the operation up serve the same
\* tactic.
THEOREM SameAfterReloadHolds == Spec => []SameAfterReload
<1>1. IInv => SameAfterReload
  BY DEF IInv, Served, ServedAt, SameAfterReload
<1> QED BY <1>1, InductiveInvariant, PTL

-----------------------------------------------------------------------------
\* The ranks are one process group, or each is on its own.
AllOrNone == \A G \in Groupings : G = {Ranks} \/ G = {{r} : r \in Ranks}

LEMMA Alone == ASSUME AllOrNone, Types, ~OneGroup, NEW g \in groups, NEW q \in g, NEW r \in g
               PROVE  q = r
BY DEF AllOrNone, Types, OneGroup

\* What the ranks of the process group put into a reduction is about the same
\* tactic of the same runner, or the same step, of the same profile.
THEOREM ReducesMatchHolds == AllOrNone => (Spec => []ReducesMatch)
<1>1. ASSUME AllOrNone, IInv, NEW g \in groups, NEW q \in g, NEW r \in g,
             post[q] # None, post[r] # None
      PROVE  [post[q] EXCEPT !.value = None] = [post[r] EXCEPT !.value = None]
  <2>1. CASE ~OneGroup
    BY <1>1, <2>1, Alone DEF IInv
  <2>2. CASE OneGroup
    <3>1. q \in Ranks /\ r \in Ranks
      BY <2>2 DEF OneGroup
    <3>2. Here(q, pc[q]) = Here(r, pc[r])
      BY <1>1, <2>2, <3>1, HeadingPosted DEF IInv, Lockstep
    <3>3. /\ pc[q] = pc[r] /\ profile[q] = profile[r] /\ runner[q] = runner[r]
          /\ tactic[q] = tactic[r]
      BY <3>2 DEF Here, At
    <3>4. /\ post[q] = [at |-> pc[q], profile |-> profile[q], runner |-> runner[q],
                        tactic |-> tactic[q], value |-> post[q].value]
          /\ post[r] = [at |-> pc[r], profile |-> profile[r], runner |-> runner[r],
                        tactic |-> tactic[r], value |-> post[r].value]
      BY <1>1, <3>1 DEF IInv, Placed, PlacedAt
    <3> QED BY <3>3, <3>4
  <2> QED BY <2>1, <2>2
<1>2. CASE AllOrNone
  <2>1. IInv => ReducesMatch
    BY <1>1, <1>2 DEF ReducesMatch
  <2>2. Spec => []ReducesMatch
    BY <2>1, InductiveInvariant, PTL
  <2> QED BY <2>2
<1> QED BY <1>2

\* Two ranks of the process group that have come back from choose_one have
\* chosen the same tactic of the same runner.
THEOREM SameChoiceHolds == AllOrNone => (Spec => []SameChoice)
<1>1. ASSUME AllOrNone, IInv, NEW g \in groups, NEW q \in g, NEW r \in g,
             pc[q] = "done", pc[r] = "done", phase[q] # "serve", phase[r] # "serve"
      PROVE  choice[q] = choice[r]
  <2>1. CASE ~OneGroup
    BY <1>1, <2>1, Alone DEF IInv
  <2>2. CASE OneGroup
    <3>1. q \in Ranks /\ r \in Ranks
      BY <2>2 DEF OneGroup
    <3>2. Heading(q) = Over(choice[q]) /\ Heading(r) = Over(choice[r])
      BY <1>1 DEF Heading, Waiting
    <3>3. Heading(q) = Heading(r)
      BY <1>1, <2>2, <3>1 DEF IInv, Lockstep
    <3> QED BY <3>2, <3>3 DEF Over
  <2> QED BY <2>1, <2>2
<1>2. CASE AllOrNone
  <2>1. IInv => SameChoice
    BY <1>1, <1>2 DEF SameChoice
  <2>2. Spec => []SameChoice
    BY <2>1, InductiveInvariant, PTL
  <2> QED BY <2>2
<1> QED BY <1>2

-----------------------------------------------------------------------------
\* Induction, for a property given as the set of numbers that have it.
LEMMA NatSetInduction == ASSUME NEW T, 0 \in T, \A n \in Nat : n \in T => n + 1 \in T
                         PROVE  Nat \subseteq T
<1> SUFFICES ASSUME Nat \ T # {} PROVE FALSE
  OBVIOUS
<1>1. PICK n \in Nat \ T : \A m \in Nat \ T : n <= m
  BY Least
<1>2. n = 0 \/ n - 1 \in T
  BY <1>1
<1> QED BY <1>1, <1>2

-----------------------------------------------------------------------------
\* The sum that a reduction of times returns.
Pick(s) == CHOOSE x \in s : TRUE
Sums(f, S) ==
  CHOOSE iter : iter = [s \in SUBSET S |-> IF s = {} THEN 0
                                          ELSE f[Pick(s)] + iter[s \ {Pick(s)}]]

LEMMA SumUnfolded == ASSUME NEW f, NEW S PROVE SumFunctionOnSet(f, S) = Sums(f, S)[S]
BY DEF SumFunctionOnSet, FoldFunctionOnSet, MapThenFoldSet, Sums, Pick

\* The subsets with at most n elements, and a function that sums over them.
Small(S, n) == {s \in SUBSET S : Cardinality(s) <= n}
IsSum(g, f, D) == g = [s \in D |-> IF s = {} THEN 0 ELSE f[Pick(s)] + g[s \ {Pick(s)}]]

\* What is left of a finite set when an element has been taken.
LEMMA PickFacts ==
  ASSUME NEW s, IsFiniteSet(s), s # {}
  PROVE  /\ Pick(s) \in s /\ IsFiniteSet(s \ {Pick(s)})
         /\ Cardinality(s) \in Nat /\ Cardinality(s \ {Pick(s)}) = Cardinality(s) - 1
<1>1. Pick(s) \in s
  BY DEF Pick
<1> QED BY <1>1, FS_RemoveElement, FS_CardinalityType

\* By induction on their size: the subsets have a function that sums over them;
LEMMA SumsExist ==
  ASSUME NEW f, NEW S, IsFiniteSet(S), NEW n \in Nat
  PROVE  \E g : IsSum(g, f, Small(S, n))
<1> DEFINE T == {m \in Nat : \E g : IsSum(g, f, Small(S, m))}
<1>0. \A s \in SUBSET S : IsFiniteSet(s) /\ Cardinality(s) \in Nat
  BY FS_Subset, FS_CardinalityType
<1>1. 0 \in T
  <2> DEFINE g == [s \in Small(S, 0) |-> 0]
  <2>1. \A s \in Small(S, 0) : s = {}
    BY <1>0, FS_EmptySet DEF Small
  <2>2. IsSum(g, f, Small(S, 0))
    BY <2>1 DEF IsSum
  <2> QED BY <2>2
<1>2. ASSUME NEW m \in Nat, m \in T PROVE m + 1 \in T
  <2>1. PICK h : IsSum(h, f, Small(S, m))
    BY <1>2
  <2> DEFINE g == [s \in Small(S, m + 1) |->
                     IF s = {} THEN 0 ELSE f[Pick(s)] + h[s \ {Pick(s)}]]
  <2>2. \A s \in Small(S, m) : s \in Small(S, m + 1) /\ h[s] = g[s]
    <3> SUFFICES ASSUME NEW s \in Small(S, m) PROVE s \in Small(S, m + 1) /\ h[s] = g[s]
      OBVIOUS
    <3>1. s \in Small(S, m + 1)
      BY <1>0 DEF Small
    <3> QED BY <2>1, <3>1 DEF IsSum
  <2>3. \A s \in Small(S, m + 1) : s # {} => s \ {Pick(s)} \in Small(S, m)
    <3> SUFFICES ASSUME NEW s \in Small(S, m + 1), s # {} PROVE s \ {Pick(s)} \in Small(S, m)
      OBVIOUS
    <3>1. s \in SUBSET S /\ IsFiniteSet(s) /\ Cardinality(s) <= m + 1
      BY <1>0 DEF Small
    <3>2. Cardinality(s) \in Nat /\ Cardinality(s \ {Pick(s)}) = Cardinality(s) - 1
      BY <3>1, PickFacts
    <3> QED BY <3>1, <3>2 DEF Small
  <2>4. IsSum(g, f, Small(S, m + 1))
    BY <2>2, <2>3 DEF IsSum
  <2> QED BY <2>4
<1>3. Nat \subseteq T
  <2> HIDE DEF T
  <2> QED BY <1>1, <1>2, NatSetInduction
<1> QED BY <1>3

\* so the one that the definition chooses is such a function.
LEMMA SumsDefined ==
  ASSUME NEW f, NEW S, IsFiniteSet(S)
  PROVE  \A s \in SUBSET S :
           Sums(f, S)[s] = IF s = {} THEN 0 ELSE f[Pick(s)] + Sums(f, S)[s \ {Pick(s)}]
<1>1. Cardinality(S) \in Nat /\ SUBSET S = Small(S, Cardinality(S))
  <2>1. \A s \in SUBSET S : Cardinality(s) <= Cardinality(S)
    BY FS_Subset
  <2>2. Cardinality(S) \in Nat
    BY FS_CardinalityType
  <2>3. \A s \in SUBSET S : s \in Small(S, Cardinality(S))
    BY <2>1 DEF Small
  <2>4. \A s \in Small(S, Cardinality(S)) : s \in SUBSET S
    BY DEF Small
  <2> QED BY <2>2, <2>3, <2>4
<1>2. \E g : IsSum(g, f, SUBSET S)
  <2>1. \E g : IsSum(g, f, Small(S, Cardinality(S)))
    BY <1>1, SumsExist
  <2> QED BY <1>1, <2>1
<1>3. IsSum(Sums(f, S), f, SUBSET S)
  BY <1>2 DEF IsSum, Sums
<1> HIDE DEF Sums
<1> QED BY <1>3 DEF IsSum

\* Terms of at most m make a sum of at most m times their number.
LEMMA SumBound ==
  ASSUME NEW f, NEW S, IsFiniteSet(S), NEW m \in Nat, \A x \in S : f[x] \in 0 .. m
  PROVE  SumFunctionOnSet(f, S) \in 0 .. m * Cardinality(S)
<1> DEFINE T == {n \in Nat : \A s \in SUBSET S :
                   Cardinality(s) <= n => Sums(f, S)[s] \in 0 .. m * Cardinality(s)}
<1>0. \A s \in SUBSET S : IsFiniteSet(s) /\ Cardinality(s) \in Nat
  BY FS_Subset, FS_CardinalityType
<1>1. 0 \in T
  <2> SUFFICES ASSUME NEW s \in SUBSET S, Cardinality(s) <= 0
               PROVE  Sums(f, S)[s] \in 0 .. m * Cardinality(s)
    OBVIOUS
  <2>1. s = {}
    BY <1>0, FS_EmptySet
  <2>2. Sums(f, S)[{}] = 0 /\ Cardinality({}) = 0 /\ m * 0 = 0
    <3> HIDE DEF T
    <3>1. {} \in SUBSET S
      OBVIOUS
    <3>2. Sums(f, S)[{}] = 0
      BY <3>1, SumsDefined
    <3> QED BY <3>2, FS_EmptySet
  <2> QED BY <2>1, <2>2
<1>2. ASSUME NEW n \in Nat, n \in T PROVE n + 1 \in T
  <2> SUFFICES ASSUME NEW s \in SUBSET S, Cardinality(s) <= n + 1
               PROVE  Sums(f, S)[s] \in 0 .. m * Cardinality(s)
    OBVIOUS
  <2>0. CASE s = {}
    <3>1. Cardinality({}) = 0
      BY FS_EmptySet
    <3> QED BY <1>1, <2>0, <3>1
  <2>1. s # {} => Sums(f, S)[s] \in 0 .. m * Cardinality(s)
    <3> SUFFICES ASSUME s # {} PROVE Sums(f, S)[s] \in 0 .. m * Cardinality(s)
      OBVIOUS
    <3> DEFINE u == s \ {Pick(s)}
               c == Cardinality(u)
    <3>1. IsFiniteSet(s)
      BY <1>0
    <3>2. /\ Pick(s) \in S /\ u \in SUBSET S
          /\ Cardinality(s) = c + 1 /\ c \in Nat
      BY <1>0, <3>1, PickFacts
    <3>3. Sums(f, S)[s] = f[Pick(s)] + Sums(f, S)[u]
      BY SumsDefined
    <3>4. Sums(f, S)[u] \in 0 .. m * c
      BY <1>2, <3>2
    <3>5. m * (c + 1) = m * c + m /\ m * c \in Nat
      BY <3>2
    <3> HIDE DEF u, c
    <3>6. f[Pick(s)] \in 0 .. m
      BY <3>2
    <3> QED BY <3>2, <3>3, <3>4, <3>5, <3>6
  <2> QED BY <2>0, <2>1
<1>3. Cardinality(S) \in T
  <2>1. Cardinality(S) \in Nat
    BY <1>0
  <2> HIDE DEF T
  <2> QED BY <1>1, <1>2, <2>1, NatSetInduction
<1> QED BY <1>3, SumUnfolded

\* Infinity is more than any sum of measured times.
LEMMA InfFacts ==
  ASSUME groups \in Groupings
  PROVE  /\ IsFiniteSet(Ranks) /\ Max(Times) \in Nat /\ Inf \in Nat
         /\ \A g \in groups : g \subseteq Ranks
         /\ \A t \in Times : t \in 0 .. Max(Times)
         /\ \A n \in Nat : n <= Cardinality(Ranks) => Max(Times) * n < Inf
<1>1. IsFiniteSet(Ranks) /\ \A g \in groups : g \subseteq Ranks
  <2>1. (CHOOSE G \in Groupings : TRUE) \in Groupings
    OBVIOUS
  <2>2. UNION groups = Ranks /\ IsFiniteSet(UNION groups)
    BY <2>1, GroupingsAssumption DEF Ranks
  <2> QED BY <2>2
<1>2. Max(Times) \in Times /\ \A t \in Times : t <= Max(Times)
  BY SizesAssumption DEF Max
<1>3. Cardinality(Ranks) \in Nat /\ Max(Times) \in Nat /\ Times \subseteq Nat
  BY <1>1, <1>2, SizesAssumption, FS_CardinalityType
<1> DEFINE m == Max(Times)
           c == Cardinality(Ranks)
<1>4. m \in Nat /\ c \in Nat /\ Inf = m * c + 1
  BY <1>3 DEF Inf
<1> HIDE DEF m, c
<1>5. ASSUME NEW n \in Nat, n <= c PROVE m * n <= m * c
  BY <1>4, <1>5
<1>6. m * c \in Nat /\ \A n \in Nat : m * n \in Nat
  BY <1>4
<1>7. \A n \in Nat : n <= c => m * n < Inf
  BY <1>4, <1>5, <1>6
<1> QED BY <1>1, <1>2, <1>3, <1>4, <1>6, <1>7 DEF m, c

LEMMA TimeType ==
  ASSUME Types, NEW g \in groups, NEW r \in Ranks,
         \A q \in g : post[q].value \in Times \cup {Inf}
  PROVE  Time(r, g) \in 0 .. Inf
<1>1. groups \in Groupings
  BY DEF Types
<1>2. IsFiniteSet(g) /\ Cardinality(g) <= Cardinality(Ranks) /\ Cardinality(g) \in Nat
  BY <1>1, InfFacts, FS_Subset, FS_CardinalityType
<1>3. CASE \E q \in g : post[q].value = Inf
  BY <1>1, <1>3, InfFacts DEF Time
<1>4. CASE ~ \E q \in g : post[q].value = Inf
  <2> DEFINE f == [q \in g |-> post[q].value]
  <2>1. \A q \in g : f[q] \in 0 .. Max(Times)
    BY <1>1, <1>4, InfFacts
  <2>2. Time(r, g) = SumFunctionOnSet(f, g)
    BY <1>4 DEF Time
  <2> HIDE DEF f
  <2>3. Time(r, g) \in 0 .. Max(Times) * Cardinality(g)
    BY <1>1, <1>2, <2>1, <2>2, InfFacts, SumBound
  <2>4. Max(Times) * Cardinality(g) < Inf /\ Inf \in Nat /\ Max(Times) * Cardinality(g) \in Nat
    BY <1>1, <1>2, InfFacts
  <2> QED BY <2>3, <2>4
<1> QED BY <1>3, <1>4
-----------------------------------------------------------------------------
\* The bounds of the times and the kinds of results, one rank at a time.
ValuedAt(r) ==
  /\ best[r].time <= Inf
  /\ outcome[r] # None =>
       outcome[r] \in IF pc[r] = "timed" THEN 0 .. Inf ELSE BOOLEAN
  /\ choice[r] # None => choice[r][1] \in Runners
  /\ post[r] # None =>
       post[r].value \in IF post[r].at = "timed" THEN Times \cup {Inf} ELSE BOOLEAN
Valued == \A r \in Ranks : ValuedAt(r)

LEMMA InfType == ASSUME Types PROVE Inf \in Nat
BY InfFacts DEF Types

LEMMA FallbackRunner == Fallback[1] \in Runners
BY Sizes DEF Fallback

LEMMA ValuedOthers ==
  ASSUME NEW r \in Ranks, Valued, Local(r), NEW q \in Ranks \ {r}
  PROVE  ValuedAt(q)'
BY DEF Valued, ValuedAt, Local, SameRank

\* A rank that is in no reduction before or after the step.
LEMMA ValuedAlone ==
  ASSUME Types, NEW r \in Ranks, post[r] = None, outcome[r] = None, SameReduction(r),
         best'[r] = NoBest \/ best'[r] = best[r], ValuedAt(r),
         SameChosen(r) \/ choice'[r] = None \/ choice'[r][1] \in Runners
  PROVE  ValuedAt(r)'
<1>1. NoBest.time = Inf
  BY DEF NoBest
<1>2. best'[r].time <= Inf
  BY <1>1, InfType DEF ValuedAt
<1> QED BY <1>2 DEF ValuedAt, SameReduction, SameChosen

LEMMA ValuedHit ==
  ASSUME Types, NEW r \in Ranks, NEW i \in Runners, NEW t, ToHit(r, i, t)
  PROVE  /\ best'[r] = NoBest
         /\ SameChosen(r) \/ choice'[r][1] \in Runners
BY DEF ToHit, ToNext, ToReturn, Placing

LEMMA ValuedTaken ==
  ASSUME Types, NEW r \in Ranks, NEW e, NEW t, ToTaken(r, e, t), runner[r] \in Runners
  PROVE  /\ best'[r] = NoBest \/ best'[r] = best[r]
         /\ SameChosen(r) \/ choice'[r][1] \in Runners
         /\ SameReduction(r)
<1>1. CASE ToHit(r, runner[r], t)
  BY <1>1, ValuedHit DEF ToTaken
<1>2. CASE ToMiss(r)
  BY <1>2, FallbackRunner DEF ToTaken, ToMiss, ToReturn, Placing
<1> QED BY <1>1, <1>2 DEF ToTaken, Placing

LEMMA PostedValue ==
  ASSUME Types, NEW r \in Ranks, PrepareInputs(r) \/ PrepareRunner(r) \/ ProfileTactic(r)
  PROVE  /\ post'[r].value \in IF post'[r].at = "timed" THEN Times \cup {Inf} ELSE BOOLEAN
         /\ best' = best
<1>1. \E l, v : /\ Reduce(r, l, v)
                 /\ v \in IF l = "timed" THEN Times \cup {Inf} ELSE BOOLEAN
  <2>1. CASE PrepareInputs(r)
    BY <2>1 DEF PrepareInputs
  <2>2. CASE PrepareRunner(r)
    BY <2>2 DEF PrepareRunner
  <2>3. CASE ProfileTactic(r)
    BY <2>3 DEF ProfileTactic
  <2> QED BY <2>1, <2>2, <2>3
<1>2. PICK l, v : /\ Reduce(r, l, v)
                  /\ v \in IF l = "timed" THEN Times \cup {Inf} ELSE BOOLEAN
  BY <1>1
<1>3. post'[r].at = l /\ post'[r].value = v
  BY <1>2 DEF Types, Reduce
<1> QED BY <1>2, <1>3 DEF Reduce, position

LEMMA ValuedMoved ==
  ASSUME Types, NEW r \in Ranks, NEW l, NEW b, NEW j, ValuedAt(r), PlacedAt(r), Leaving(r, l),
         l \in Waiting, OnToTactic(r, j, b) \/ OnToRunner(r, j, b), b.time <= Inf
  PROVE  ValuedAt(r)'
<1>1. post'[r] = None /\ outcome'[r] = None
  BY DEF Leaving, PlacedAt
<1>2. best'[r] = b /\ SameChosen(r)
  BY DEF OnToTactic, OnToRunner, Placing
<1> QED BY <1>1, <1>2 DEF ValuedAt, SameChosen

LEMMA ValuedStep ==
  ASSUME Types, Placed, Valued, NEW r \in Ranks, Step(r)
  PROVE  ValuedAt(r)'
<1>0. PlacedAt(r) /\ ValuedAt(r)
  BY DEF Placed, Valued
<1>1. CASE Attach(r)
  BY <1>0, <1>1, AttachEffect, ValuedAlone DEF PlacedAt, Waiting, Placing
<1>2. CASE SearchMemory(r)
  <2>1. post[r] = None /\ outcome[r] = None /\ SameReduction(r)
    BY <1>0, <1>2, SearchEffect DEF PlacedAt, Waiting
  <2>2. CASE Remembered(r) # {}
    <3>1. Min(Remembered(r)) \in Runners
      <4>1. Remembered(r) \in SUBSET Nat /\ Remembered(r) \subseteq Runners
        BY Sizes DEF Remembered
      <4> QED BY <2>2, <4>1, MinIn
    <3>2. ToHit(r, Min(Remembered(r)), winners[r][EntryOf(r, Min(Remembered(r)))])
      BY <1>2, <2>2, SearchEffect
    <3> QED BY <1>0, <2>1, <3>1, <3>2, ValuedHit, ValuedAlone
  <2>3. CASE Remembered(r) = {}
    BY <1>0, <1>2, <2>1, <2>3, SearchEffect, ValuedAlone DEF Placing
  <2> QED BY <2>2, <2>3
<1>3. CASE ProbeStore(r) \/ Unreadable(r)
  <2>1. post[r] = None /\ outcome[r] = None /\ runner[r] \in Runners
    BY <1>0, <1>3, ProbeEffect, UnreadableEffect DEF PlacedAt, Waiting
  <2>2. \E t : ToTaken(r, EntryOf(r, runner[r]), t)
    BY <1>3, ProbeEffect, UnreadableEffect
  <2> QED BY <1>0, <2>1, <2>2, ValuedTaken, ValuedAlone
<1>4. CASE PrepareInputs(r) \/ PrepareRunner(r) \/ ProfileTactic(r)
  <2>1. outcome'[r] = None /\ SameChosen(r)
    BY <1>0, <1>4, EnterEffect DEF PlacedAt, Waiting, Entering
  <2> QED BY <1>0, <1>4, <2>1, PostedValue DEF ValuedAt, SameChosen
<1>5. CASE OutOfMemory(r)
  <2>1. post[r] = None /\ outcome[r] = None /\ SameReduction(r) /\ ToReturn(r, Fallback)
    BY <1>0, <1>5, OutOfMemoryEffect DEF PlacedAt, Waiting
  <2> QED BY <1>0, <2>1, FallbackRunner, ValuedAlone DEF ToReturn, Placing
<1>6. CASE GiveUp(r)
  <2>1. post'[r] = None /\ outcome'[r] = None /\ ToReturn(r, Fallback)
    BY <1>0, <1>6, GiveUpEffect DEF PlacedAt, Leaving
  <2>2. best'[r].time = Inf /\ choice'[r][1] \in Runners
    BY <2>1, FallbackRunner DEF ToReturn, Placing, NoBest
  <2> QED BY <2>1, <2>2, InfType DEF ValuedAt
<1>7. CASE StartProfile(r) \/ StartRunner(r)
  <2>1. best[r].time <= Inf
    BY <1>0 DEF ValuedAt
  <2> QED BY <1>0, <1>7, <2>1, StartProfileEffect, StartRunnerEffect, ValuedMoved DEF Waiting
<1>8. CASE Judge(r)
  <2>1. Leaving(r, "timed") /\ OnToTactic(r, tactic[r] + 1, Judged(r))
    BY <1>8, JudgeEffect
  <2>2. outcome[r] \in 0 .. Inf
    BY <1>0, <2>1 DEF Leaving, ValuedAt
  <2>3. Judged(r).time <= Inf
    BY <1>0, <2>2, InfType DEF Judged, ValuedAt
  <2> QED BY <1>0, <2>1, <2>3, ValuedMoved DEF Waiting
<1>9. CASE Publish(r)
  <2>1. post[r] = None /\ outcome[r] = None /\ SameReduction(r) /\ ToNext(r)
    BY <1>0, <1>9, PublishEffect DEF PlacedAt, Waiting
  <2> QED BY <1>0, <2>1, ValuedAlone DEF ToNext, Placing
<1>10. CASE Reload(r)
  BY <1>0, <1>10, ReloadEffect, ValuedAlone DEF PlacedAt, Waiting, Placing
<1> QED BY <1>1, <1>2, <1>3, <1>4, <1>5, <1>6, <1>7, <1>8, <1>9, <1>10 DEF Step

LEMMA ValuedComplete ==
  ASSUME Types, Placed, Valued, NEW g \in groups, Complete(g)
  PROVE  Valued'
<1> SUFFICES ASSUME NEW r \in Ranks PROVE ValuedAt(r)'
  BY DEF Valued
<1>0. ValuedAt(r) /\ PlacedAt(r)
  BY DEF Valued, Placed
<1>1. /\ pc'[r] = pc[r] /\ best'[r] = best[r] /\ choice'[r] = choice[r]
      /\ IF r \in g
           THEN /\ post[r] # None /\ post'[r] = None
                /\ outcome'[r] = IF post[r].at = "timed" THEN Time(r, g) ELSE Oom(r, g)
           ELSE SameReduction(r)
  BY CompleteEffect DEF Placing, SameChosen
<1>2. CASE r \notin g
  BY <1>0, <1>1, <1>2 DEF ValuedAt, SameReduction
<1>3. CASE r \in g /\ post[r].at = "timed"
  <2>1. pc[r] = "timed"
    BY <1>0, <1>1, <1>3 DEF PlacedAt
  <2>2. \A q \in g : q \in Ranks /\ post[q] # None /\ post[q].at = "timed"
    BY <1>3, CompleteEffect, InfFacts DEF Types, Complete
  <2>3. \A q \in g : post[q].value \in Times \cup {Inf}
    BY <2>2 DEF Valued, ValuedAt
  <2>4. Time(r, g) \in 0 .. Inf
    BY <2>3, TimeType
  <2> QED BY <1>0, <1>1, <1>3, <2>1, <2>4 DEF ValuedAt
<1>4. CASE r \in g /\ post[r].at # "timed"
  <2>1. pc[r] # "timed"
    BY <1>0, <1>1, <1>4 DEF PlacedAt
  <2>2. Oom(r, g) \in BOOLEAN
    BY DEF Oom
  <2> QED BY <1>0, <1>1, <1>4, <2>1, <2>2 DEF ValuedAt
<1> QED BY <1>2, <1>3, <1>4

LEMMA FaultsStep == ASSUME faults \in 0 .. MaxFaults, [Next]_vars
                    PROVE  faults' \in 0 .. MaxFaults
<1>1. MaxFaults \in Nat
  BY SizesAssumption
<1>2. faults' = faults \/ Fail
  BY DEF Next, Step, vars, Attach, SearchMemory, ProbeStore, Unreadable, PrepareInputs,
         PrepareRunner, ProfileTactic, OutOfMemory, GiveUp, StartProfile, StartRunner, Judge,
         Publish, Reload, Complete, Leave, Take, Reduce
<1> QED BY <1>1, <1>2 DEF Fail

\* All that the run checks as Inv.
LEMMA InvParts == Inv <=> IInv /\ Valued /\ faults \in 0 .. MaxFaults
BY DEF Inv, TypeOK, IInv, Posted, Valued, ValuedAt

LEMMA ValuedInit == ASSUME Init PROVE Valued /\ faults \in 0 .. MaxFaults
<1>1. MaxFaults \in Nat
  BY SizesAssumption
<1>2. Inf \in Nat
  BY InfFacts DEF Init
<1> QED BY <1>1, <1>2 DEF Init, Valued, ValuedAt, NoBest

LEMMA TypesInvStep == Inv /\ [Next]_vars => Inv'
<1> SUFFICES ASSUME Inv, [Next]_vars PROVE Inv'
  OBVIOUS
<1>1. IInv /\ Types /\ Placed /\ Valued /\ faults \in 0 .. MaxFaults
  BY InvParts DEF IInv
<1>2. IInv' /\ faults' \in 0 .. MaxFaults
  BY <1>1, InvStep, FaultsStep
<1>3. ASSUME NEW r \in Ranks, Step(r) PROVE Valued'
  <2>1. Local(r)
    BY <1>1, <1>3, StepLocal
  <2> QED BY <1>1, <1>3, <2>1, ValuedStep, ValuedOthers DEF Valued
<1>4. ASSUME NEW g \in groups, Complete(g) PROVE Valued'
  BY <1>1, <1>4, ValuedComplete
<1>5. ASSUME UNCHANGED vars PROVE Valued'
  <2>1. best' = best /\ outcome' = outcome /\ choice' = choice /\ post' = post /\ pc' = pc
    BY <1>5 DEF vars
  <2>2. \A r \in Ranks : ValuedAt(r)'
    BY <1>1, <2>1 DEF Valued, ValuedAt
  <2> QED BY <2>2 DEF Valued
<1>6. Valued'
  <2>1. Next \/ UNCHANGED vars
    OBVIOUS
  <2> QED BY <1>3, <1>4, <1>5, <2>1 DEF Next
<1> QED BY <1>2, <1>6 DEF Inv, TypeOK, IInv, Posted, Valued, ValuedAt

\* Every reduced time is a sum of as many times as the group has ranks, hence
\* less than infinity, and what a rank takes out of a reduction is what it
\* waits for: a time after a measurement, a flag after a preparation.
THEOREM InvHolds == Spec => []Inv
<1>1. Init => Inv
  BY InvInit, ValuedInit, InvParts
<1> QED BY <1>1, TypesInvStep, PTL DEF Spec
=============================================================================
