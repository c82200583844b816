--------------------------- MODULE AutotunerGroup ---------------------------
(***************************************************************************)
(* Tuning of one operation on several ranks at a time: choose_one,         *)
(* search_cache and _profile_single_kernel of                              *)
(* flashinfer/autotuner/autotuner.py and the store of winners that the     *)
(* ranks share, flashinfer/autotune_cache.py.                              *)
(*                                                                         *)
(* Every rank walks through the profiles (shape buckets).  It looks each   *)
(* one up in its memory and in the shared store and, where it finds        *)
(* nothing, times every tactic of every runner and publishes the fastest.  *)
(* The ranks of a process group set by set_autotune_process_group reduce   *)
(* their times, and their out-of-memory flags, so that they decide alike;  *)
(* a reduction ends when all ranks of the group have entered it.  When all *)
(* ranks have tuned, autotune_v2_reload lets them serve what the store     *)
(* holds in the end.                                                       *)
(*                                                                         *)
(* A tactic is an element of Tactics[runner]; a store entry belongs to a   *)
(* profile and a runner, as the runner is part of the cache key.           *)
(***************************************************************************)
EXTENDS Integers, Sequences, FiniteSets, FiniteSetsExt, Functions

CONSTANTS Groupings,  \* the ways to divide the ranks into process groups
          NProfiles,  \* profiles of the operation
          Tactics,    \* Tactics[i]: the valid tactics of runner i, in order
          Times,      \* bound: measured times
          MaxFaults,  \* bound: failures of measurements, memory, publications
          None,       \* nothing there
          Missing     \* a lookup memoized as a miss

ASSUME SizesAssumption ==
  /\ NProfiles \in Nat \ {0} /\ MaxFaults \in Nat
  /\ Len(Tactics) > 0 /\ Tactics \in Seq(Range(Tactics))
  /\ \A i \in DOMAIN Tactics : Tactics[i] \in Seq(Range(Tactics[i]))
  /\ Times \subseteq Nat /\ \E t \in Times : \A u \in Times : u <= t

ASSUME GroupingsAssumption ==
  \A G, H \in Groupings : UNION G = UNION H /\ IsFiniteSet(UNION G)

Ranks == UNION (CHOOSE G \in Groupings : TRUE)
Profiles == 1 .. NProfiles
Runners == DOMAIN Tactics
Entries == Profiles \X Runners
AllTactics == UNION {Range(Tactics[i]) : i \in Runners}

ASSUME MarkersAssumption ==
  None # Missing /\ {None, Missing} \cap AllTactics = {} /\ None \notin BOOLEAN

Inf == Max(Times) * Cardinality(Ranks) + 1
Fallback == <<1, -1>>   \* runners[0], tactic -1

VARIABLES
  groups,    \* the process groups; a group of one is no group
  store,     \* store[e]: the published tactic of entry e, or None
  winners,   \* winners[r][e]: rank r's winner in memory, or None
  memo,      \* memo[r][e]: r's memo of the store's entry, Missing or None
  pc, phase, \* where r is, and why: "tune", "final" or "serve"
  profile,   \* the profile r tunes or looks up
  runner, tactic, \* r's position in Tactics
  best,      \* the fastest candidate of this profile
  post,      \* what r put into the reduction it waits in, or None
  outcome,   \* the result of r's last reduction until r takes it
  choice,    \* what choose_one returned
  faults

vars == <<groups, store, winners, memo, pc, phase, profile, runner, tactic, best, post, outcome, choice, faults>>
position == <<runner, tactic, best>>
reduction == <<post, outcome>>
caches == <<store, winners, memo>>

NoBest == [time |-> Inf, runner |-> 0, tactic |-> None]
GroupOf(r) == CHOOSE g \in groups : r \in g
Grouped(r) == groups # {{q} : q \in Ranks}
Goto(r, l) == pc' = [pc EXCEPT ![r] = l]

Init ==
  /\ groups \in Groupings
  /\ store \in [Entries -> {None} \cup AllTactics]
  /\ \A e \in Entries : store[e] \in {None} \cup Range(Tactics[e[2]])
  /\ winners = [r \in Ranks |-> [e \in Entries |-> None]]
  /\ memo = [r \in Ranks |-> [e \in Entries |-> None]]
  /\ pc = [r \in Ranks |-> "attach"]
  /\ phase = [r \in Ranks |-> "tune"]
  /\ profile = [r \in Ranks |-> 1]
  /\ runner = [r \in Ranks |-> 1] /\ tactic = [r \in Ranks |-> 1]
  /\ best = [r \in Ranks |-> NoBest]
  /\ post = [r \in Ranks |-> None] /\ outcome = [r \in Ranks |-> None]
  /\ choice = [r \in Ranks |-> None]
  /\ faults = 0

Fail == faults < MaxFaults /\ faults' = faults + 1

-----------------------------------------------------------------------------
\* _hydrate_from_store: what the store holds is memoized, in preference to
\* nothing that is memoized already.
Hydrated(m) == [e \in Entries |-> IF m[e] \notin {None, Missing} THEN m[e] ELSE store[e]]

Attach(r) == /\ pc[r] = "attach"
             /\ memo' = [memo EXCEPT ![r] = Hydrated(memo[r])]
             /\ Goto(r, "search")
             /\ UNCHANGED <<groups, store, winners, phase, profile, position, reduction, choice, faults>>

\* Runners and tactics are gone through anew.
Rewind(r) == /\ runner' = [runner EXCEPT ![r] = 1]
             /\ tactic' = [tactic EXCEPT ![r] = 1]
             /\ best' = [best EXCEPT ![r] = NoBest]

\* choose_one returns c.
Return(r, c) == /\ Goto(r, "done") /\ Rewind(r)
                /\ choice' = [choice EXCEPT ![r] = c]
                /\ UNCHANGED <<phase, profile>>

\* After profile[r]; after the last one, the lookup of the operation's own
\* shape, which falls in the bucket of the last profile.
NextProfile(r) ==
  /\ Goto(r, "search") /\ Rewind(r)
  /\ IF profile[r] < NProfiles
       THEN profile' = [profile EXCEPT ![r] = @ + 1] /\ UNCHANGED phase
       ELSE phase' = [phase EXCEPT ![r] = "final"] /\ UNCHANGED profile
  /\ UNCHANGED choice

\* search_cache finds tactic t of runner i.
Hit(r, i, t) == IF phase[r] = "tune" THEN NextProfile(r) ELSE Return(r, <<i, t>>)

EntryOf(r, i) == <<profile[r], i>>
Remembered(r) == {i \in Runners : winners[r][EntryOf(r, i)] # None}

\* The winners in memory, in the order of the runners.
SearchMemory(r) ==
  /\ pc[r] = "search"
  /\ IF Remembered(r) # {}
       THEN LET i == Min(Remembered(r)) IN Hit(r, i, winners[r][EntryOf(r, i)])
       ELSE Goto(r, "probe") /\ UNCHANGED <<phase, profile, position, choice>>
  /\ UNCHANGED <<groups, caches, reduction, faults>>

\* search_cache finds nothing.
Miss(r) == IF phase[r] = "tune"
           THEN Goto(r, "prepare") /\ Rewind(r) /\ UNCHANGED <<phase, profile, choice>>
           ELSE Return(r, Fallback)

\* Entry e of the store, found to be t: a hit is promoted to the winners, after
\* a miss the next runner's entry is looked up.
Take(r, e, t) ==
  /\ memo' = [memo EXCEPT ![r][e] = t]
  /\ \/ /\ t # Missing
        /\ winners' = [winners EXCEPT ![r][e] = t]
        /\ Hit(r, runner[r], t)
     \/ /\ t = Missing /\ runner[r] = Len(Tactics)
        /\ Miss(r)
        /\ UNCHANGED winners
     \/ /\ t = Missing /\ runner[r] < Len(Tactics)
        /\ runner' = [runner EXCEPT ![r] = @ + 1]
        /\ UNCHANGED <<winners, pc, phase, profile, tactic, best, choice>>
  /\ UNCHANGED <<groups, store, reduction>>

\* lookup: the memo, else one read of the file.
ProbeStore(r) ==
  /\ pc[r] = "probe"
  /\ LET e == EntryOf(r, runner[r]) IN
       Take(r, e, IF memo[r][e] # None THEN memo[r][e]
                  ELSE IF store[e] # None THEN store[e] ELSE Missing)
  /\ UNCHANGED faults

\* A file that one process cannot read is a miss for that process.  The ranks of
\* a process group must start with the same caches: they read the same.
Unreadable(r) ==
  /\ pc[r] = "probe" /\ memo[r][EntryOf(r, runner[r])] = None
  /\ ~Grouped(r) /\ phase[r] # "serve" /\ Fail
  /\ Take(r, EntryOf(r, runner[r]), Missing)

-----------------------------------------------------------------------------
\* To the next runner, or to the end of the profile.
ToRunner(r, i) == /\ Goto(r, IF i <= Len(Tactics) THEN "runner" ELSE "publish")
                  /\ runner' = [runner EXCEPT ![r] = i]
                  /\ UNCHANGED tactic

ToTactic(r, j) == IF j <= Len(Tactics[runner[r]])
                  THEN /\ Goto(r, "profile")
                       /\ tactic' = [tactic EXCEPT ![r] = j]
                       /\ UNCHANGED runner
                  ELSE ToRunner(r, runner[r] + 1)

\* A rank enters a reduction and waits there, at l.
Reduce(r, l, value) ==
  /\ post' = [post EXCEPT ![r] = [at |-> l, profile |-> profile[r], runner |-> runner[r],
                                  tactic |-> tactic[r], value |-> value]]
  /\ Goto(r, l)
  /\ UNCHANGED <<groups, caches, phase, profile, position, outcome, choice>>

\* Input synthesis, and get_valid_tactics with do_preparation of the next
\* runner: memory may run out.
PrepareInputs(r) == /\ pc[r] = "prepare"
                    /\ \/ Reduce(r, "inputs", FALSE) /\ UNCHANGED faults
                       \/ Reduce(r, "inputs", TRUE) /\ Fail

PrepareRunner(r) == /\ pc[r] = "runner"
                    /\ \/ Reduce(r, "prepared", FALSE) /\ UNCHANGED faults
                       \/ Reduce(r, "prepared", TRUE) /\ Fail

\* _profile_single_kernel: a failure of any kind counts as an infinite time,
\* and the rank reduces all the same.
\* Mutant: after a failure it goes on without reducing.
ProfileTacticNoReduce(r) ==
  /\ pc[r] = "profile"
  /\ \/ \E t \in Times : Reduce(r, "timed", t) /\ UNCHANGED faults
     \/ /\ Fail /\ ToTactic(r, tactic[r] + 1)
        /\ UNCHANGED <<groups, caches, phase, profile, best, choice, reduction>>
ProfileTactic(r) == /\ pc[r] = "profile"
                    /\ \/ \E t \in Times : Reduce(r, "timed", t) /\ UNCHANGED faults
                       \/ Reduce(r, "timed", Inf) /\ Fail

\* Mutant: in a process group too.
OutOfMemoryAnyhow(r) == /\ pc[r] = "profile" /\ Fail
                        /\ Return(r, Fallback)
                        /\ UNCHANGED <<groups, caches, reduction>>
\* Without a process group, a tactic that runs out of memory ends choose_one.
OutOfMemory(r) == /\ pc[r] = "profile" /\ ~Grouped(r) /\ Fail
                  /\ Return(r, Fallback)
                  /\ UNCHANGED <<groups, caches, reduction>>

\* Mutants: a rank's own flag, or its own time, decides.
OwnOom(r, g) == post[r].value
OwnTime(r, g) == post[r].value
Oom(r, g) == \E q \in g : post[q].value
\* The sum orders the candidates as the mean does; infinity absorbs.
Time(r, g) == IF \E q \in g : post[q].value = Inf THEN Inf
              ELSE SumFunctionOnSet([q \in g |-> post[q].value], g)

\* A reduction ends when all ranks of the group are in it.  One of flags does
\* not end with one of times.
Complete(g) ==
  /\ \A q \in g : post[q] # None
  /\ \A q, r \in g : (post[q].at = "timed") = (post[r].at = "timed")
  /\ outcome' = [r \in Ranks |-> IF r \notin g THEN outcome[r]
                                 ELSE IF post[r].at = "timed" THEN Time(r, g) ELSE Oom(r, g)]
  /\ post' = [r \in Ranks |-> IF r \in g THEN None ELSE post[r]]
  /\ UNCHANGED <<groups, caches, pc, phase, profile, position, choice, faults>>

\* Rank r leaves the reduction it waits in at l.
Leave(r, l) == /\ pc[r] = l /\ outcome[r] # None
               /\ outcome' = [outcome EXCEPT ![r] = None]
               /\ UNCHANGED <<groups, caches, post, faults>>

GiveUp(r) == /\ Leave(r, "inputs") \/ Leave(r, "prepared")
             /\ outcome[r]
             /\ Return(r, Fallback)

StartProfile(r) == /\ Leave(r, "inputs") /\ ~outcome[r]
                   /\ ToRunner(r, 1)
                   /\ UNCHANGED <<phase, profile, best, choice>>

StartRunner(r) == /\ Leave(r, "prepared") /\ ~outcome[r]
                  /\ ToTactic(r, 1)
                  /\ UNCHANGED <<phase, profile, best, choice>>

\* The fastest candidate so far, the first one among equals.
Judge(r) ==
  /\ Leave(r, "timed")
  /\ best' = IF outcome[r] < best[r].time
             THEN [best EXCEPT ![r] = [time |-> outcome[r], runner |-> runner[r],
                                       tactic |-> Tactics[runner[r]][tactic[r]]]]
             ELSE best
  /\ ToTactic(r, tactic[r] + 1)
  /\ UNCHANGED <<phase, profile, choice>>

\* The winner goes into memory and, if the write succeeds, into the store,
\* whatever another rank has put there.
Publish(r) ==
  /\ pc[r] = "publish"
  /\ IF best[r].runner = 0
     THEN UNCHANGED <<caches, faults>>
     ELSE LET e == <<profile[r], best[r].runner>> IN
          /\ winners' = [winners EXCEPT ![r][e] = best[r].tactic]
          /\ \/ /\ store' = [store EXCEPT ![e] = best[r].tactic]
                /\ memo' = [memo EXCEPT ![r][e] = best[r].tactic]
                /\ UNCHANGED faults
             \/ Fail /\ UNCHANGED <<store, memo>>
  /\ NextProfile(r)
  /\ UNCHANGED <<groups, reduction>>

-----------------------------------------------------------------------------
\* autotune_v2_reload, after a barrier of all ranks; then one more lookup.
\* Mutant: keeps what is memoized, which hydration does not replace.
ForgottenNothing(r) == memo[r]
Forgotten(r) == [e \in Entries |-> None]

Reload(r) ==
  /\ pc[r] = "done" /\ phase[r] # "serve"
  /\ \A q \in Ranks : pc[q] = "done" \/ phase[q] = "serve"
  /\ winners' = [winners EXCEPT ![r] = [e \in Entries |-> None]]
  /\ memo' = [memo EXCEPT ![r] = Hydrated(Forgotten(r))]
  /\ phase' = [phase EXCEPT ![r] = "serve"]
  /\ profile' = [profile EXCEPT ![r] = NProfiles]
  /\ choice' = [choice EXCEPT ![r] = None]
  /\ Goto(r, "search")
  /\ UNCHANGED <<groups, store, position, reduction, faults>>

Step(r) == \/ Attach(r) \/ SearchMemory(r) \/ ProbeStore(r) \/ Unreadable(r)
           \/ PrepareInputs(r) \/ PrepareRunner(r) \/ ProfileTactic(r) \/ OutOfMemory(r)
           \/ GiveUp(r) \/ StartProfile(r) \/ StartRunner(r) \/ Judge(r)
           \/ Publish(r) \/ Reload(r)

Next == \/ \E r \in Ranks : Step(r)
        \/ \E g \in groups : Complete(g)

Spec == Init /\ [][Next]_vars

\* Every rank goes on, and a reduction that all ranks are in ends.
Fairness == /\ \A r \in Ranks : WF_vars(Step(r))
            /\ \A g \in UNION Groupings : WF_vars(g \in groups /\ Complete(g))

FairSpec == Spec /\ Fairness

-----------------------------------------------------------------------------
Types ==
  /\ groups \in Groupings
  /\ store \in [Entries -> {None} \cup AllTactics]
  /\ winners \in [Ranks -> [Entries -> {None} \cup AllTactics]]
  /\ memo \in [Ranks -> [Entries -> {None, Missing} \cup AllTactics]]
  /\ pc \in [Ranks -> {"attach", "search", "probe", "prepare", "inputs", "runner", "prepared",
                       "profile", "timed", "publish", "done"}]
  /\ phase \in [Ranks -> {"tune", "final", "serve"}]
  /\ profile \in [Ranks -> Profiles]
  /\ runner \in [Ranks -> 1 .. Len(Tactics) + 1] /\ tactic \in [Ranks -> Nat \ {0}]
  /\ best = [r \in Ranks |-> best[r]] /\ DOMAIN post = Ranks
  /\ DOMAIN outcome = Ranks /\ DOMAIN choice = Ranks
  /\ \A r \in Ranks : \/ best[r].runner = 0
                      \/ best[r].runner \in Runners /\ best[r].tactic \in AllTactics

TypeOK ==
  /\ Types
  /\ \A r \in Ranks : best[r].time <= Inf
  /\ \A r \in Ranks : outcome[r] # None =>
       outcome[r] \in IF pc[r] = "timed" THEN 0 .. Inf ELSE BOOLEAN
  /\ \A r \in Ranks : choice[r] # None => choice[r][1] \in Runners
  /\ faults \in 0 .. MaxFaults

-----------------------------------------------------------------------------
\* Where a rank is in the loops over runners and tactics, and in a reduction.
Waiting == {"inputs", "prepared", "timed"}

PlacedAt(r) ==
  /\ pc[r] \in {"attach", "search", "prepare", "inputs", "done"} => runner[r] = 1
  /\ pc[r] \in {"attach", "search", "probe", "prepare", "inputs", "done"} =>
       tactic[r] = 1 /\ best[r] = NoBest
  /\ pc[r] \in {"probe", "runner", "prepared", "profile", "timed"} => runner[r] \in Runners
  /\ pc[r] \in {"profile", "timed"} => tactic[r] \in DOMAIN Tactics[runner[r]]
  /\ pc[r] = "attach" => profile[r] = 1
  /\ phase[r] # "tune" => profile[r] = NProfiles /\ pc[r] \in {"search", "probe", "done"}
  /\ outcome[r] # None => pc[r] \in Waiting /\ post[r] = None
  /\ post[r] # None =>
       /\ pc[r] \in Waiting
       /\ post[r] = [at |-> pc[r], profile |-> profile[r], runner |-> runner[r],
                     tactic |-> tactic[r], value |-> post[r].value]

Placed == \A r \in Ranks : PlacedAt(r)

\* What a lookup of the operation's own shape finds in the store.
StoredFor(p) == {i \in Runners : store[<<p, i>>] # None}
StoredChoice == IF StoredFor(NProfiles) = {} THEN Fallback
                ELSE <<Min(StoredFor(NProfiles)), store[<<NProfiles, Min(StoredFor(NProfiles))>>]>>

\* From the first reload on nobody publishes, and a rank that serves holds
\* nothing that is not in the store.
ServedAt(r) ==
  phase[r] = "serve" =>
    /\ \A q \in Ranks : phase[q] = "serve" \/ pc[q] = "done"
    /\ \A e \in Entries : \/ memo[r][e] = store[e]
                          \/ memo[r][e] = Missing /\ store[e] = None
    /\ pc[r] # "done" => \A e \in Entries : winners[r][e] = None
    /\ pc[r] = "probe" => \A i \in 1 .. runner[r] - 1 : store[<<NProfiles, i>>] = None
    /\ pc[r] = "done" => choice[r] = StoredChoice

Served == \A r \in Ranks : ServedAt(r)

\* All ranks are one process group and reduce.
OneGroup == groups = {Ranks} /\ groups # {{q} : q \in Ranks}

\* Rank r has the reductions of profile p to come, is in them, or has done the
\* first of them.
Looking(r) == phase[r] = "tune" /\ pc[r] \in {"attach", "search", "probe", "prepare"}
Past(r, p) == \/ phase[r] # "tune" \/ pc[r] = "done" \/ profile[r] > p
              \/ profile[r] = p /\ ~Looking(r)
Reduced(r) == \/ pc[r] \in {"runner", "prepared", "profile", "timed", "publish"}
              \/ pc[r] = "inputs" /\ outcome[r] # None

\* Once a rank has a result for its profile, no rank will look that profile up
\* any more: what is published there cannot mislead the others.
NoLateLookup == OneGroup => \A q, r \in Ranks : Reduced(q) => Past(r, profile[q])

\* Of the profiles to come, a rank knows what the store holds and no more.
Fresh(r, p) == \A i \in Runners : /\ winners[r][<<p, i>>] = None
                                  /\ memo[r][<<p, i>>] = store[<<p, i>>]

Known(r) ==
  /\ pc[r] = "attach" =>
       \A e \in Entries : winners[r][e] = None /\ memo[r][e] = None
  /\ phase[r] = "tune" /\ pc[r] \notin {"attach", "done"} =>
       \A p \in profile[r] + 1 .. NProfiles : Fresh(r, p)
  /\ phase[r] = "tune" /\ pc[r] = "search" => Fresh(r, profile[r])
  /\ phase[r] = "tune" /\ pc[r] = "probe" =>
       \A i \in Runners :
         LET e == <<profile[r], i>> IN
           /\ winners[r][e] = None
           /\ IF i < runner[r] THEN memo[r][e] = Missing /\ store[e] = None
                              ELSE memo[r][e] = store[e]
  /\ phase[r] = "tune" /\ pc[r] \in Waiting \cup {"prepare", "runner", "profile", "publish"} =>
       \A i \in Runners : /\ winners[r][<<profile[r], i>>] = None
                          /\ memo[r][<<profile[r], i>>] = Missing
  /\ phase[r] = "final" =>
       \A i \in Runners : \/ pc[r] = "done"
                          \/ Remembered(r) # {} /\ pc[r] = "search"
                          \/ Remembered(r) = {} /\ memo[r][<<NProfiles, i>>] = Missing

KnownAll == OneGroup => \A r \in Ranks : Known(r)

\* Where a rank is heading: the reduction it will enter next and what it brings
\* there, or what choose_one will return.  The loops over profiles, runners and
\* tactics, unrolled to the next reduction.
At(l, p, i, j, b) == <<l, p, i, j, b>>
Over(c) == <<"over", c>>

Unstored(p) == {x \in p .. NProfiles : StoredFor(x) = {}}
FromLookup(p) == IF Unstored(p) = {} THEN Over(StoredChoice)
                 ELSE At("inputs", Min(Unstored(p)), 1, 1, NoBest)
FromEnd(p, b) == IF p < NProfiles THEN FromLookup(p + 1)
                 ELSE Over(IF b.runner = 0 THEN Fallback ELSE <<b.runner, b.tactic>>)
FromRunner(p, i, j, b) == IF i <= Len(Tactics) THEN At("prepared", p, i, j, b) ELSE FromEnd(p, b)
FromTactic(p, i, j, next, b) == IF next <= Len(Tactics[i]) THEN At("timed", p, i, next, b)
                                ELSE FromRunner(p, i + 1, j, b)

FinalChoice(r) == IF Remembered(r) = {} THEN Fallback
                  ELSE <<Min(Remembered(r)), winners[r][EntryOf(r, Min(Remembered(r)))]>>

Judged(r) == IF outcome[r] < best[r].time
             THEN [time |-> outcome[r], runner |-> runner[r],
                   tactic |-> Tactics[runner[r]][tactic[r]]]
             ELSE best[r]

Here(r, l) == At(l, profile[r], runner[r], tactic[r], best[r])

FromWait(r) ==
  IF pc[r] = "timed"
    THEN FromTactic(profile[r], runner[r], tactic[r], tactic[r] + 1, Judged(r))
  ELSE IF outcome[r] THEN Over(Fallback)
  ELSE IF pc[r] = "inputs" THEN FromRunner(profile[r], 1, tactic[r], best[r])
  ELSE FromTactic(profile[r], runner[r], tactic[r], 1, best[r])

Heading(r) ==
  CASE pc[r] = "done" -> Over(choice[r])
    [] pc[r] \in {"attach", "search", "probe"} ->
         IF phase[r] = "tune" THEN FromLookup(profile[r]) ELSE Over(FinalChoice(r))
    [] pc[r] = "prepare" -> Here(r, "inputs")
    [] pc[r] = "runner" -> Here(r, "prepared")
    [] pc[r] = "profile" -> Here(r, "timed")
    [] pc[r] = "publish" -> FromEnd(profile[r], best[r])
    [] pc[r] \in Waiting -> IF outcome[r] = None THEN Here(r, pc[r]) ELSE FromWait(r)

\* The ranks of the group need not be at the same place, but they are always
\* heading for the same one.
Lockstep == OneGroup =>
  \A q, r \in Ranks : phase[q] # "serve" /\ phase[r] # "serve" => Heading(q) = Heading(r)

\* Together these are inductive.
IInv == Types /\ Placed /\ Served /\ NoLateLookup /\ KnownAll /\ Lockstep

\* What is put into a reduction: a measured time or infinity, or else a flag.
Posted == \A r \in Ranks : post[r] # None =>
            post[r].value \in IF post[r].at = "timed" THEN Times \cup {Inf} ELSE BOOLEAN

\* The types, with the bounds of the reduced times, and the strengthening.
Inv == TypeOK /\ Posted /\ IInv

-----------------------------------------------------------------------------
\* set_autotune_process_group: what the ranks of a group reduce at a time is the
\* time of the same tactic, or a flag of the same step of the same profile,
\* whatever failed before on any of them.
ReducesMatch ==
  \A g \in groups : \A q, r \in g :
    post[q] # None /\ post[r] # None =>
      [post[q] EXCEPT !.value = None] = [post[r] EXCEPT !.value = None]

\* "so every rank's argmin picks the same tactic": when the ranks of a group
\* have come back from choose_one, they run the same tactic of the same runner.
SameChoice ==
  \A g \in groups : \A q, r \in g :
    pc[q] = "done" /\ pc[r] = "done" /\ phase[q] # "serve" /\ phase[r] # "serve"
      => choice[q] = choice[r]

\* autotune_v2_reload "makes all ranks serve byte-identical tactics", also ranks
\* that tuned on their own, measured different times and could not publish.
SameAfterReload ==
  \A q, r \in Ranks :
    pc[q] = "done" /\ pc[r] = "done" /\ phase[q] = "serve" /\ phase[r] = "serve"
      => choice[q] = choice[r]

\* No rank waits in a reduction for ever: all get through tuning and serve.
AllServe == <>[](\A r \in Ranks : pc[r] = "done" /\ phase[r] = "serve")
=============================================================================
