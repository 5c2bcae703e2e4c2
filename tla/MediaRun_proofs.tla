--------------------------- MODULE MediaRun_proofs ---------------------------
(* The ffmpeg skill, run from the console.  A leaf writes only the names     *)
(* that its inspection leads to, and a preview that saw what the run works   *)
(* on has shown them; so what the gate asks about covers what the run may    *)
(* replace.  And a run that ends well has rendered no error: what it says it *)
(* wrote is there, and it has worked on all it was given.                    *)
EXTENDS MediaSeen, Positions_proofs

KeepsBut(old, new, paths) ==
    DOMAIN old \subseteq DOMAIN new /\ \A p \in DOMAIN old \ paths : new[p] = old[p]

Grows(old, new, paths) ==
    KeepsBut(old, new, paths) /\ (IsFiniteSet(DOMAIN old) => IsFiniteSet(DOMAIN new))

---------------------------------------------------------------------------
\* Endings and single writes.

LEMMA SameGrows ==
    ASSUME NEW held, NEW paths
    PROVE  Grows(held, held, paths)
  BY DEF Grows, KeepsBut

LEMMA WrittenGrows ==
    ASSUME NEW held, NEW path, NEW file, NEW paths, path \in paths
    PROVE  Grows(held, Written(held, path, file), paths)
<1>1. KeepsBut(held, Written(held, path, file), paths)
  BY DEF KeepsBut, Written
<1>2. DOMAIN Written(held, path, file) = DOMAIN held \cup {path}
  BY DEF Written
<1>3. IsFiniteSet(DOMAIN held) => IsFiniteSet(DOMAIN held \cup {path})
  BY FS_AddElement
<1> QED BY <1>1, <1>2, <1>3 DEF Grows

LEMMA ThenGrows ==
    ASSUME NEW a, NEW b, NEW c, NEW paths, Grows(a, b, paths), Grows(b, c, paths)
    PROVE  Grows(a, c, paths)
  BY DEF Grows, KeepsBut

LEMMA RaisesIs ==
    ASSUME NEW held, NEW o \in Raises(held)
    PROVE  o.end = "raised" /\ o.files = held
  BY DEF Raises, Ends

LEMMA ReturnsIs ==
    ASSUME NEW held, NEW result, NEW o \in Returns(held, result)
    PROVE  o.end = "ok" /\ o.files = held /\ o.result = result
  BY DEF Returns, Ends

LEMMA StopsIs ==
    ASSUME NEW held, NEW result, NEW o \in Stops(held, result)
    PROVE  o.end = "stops" /\ o.files = held /\ o.result = result
  BY DEF Stops, Ends

---------------------------------------------------------------------------
\* One command, and one after the other.

LEMMA OutcomeGrows ==
    ASSUME NEW intent, NEW recipe, NEW held, NEW path, NEW machine, NEW paths, path \in paths,
           NEW o \in Outcomes(intent, recipe, held, path, machine)
    PROVE  Grows(held, o.files, paths) /\ o.ok \in BOOLEAN
<1> DEFINE good == [ok |-> TRUE, files |-> Written(held, path, Makes(intent, recipe, held))]
           none == [ok |-> FALSE, files |-> held]
           bad  == [ok |-> FALSE, files |-> Written(held, path, Broken)]
<1>1. o = good \/ o = none \/ o = bad
  BY DEF Outcomes
<1>2. CASE o = good
  BY <1>2, WrittenGrows
<1>3. CASE o = none
  BY <1>3, SameGrows
<1>4. CASE o = bad
  BY <1>4, WrittenGrows
<1> QED BY <1>1, <1>2, <1>3, <1>4

\* f[k] holds how things may stand after k of the commands.
Follows(f, intent, recipes, held, machine, n) ==
    \A k \in 0..n :
        f[k] = IF k = 0 THEN {[files |-> held, raised |-> FALSE, outputs |-> <<>>]}
               ELSE UNION {AfterCommand(state, intent, recipes[k], machine) : state \in f[k - 1]}

IsAfter(f, intent, recipes, held, machine) ==
    f = [k \in 0..Len(recipes) |->
            IF k = 0 THEN {[files |-> held, raised |-> FALSE, outputs |-> <<>>]}
            ELSE UNION {AfterCommand(state, intent, recipes[k], machine) : state \in f[k - 1]}]

LEMMA FollowsExists ==
    ASSUME NEW intent, NEW recipes, NEW held, NEW machine, Len(recipes) \in Nat
    PROVE  \E f : IsAfter(f, intent, recipes, held, machine)
<1> DEFINE N == Len(recipes)
           First == {[files |-> held, raised |-> FALSE, outputs |-> <<>>]}
           Then(k, states) == UNION {AfterCommand(state, intent, recipes[k], machine) : state \in states}
           T == {n \in 0..N : ~\E f : \A k \in 0..n : f[k] = IF k = 0 THEN First ELSE Then(k, f[k - 1])}
<1> HIDE DEF First, Then
<1>1. T = {}
  <2>1. SUFFICES ASSUME T # {} PROVE FALSE
    OBVIOUS
  <2>2. T \in SUBSET Nat
    OBVIOUS
  <2>3. PICK n \in T : \A m \in T : n <= m
    <3> HIDE DEF T
    <3> QED BY <2>1, <2>2, LeastNumber
  <2>4. n \in 0..N /\ ~\E f : \A k \in 0..n : f[k] = IF k = 0 THEN First ELSE Then(k, f[k - 1])
    OBVIOUS
  <2>5. n # 0
    <3> SUFFICES ASSUME n = 0 PROVE FALSE
      OBVIOUS
    <3> DEFINE g == [k \in 0..0 |-> First]
    <3>1. \A k \in 0..0 : k = 0 /\ g[k] = First
      OBVIOUS
    <3> HIDE DEF g
    <3>2. \A k \in 0..n : g[k] = IF k = 0 THEN First ELSE Then(k, g[k - 1])
      BY <3>1
    <3> QED BY <2>4, <3>2
  <2>6. PICK f : \A k \in 0..(n - 1) : f[k] = IF k = 0 THEN First ELSE Then(k, f[k - 1])
    <3>1. n - 1 \in 0..N /\ n - 1 \notin T
      <4> HIDE DEF T
      <4>1. n - 1 \in 0..N /\ ~(n <= n - 1)
        BY <2>4, <2>5
      <4> QED BY <2>3, <4>1
    <3> QED BY <3>1
  <2> DEFINE h == [k \in 0..n |-> IF k = n THEN Then(n, f[n - 1]) ELSE f[k]]
  <2>7. \A k \in 0..n : h[k] = IF k = n THEN Then(n, f[n - 1]) ELSE f[k]
    OBVIOUS
  <2> HIDE DEF h
  <2>8. ASSUME NEW k \in 0..n PROVE h[k] = IF k = 0 THEN First ELSE Then(k, h[k - 1])
    <3>1. CASE k = n
      <4>1. n - 1 \in 0..n /\ n - 1 # n
        BY <2>4, <2>5
      <4>2. h[n - 1] = f[n - 1]
        BY <2>7, <4>1
      <4> QED BY <2>5, <2>7, <3>1, <4>2
    <3>2. CASE k # n
      <4>1. k \in 0..(n - 1) /\ h[k] = f[k]
        BY <2>4, <2>7, <3>2
      <4>2. CASE k = 0
        BY <2>6, <4>1, <4>2
      <4>3. CASE k # 0
        <5>1. k - 1 \in 0..n /\ k - 1 # n
          BY <2>4, <3>2, <4>3
        <5>2. h[k - 1] = f[k - 1]
          BY <2>7, <5>1
        <5> QED BY <2>6, <4>1, <4>3, <5>2
      <4> QED BY <4>2, <4>3
    <3> QED BY <3>1, <3>2
  <2> QED BY <2>4, <2>8
<1>2. N \in 0..N
  OBVIOUS
<1>3. PICK f : \A k \in 0..N : f[k] = IF k = 0 THEN First ELSE Then(k, f[k - 1])
  BY <1>1, <1>2
<1> DEFINE g == [k \in 0..N |-> f[k]]
<1>4. \A k \in 0..N : g[k] = f[k] /\ (k # 0 => g[k - 1] = f[k - 1])
  OBVIOUS
<1>5. g = [k \in 0..N |-> g[k]]
  OBVIOUS
<1> HIDE DEF g
<1>6. \A k \in 0..N : g[k] = IF k = 0 THEN First ELSE Then(k, g[k - 1])
  BY <1>3, <1>4
<1>7. g = [k \in 0..N |-> IF k = 0 THEN First ELSE Then(k, g[k - 1])]
  BY <1>5, <1>6, Zenon
<1> QED BY <1>7 DEF First, Then, IsAfter

LEMMA CommandsFollow ==
    ASSUME NEW intent, NEW recipes, NEW held, NEW machine, Len(recipes) \in Nat
    PROVE  \E f : /\ Follows(f, intent, recipes, held, machine, Len(recipes))
                  /\ Commands(intent, recipes, held, machine) = f[Len(recipes)]
<1> DEFINE g == CHOOSE f : IsAfter(f, intent, recipes, held, machine)
<1>1. Commands(intent, recipes, held, machine) = g[Len(recipes)]
  BY DEF Commands, IsAfter
<1>2. IsAfter(g, intent, recipes, held, machine)
  BY FollowsExists
<1> HIDE DEF g
<1>3. Follows(g, intent, recipes, held, machine, Len(recipes))
  BY <1>2 DEF Follows, IsAfter
<1> QED BY <1>1, <1>3

\* A command writes its output, and nothing if one before it has raised.
LEMMA CommandGrows ==
    ASSUME NEW state, NEW intent, NEW recipe, NEW machine, NEW paths, recipe.output \in paths,
           NEW then \in AfterCommand(state, intent, recipe, machine)
    PROVE  Grows(state.files, then.files, paths)
<1>1. CASE state.raised
  <2>1. then = state
    BY <1>1 DEF AfterCommand
  <2> QED BY <2>1, SameGrows
<1>2. CASE ~state.raised
  <2>1. PICK o \in Outcomes(intent, recipe, state.files, recipe.output, machine) :
          then = [files  |-> o.files,
                  raised |-> o.ok /\ LacksStreams(o.files, recipe.output),
                  outputs |-> Append(state.outputs, [inputs |-> recipe.inputs, output |-> recipe.output, ok |-> o.ok])]
    BY <1>2, Zenon DEF AfterCommand
  <2> QED BY <2>1, OutcomeGrows
<1> QED BY <1>1, <1>2

LEMMA CommandsGrow ==
    ASSUME NEW intent, NEW recipes, NEW held, NEW machine, NEW paths, Len(recipes) \in Nat,
           \A k \in 1..Len(recipes) : recipes[k].output \in paths,
           NEW state \in Commands(intent, recipes, held, machine)
    PROVE  Grows(held, state.files, paths)
<1> DEFINE N == Len(recipes)
<1>1. PICK f : Follows(f, intent, recipes, held, machine, N) /\ Commands(intent, recipes, held, machine) = f[N]
  BY CommandsFollow
<1> DEFINE Right(k) == \A s \in f[k] : Grows(held, s.files, paths)
           T == {k \in 0..N : ~Right(k)}
<1> HIDE DEF N
<1>2. N \in Nat /\ N \in 0..N
  BY DEF N
<1>3. ASSUME NEW k \in 0..N, k # 0 => Right(k - 1) PROVE Right(k)
  <2>1. CASE k = 0
    <3>1. f[k] = {[files |-> held, raised |-> FALSE, outputs |-> <<>>]}
      BY <1>1, <2>1 DEF Follows
    <3> QED BY <3>1, SameGrows
  <2>2. CASE k # 0
    <3>1. f[k] = UNION {AfterCommand(s, intent, recipes[k], machine) : s \in f[k - 1]}
      BY <1>1, <2>2 DEF Follows
    <3>2. SUFFICES ASSUME NEW then \in f[k] PROVE Grows(held, then.files, paths)
      OBVIOUS
    <3>3. PICK s \in f[k - 1] : then \in AfterCommand(s, intent, recipes[k], machine)
      BY <3>1
    <3>4. recipes[k].output \in paths
      <4>1. k \in 1..Len(recipes)
        BY <1>2, <2>2 DEF N
      <4> QED BY <4>1
    <3>5. Grows(held, s.files, paths)
      BY <1>3, <2>2
    <3>6. Grows(s.files, then.files, paths)
      BY <3>3, <3>4, CommandGrows
    <3> QED BY <3>5, <3>6, ThenGrows
  <2> QED BY <2>1, <2>2
<1>4. T = {}
  <2> SUFFICES ASSUME T # {} PROVE FALSE
    OBVIOUS
  <2>1. T \in SUBSET Nat
    BY <1>2
  <2>2. PICK k \in T : \A m \in T : k <= m
    <3> HIDE DEF T
    <3> QED BY <2>1, LeastNumber
  <2>3. k \in 0..N /\ ~Right(k)
    OBVIOUS
  <2>4. k # 0 => k - 1 \in 0..N /\ k - 1 \notin T
    BY <1>2, <2>2, <2>3
  <2>5. k # 0 => Right(k - 1)
    BY <2>4
  <2> HIDE DEF Right, T
  <2> QED BY <1>3, <2>3, <2>5
<1>5. Right(N)
  BY <1>2, <1>4
<1> QED BY <1>1, <1>5 DEF N

---------------------------------------------------------------------------
\* The names that a batch may write, once its inputs have been inspected.

BatchPaths(intent, probes) ==
    LET recipes == Recipes(intent, Heard(intent, probes))
    IN  {recipes[k].output : k \in DOMAIN recipes} \cup
        (IF HasSample(intent) /\ recipes # <<>> THEN {SampleName(intent, recipes[1], probes[1])} ELSE {})

AllAlike(intent, probes, supposed) ==
    /\ probes \in Seq(Range(probes)) /\ supposed \in Seq(Range(supposed)) /\ Len(probes) = Len(supposed)
    /\ \A k \in DOMAIN probes : ProbedAlike(intent, probes[k], supposed[k])

LEMMA AlikeNames ==
    ASSUME NEW intent, NEW p, NEW q, ProbedAlike(intent, p, q)
    PROVE  p.file = q.file /\ ExtOf(intent, p) = ExtOf(intent, q) /\ Target(intent, p) = Target(intent, q)
<1>1. p.file = q.file /\ (intent.tool \in {"adjust_speed", "adjust_volume"} => p.picture = q.picture)
  BY DEF ProbedAlike
<1>2. ExtOf(intent, p) = ExtOf(intent, q)
  BY <1>1 DEF ExtOf
<1>3. Derived(intent, p) = Derived(intent, q)
  BY <1>1, <1>2 DEF Derived
<1>4. Target(intent, p) = Target(intent, q)
  BY <1>1, <1>2, <1>3 DEF Target
<1> QED BY <1>1, <1>2, <1>4

Audible(intent, probes) == {k \in DOMAIN probes : intent.tool = "extract_audio" => probes[k].sound}

LEMMA HeardIs ==
    ASSUME NEW intent, NEW probes, probes \in Seq(Range(probes))
    PROVE  /\ Heard(intent, probes) =
                 [k \in DOMAIN InOrder(Audible(intent, probes)) |-> probes[InOrder(Audible(intent, probes))[k]]]
           /\ \E n \in Nat : DOMAIN InOrder(Audible(intent, probes)) = 1..n
           /\ \A k \in DOMAIN InOrder(Audible(intent, probes)) :
                  InOrder(Audible(intent, probes))[k] \in Audible(intent, probes)
           /\ \A m \in Audible(intent, probes) :
                  \E k \in DOMAIN InOrder(Audible(intent, probes)) : InOrder(Audible(intent, probes))[k] = m
<1> DEFINE S == Audible(intent, probes)
<1>1. S \in SUBSET (1..Len(probes)) /\ Len(probes) \in Nat
  BY DEF Audible
<1>2. Heard(intent, probes) = [k \in DOMAIN InOrder(S) |-> probes[InOrder(S)[k]]]
  BY DEF Heard, Audible
<1> HIDE DEF S
<1>3. IsFiniteSet(1..Len(probes))
  BY <1>1, FS_Interval
<1>4. S \in SUBSET Nat /\ IsFiniteSet(S)
  <2>1. S \in SUBSET Nat
    BY <1>1
  <2>2. IsFiniteSet(S)
    BY <1>1, <1>3, FS_Subset
  <2> QED BY <2>1, <2>2
<1>5. /\ Cardinality(S) \in Nat /\ DOMAIN InOrder(S) = 1..Cardinality(S)
      /\ \A k \in 1..Cardinality(S) : InOrder(S)[k] \in S
      /\ \A m \in S : \E k \in 1..Cardinality(S) : InOrder(S)[k] = m
  BY <1>4, InOrderIncreases
<1> QED BY <1>2, <1>5 DEF S

LEMMA AlikeRecipes ==
    ASSUME NEW intent, NEW probes, NEW supposed, AllAlike(intent, probes, supposed)
    PROVE  Recipes(intent, Heard(intent, probes)) = Recipes(intent, Heard(intent, supposed))
<1> DEFINE at == InOrder(Audible(intent, probes))
           h  == Heard(intent, probes)
           g  == Heard(intent, supposed)
<1>1. DOMAIN probes = DOMAIN supposed
  <2>1. DOMAIN probes = 1..Len(probes) /\ DOMAIN supposed = 1..Len(supposed) /\ Len(probes) = Len(supposed)
    BY DEF AllAlike
  <2> QED BY <2>1
<1>2. Audible(intent, probes) = Audible(intent, supposed)
  <2>1. \A k \in DOMAIN probes : intent.tool = "extract_audio" => probes[k].sound = supposed[k].sound
    BY DEF AllAlike, ProbedAlike
  <2>2. CASE intent.tool = "extract_audio"
    BY <1>1, <2>1, <2>2 DEF Audible
  <2>3. CASE intent.tool # "extract_audio"
    BY <1>1, <2>3 DEF Audible
  <2> QED BY <2>2, <2>3
<1>3. \A k \in DOMAIN at : at[k] \in DOMAIN probes
  <2>1. \A k \in DOMAIN at : at[k] \in Audible(intent, probes)
    BY HeardIs DEF AllAlike
  <2> QED BY <2>1 DEF Audible
<1>4. h = [k \in DOMAIN at |-> probes[at[k]]]
  BY HeardIs DEF AllAlike
<1>5. g = [k \in DOMAIN at |-> supposed[at[k]]]
  BY <1>2, HeardIs DEF AllAlike
<1>6. \A k \in DOMAIN at : ProbedAlike(intent, probes[at[k]], supposed[at[k]])
  BY <1>3 DEF AllAlike
<1> HIDE DEF h, g, at
<1>7. DOMAIN h = DOMAIN at /\ DOMAIN g = DOMAIN at /\ \A k \in DOMAIN at : ProbedAlike(intent, h[k], g[k])
  BY <1>4, <1>5, <1>6
<1>8. \A k \in DOMAIN at : h[k].file = g[k].file /\ Target(intent, h[k]) = Target(intent, g[k])
  BY <1>7, AlikeNames
<1>9. [k \in DOMAIN h |-> h[k].file] = [k \in DOMAIN g |-> g[k].file]
  BY <1>7, <1>8
<1>10. [k \in DOMAIN h |-> Target(intent, h[k])] = [k \in DOMAIN g |-> Target(intent, g[k])]
  BY <1>7, <1>8
<1>11. PICK out : /\ out = Placed([k \in DOMAIN h |-> h[k].file], [k \in DOMAIN h |-> Target(intent, h[k])])
                  /\ out = Placed([k \in DOMAIN g |-> g[k].file], [k \in DOMAIN g |-> Target(intent, g[k])])
  BY <1>9, <1>10
<1>12. Recipes(intent, h) = [k \in DOMAIN h |-> [inputs |-> <<h[k].file>>, output |-> out[k]]]
  BY <1>11 DEF Recipes
<1>13. Recipes(intent, g) = [k \in DOMAIN g |-> [inputs |-> <<g[k].file>>, output |-> out[k]]]
  BY <1>11 DEF Recipes
<1>14. Recipes(intent, h) = Recipes(intent, g)
  BY <1>7, <1>8, <1>12, <1>13
<1> QED BY <1>14 DEF h, g

LEMMA AlikePaths ==
    ASSUME NEW intent, NEW probes, NEW supposed, AllAlike(intent, probes, supposed)
    PROVE  BatchPaths(intent, probes) = BatchPaths(intent, supposed)
<1>1. PICK recipes : /\ recipes = Recipes(intent, Heard(intent, probes))
                     /\ recipes = Recipes(intent, Heard(intent, supposed))
  BY AlikeRecipes
<1>2. CASE recipes = <<>>
  BY <1>1, <1>2 DEF BatchPaths
<1>3. CASE recipes # <<>>
  <2>1. Len(probes) # 0
    <3> SUFFICES ASSUME Len(probes) = 0 PROVE FALSE
      OBVIOUS
    <3> DEFINE h == Heard(intent, probes)
    <3>1. DOMAIN probes = {}
      BY DEF AllAlike
    <3>2. DOMAIN h = {}
      <4>1. DOMAIN h = DOMAIN InOrder(Audible(intent, probes))
        BY HeardIs DEF AllAlike
      <4>2. Audible(intent, probes) = {}
        BY <3>1 DEF Audible
      <4>3. \A k \in DOMAIN h : InOrder(Audible(intent, probes))[k] \in Audible(intent, probes)
        BY <4>1, HeardIs DEF AllAlike
      <4> HIDE DEF h
      <4> QED BY <4>2, <4>3
    <3> HIDE DEF h
    <3>3. PICK out : out = Placed([k \in DOMAIN h |-> h[k].file], [k \in DOMAIN h |-> Target(intent, h[k])])
      OBVIOUS
    <3>4. Recipes(intent, h) = [k \in {} |-> [inputs |-> <<h[k].file>>, output |-> out[k]]]
      BY <3>2, <3>3 DEF Recipes
    <3>5. Recipes(intent, h) = <<>>
      BY <3>4
    <3> QED BY <1>1, <1>3, <3>5 DEF h
  <2>2. 1 \in DOMAIN probes
    <3>1. Len(probes) \in Nat /\ DOMAIN probes = 1..Len(probes)
      BY DEF AllAlike
    <3> QED BY <2>1, <3>1
  <2>3. ExtOf(intent, probes[1]) = ExtOf(intent, supposed[1])
    BY <2>2, AlikeNames DEF AllAlike
  <2>4. SampleName(intent, recipes[1], probes[1]) = SampleName(intent, recipes[1], supposed[1])
    BY <2>3 DEF SampleName
  <2> QED BY <1>1, <2>4 DEF BatchPaths
<1> QED BY <1>2, <1>3

---------------------------------------------------------------------------
\* What resolve_inputs lists.

LEMMA OrdersExist ==
    ASSUME NEW S, IsFiniteSet(S)
    PROVE  SetToSeqs(S) # {} /\ \A order \in SetToSeqs(S) : order \in Seq(S)
<1> DEFINE D == 1..Cardinality(S)
<1>1. Cardinality(S) \in Nat /\ ExistsBijection(D, S)
  BY FS_CardinalityType
<1>2. PICK f \in Bijection(D, S) : TRUE
  BY <1>1 DEF ExistsBijection
<1>3. f \in [D -> S] /\ \A i, j \in D : f[i] = f[j] => i = j
  BY <1>2 DEF Bijection, Injection, IsInjective
<1>4. f \in SetToSeqs(S)
  BY <1>3 DEF SetToSeqs
<1>5. \A order \in SetToSeqs(S) : order \in [D -> S]
  BY DEF SetToSeqs
<1>6. \A order \in [D -> S] : order \in Seq(S)
  BY <1>1
<1> QED BY <1>4, <1>5, <1>6

LEMMA ListingsAre ==
    ASSUME NEW held, IsFiniteSet(DOMAIN held), NEW input, input.form \in {"file", "pattern", "folder"},
           NEW listing \in Listings(held, input)
    PROVE  /\ listing \in Seq(Range(listing))
           /\ input.form = "file" => listing = <<input.path>>
<1> DEFINE M == Matches(held, input)
<1>1. M \subseteq DOMAIN held
  BY DEF Matches
<1>2. IsFiniteSet(M)
  BY <1>1, FS_Subset
<1> HIDE DEF M
<1>3. SetToSeqs(M) # {} /\ \A order \in SetToSeqs(M) : order \in Seq(M)
  BY <1>2, OrdersExist
<1>4. \A order \in Seq(M) : order \in Seq(Range(order))
  BY DEF Range
<1>5. CASE input.form = "file"
  <2>1. listing = <<input.path>>
    BY <1>5 DEF Listings
  <2> QED BY <1>5, <2>1 DEF Range
<1>6. CASE input.form = "pattern"
  <2>1. listing = Sorted(M)
    BY <1>6 DEF Listings, M
  <2>2. Sorted(M) \in SetToSeqs(M)
    BY <1>3 DEF Sorted
  <2> QED BY <1>3, <1>4, <1>6, <2>1, <2>2
<1>7. CASE input.form = "folder"
  <2>1. listing \in SetToSeqs(M)
    BY <1>7 DEF Listings, M
  <2> QED BY <1>3, <1>4, <1>7, <2>1
<1> QED BY <1>5, <1>6, <1>7

\* An input list as a tool is given it.
WholeInputs(inputs) ==
    /\ inputs \in Seq(Range(inputs))
    /\ \A k \in DOMAIN inputs : inputs[k].form \in {"file", "pattern", "folder"}

FilesNamed(inputs) == {inputs[k].path : k \in {m \in DOMAIN inputs : inputs[m].form = "file"}}

\* Everything that is given by name is listed, there or not.
LEMMA ResolveLists ==
    ASSUME NEW intent, WholeInputs(intent.inputs), NEW held, IsFiniteSet(DOMAIN held),
           NEW o \in Resolve(intent, held)
    PROVE  /\ o.end = "ok" /\ o.files = held /\ DOMAIN o.result = {"listed"}
           /\ o.result.listed \in Seq(Range(o.result.listed))
           /\ FilesNamed(intent.inputs) \subseteq Range(o.result.listed)
<1> DEFINE inputs == intent.inputs
<1>1. PICK pick : /\ pick = [k \in DOMAIN inputs |-> pick[k]]
                  /\ \A k \in DOMAIN inputs : pick[k] \in Listings(held, inputs[k])
                  /\ o \in Returns(held, [listed |-> FlattenSeq(pick)])
  BY Zenon DEF Resolve
<1>2. PICK n \in Nat : DOMAIN inputs = 1..n
  BY DEF WholeInputs
<1>3. \A k \in DOMAIN inputs : inputs[k].form \in {"file", "pattern", "folder"}
  BY DEF WholeInputs
<1>4. \A k \in 1..n : pick[k] \in Seq(Range(pick[k])) /\ (inputs[k].form = "file" => pick[k] = <<inputs[k].path>>)
  BY <1>1, <1>2, <1>3, ListingsAre
<1>5. o.end = "ok" /\ o.files = held /\ o.result = [listed |-> FlattenSeq(pick)]
  BY <1>1, ReturnsIs
<1> DEFINE S == UNION {Range(pick[k]) : k \in 1..n}
<1>6. \A k \in 1..n : pick[k] \in Seq(S)
  <2>1. SUFFICES ASSUME NEW k \in 1..n PROVE pick[k] \in Seq(S)
    OBVIOUS
  <2>2. Range(pick[k]) \subseteq S
    OBVIOUS
  <2> HIDE DEF S
  <2>3. \A order \in Seq(Range(pick[k])) : order \in Seq(S)
    BY <2>2
  <2> QED BY <1>4, <2>3
<1>7. FilesNamed(inputs) \subseteq UNION {Range(pick[k]) : k \in 1..n}
  <2>1. SUFFICES ASSUME NEW k \in 1..n, inputs[k].form = "file"
                 PROVE  inputs[k].path \in Range(pick[k])
    BY <1>2 DEF FilesNamed
  <2>2. pick[k] = <<inputs[k].path>>
    BY <1>4, <2>1
  <2> QED BY <2>2 DEF Range
<1> HIDE DEF inputs
<1>8. pick \in Seq(Seq(S))
  <2> HIDE DEF S
  <2>1. pick = [k \in 1..n |-> pick[k]]
    BY <1>1, <1>2
  <2> QED BY <1>6, <2>1
<1>9. FlattenSeq(pick) \in Seq(S) /\ Range(FlattenSeq(pick)) = UNION {Range(pick[k]) : k \in 1..n}
  <2>1. DOMAIN pick = 1..n
    BY <1>1, <1>2
  <2> HIDE DEF S
  <2> QED BY <1>8, <2>1, FlattenElements
<1>10. FlattenSeq(pick) \in Seq(Range(FlattenSeq(pick)))
  <2> HIDE DEF S
  <2>1. \A order \in Seq(S) : order \in Seq(Range(order))
    BY DEF Range
  <2> QED BY <1>9, <2>1
<1> QED BY <1>5, <1>7, <1>9, <1>10 DEF inputs

\* An inspection that is no preview and finds no error has probed all it was given.
LEMMA InspectProbes ==
    ASSUME NEW listed, listed \in Seq(Range(listed)), NEW held, NEW dry \in BOOLEAN,
           NEW o \in Inspect(listed, held, dry)
    PROVE  /\ o.end = "ok" /\ o.files = held /\ DOMAIN o.result = {"probes", "errors"}
           /\ o.result.probes \in Seq(Range(o.result.probes))
           /\ ~dry /\ ~o.result.errors =>
                 \A p \in Range(listed) : \E m \in DOMAIN o.result.probes : o.result.probes[m].file = p
<1> DEFINE one(k) == IF Probeable(held, listed[k]) THEN <<Probe(held, listed[k])>>
                     ELSE IF dry THEN <<DummyProbe(listed[k])>> ELSE <<>>
           all    == [k \in DOMAIN listed |-> one(k)]
           wrong  == ~dry /\ \E k \in DOMAIN listed : ~Probeable(held, listed[k])
<1>1. o.end = "ok" /\ o.files = held /\ o.result = [probes |-> FlattenSeq(all), errors |-> wrong]
  <2>1. o \in Returns(held, [probes |-> FlattenSeq(all), errors |-> wrong])
    BY DEF Inspect
  <2> HIDE DEF all, wrong
  <2> QED BY <2>1, ReturnsIs
<1>2. PICK n \in Nat : DOMAIN listed = 1..n
  OBVIOUS
<1> DEFINE S == UNION {Range(all[k]) : k \in 1..n}
<1>3. \A k \in 1..n : all[k] = one(k)
  BY <1>2
<1>4. ASSUME NEW k \in 1..n PROVE one(k) \in Seq(S)
  <2>1. one(k) \in Seq(Range(one(k)))
    <3>1. \A x : <<x>> \in Seq(Range(<<x>>))
      BY DEF Range
    <3>2. <<>> \in Seq(Range(<<>>))
      BY DEF Range
    <3> QED BY <3>1, <3>2
  <2>2. Range(one(k)) \subseteq S
    BY <1>3
  <2> HIDE DEF S, one, all
  <2>3. \A order \in Seq(Range(one(k))) : order \in Seq(S)
    BY <2>2
  <2> QED BY <2>1, <2>3
<1>5. all \in Seq(Seq(S))
  <2>1. all = [k \in 1..n |-> one(k)]
    BY <1>2
  <2> HIDE DEF S, one, all
  <2> QED BY <1>4, <2>1
<1>6. FlattenSeq(all) \in Seq(S) /\ Range(FlattenSeq(all)) = UNION {Range(all[k]) : k \in 1..n}
  <2>1. DOMAIN all = 1..n
    BY <1>2
  <2> HIDE DEF S, one, all
  <2> QED BY <1>5, <2>1, FlattenElements
<1>7. FlattenSeq(all) \in Seq(Range(FlattenSeq(all)))
  <2> HIDE DEF S, all
  <2>1. \A order \in Seq(S) : order \in Seq(Range(order))
    BY DEF Range
  <2> QED BY <1>6, <2>1
<1>8. ASSUME ~dry, ~wrong, NEW p \in Range(listed)
      PROVE  \E m \in DOMAIN FlattenSeq(all) : FlattenSeq(all)[m].file = p
  <2>1. PICK k \in 1..n : listed[k] = p
    BY <1>2, <1>8 DEF Range
  <2>2. Probeable(held, listed[k])
    BY <1>2, <1>8
  <2>3. all[k] = <<Probe(held, listed[k])>>
    BY <1>3, <2>2
  <2>4. Probe(held, listed[k]) \in Range(all[k])
    <3>1. \A x : x \in Range(<<x>>)
      BY DEF Range
    <3> HIDE DEF all
    <3> QED BY <2>3, <3>1
  <2>5. Probe(held, listed[k]) \in Range(FlattenSeq(all))
    BY <1>6, <2>4
  <2>6. Probe(held, listed[k]).file = p
    BY <2>1 DEF Probe
  <2> HIDE DEF all
  <2> QED BY <2>5, <2>6 DEF Range
<1> HIDE DEF all, wrong
<1> QED BY <1>1, <1>7, <1>8

---------------------------------------------------------------------------
\* The leaves of an intent, by name.

IsJoin(intent) == ~AsksPlatform(intent) /\ intent.tool = "concat_video"
IsBatch(intent) == ~AsksPlatform(intent) /\ intent.tool # "concat_video"

LeafNames(intent) ==
    IF AsksPlatform(intent) THEN <<"clarify">>
    ELSE IF intent.tool = "concat_video"
         THEN IF intent.based THEN <<"run_concat">> ELSE <<"resolve_inputs", "inspect_media", "run_concat">>
         ELSE IF HasSample(intent)
              THEN <<"resolve_inputs", "inspect_media", "build_recipes", "run_preview", "run_batch">>
              ELSE <<"resolve_inputs", "inspect_media", "build_recipes", "run_batch">>

LEMMA JoinOne ==
    ASSUME NEW S, NEW s \in Seq(S), NEW x \in S
    PROVE  s \o <<x>> = Append(s, x)
  OBVIOUS

LEMMA JoinThree ==
    ASSUME NEW a, NEW b, NEW c
    PROVE  <<a, b>> \o <<c>> = <<a, b, c>>
<1> DEFINE S == {a, b, c}
<1>1. <<a, b>> \in Seq(S) /\ c \in S
  OBVIOUS
<1>2. <<a, b>> \o <<c>> = Append(<<a, b>>, c)
  BY <1>1, JoinOne
<1>3. Append(<<a, b>>, c) = <<a, b, c>>
  <2> DEFINE T == Append(<<a, b>>, c)
  <2>1. T \in Seq(S) /\ Len(T) = 3
    BY <1>1
  <2>2. T[1] = a /\ T[2] = b /\ T[3] = c
    OBVIOUS
  <2>3. T = [i \in 1..3 |-> T[i]]
    <3> HIDE DEF T, S
    <3> QED BY <2>1
  <2> DEFINE F == <<a, b, c>>
  <2>4. F = [i \in 1..3 |-> F[i]]
    OBVIOUS
  <2>5. \A i \in 1..3 : T[i] = F[i]
    <3> HIDE DEF T
    <3>1. \A i \in 1..3 : i = 1 \/ i = 2 \/ i = 3
      OBVIOUS
    <3> QED BY <2>2, <3>1
  <2> HIDE DEF T, F
  <2>6. T = F
    BY <2>3, <2>4, <2>5
  <2> QED BY <2>6 DEF F, T
<1> QED BY <1>2, <1>3

LEMMA JoinFour ==
    ASSUME NEW a, NEW b, NEW c, NEW d
    PROVE  <<a, b, c>> \o <<d>> = <<a, b, c, d>>
<1> DEFINE S == {a, b, c, d}
<1>1. <<a, b, c>> \in Seq(S) /\ d \in S
  OBVIOUS
<1>2. <<a, b, c>> \o <<d>> = Append(<<a, b, c>>, d)
  BY <1>1, JoinOne
<1>3. Append(<<a, b, c>>, d) = <<a, b, c, d>>
  <2> DEFINE T == Append(<<a, b, c>>, d)
  <2>1. T \in Seq(S) /\ Len(T) = 4
    BY <1>1
  <2>2. T[1] = a /\ T[2] = b /\ T[3] = c /\ T[4] = d
    OBVIOUS
  <2>3. T = [i \in 1..4 |-> T[i]]
    <3> HIDE DEF T, S
    <3> QED BY <2>1
  <2> DEFINE F == <<a, b, c, d>>
  <2>4. F = [i \in 1..4 |-> F[i]]
    OBVIOUS
  <2>5. \A i \in 1..4 : T[i] = F[i]
    <3> HIDE DEF T
    <3>1. \A i \in 1..4 : i = 1 \/ i = 2 \/ i = 3 \/ i = 4
      OBVIOUS
    <3> QED BY <2>2, <3>1
  <2> HIDE DEF T, F
  <2>6. T = F
    BY <2>3, <2>4, <2>5
  <2> QED BY <2>6 DEF F, T
<1> QED BY <1>2, <1>3

LEMMA JoinFive ==
    ASSUME NEW a, NEW b, NEW c, NEW d, NEW e
    PROVE  <<a, b, c, d>> \o <<e>> = <<a, b, c, d, e>>
<1> DEFINE S == {a, b, c, d, e}
<1>1. <<a, b, c, d>> \in Seq(S) /\ e \in S
  OBVIOUS
<1>2. <<a, b, c, d>> \o <<e>> = Append(<<a, b, c, d>>, e)
  BY <1>1, JoinOne
<1>3. Append(<<a, b, c, d>>, e) = <<a, b, c, d, e>>
  <2> DEFINE T == Append(<<a, b, c, d>>, e)
  <2>1. T \in Seq(S) /\ Len(T) = 5
    BY <1>1
  <2>2. T[1] = a /\ T[2] = b /\ T[3] = c /\ T[4] = d /\ T[5] = e
    OBVIOUS
  <2>3. T = [i \in 1..5 |-> T[i]]
    <3> HIDE DEF T, S
    <3> QED BY <2>1
  <2> DEFINE F == <<a, b, c, d, e>>
  <2>4. F = [i \in 1..5 |-> F[i]]
    OBVIOUS
  <2>5. \A i \in 1..5 : T[i] = F[i]
    <3> HIDE DEF T
    <3>1. \A i \in 1..5 : i = 1 \/ i = 2 \/ i = 3 \/ i = 4 \/ i = 5
      OBVIOUS
    <3> QED BY <2>2, <3>1
  <2> HIDE DEF T, F
  <2>6. T = F
    BY <2>3, <2>4, <2>5
  <2> QED BY <2>6 DEF F, T
<1> QED BY <1>2, <1>3

LEMMA JoinNone ==
    ASSUME NEW a, NEW b, NEW c
    PROVE  <<a, b, c>> \o <<>> = <<a, b, c>>
  OBVIOUS

LEMMA UpToFive ==
    /\ \A k \in 1..3 : k = 1 \/ k = 2 \/ k = 3
    /\ \A k \in 1..4 : k = 1 \/ k = 2 \/ k = 3 \/ k = 4
    /\ \A k \in 1..5 : k = 1 \/ k = 2 \/ k = 3 \/ k = 4 \/ k = 5
  OBVIOUS

LEMMA LeavesAre ==
    ASSUME NEW intent
    PROVE  /\ Len(MediaLeaves(intent)) \in Nat \ {0} /\ Len(MediaLeaves(intent)) = Len(LeafNames(intent))
           /\ DOMAIN MediaLeaves(intent) = 1..Len(MediaLeaves(intent))
           /\ \A k \in DOMAIN MediaLeaves(intent) :
                 MediaLeaves(intent)[k] = LeafOf(LeafNames(intent)[k], intent)
<1> DEFINE L(tool) == LeafOf(tool, intent)
<1>1. CASE AsksPlatform(intent)
  <2>1. MediaLeaves(intent) = <<L("clarify")>> /\ LeafNames(intent) = <<"clarify">>
    BY <1>1 DEF MediaLeaves, LeafNames
  <2> HIDE DEF L
  <2>2. \A k \in 1..1 : <<L("clarify")>>[k] = L(<<"clarify">>[k])
    OBVIOUS
  <2> QED BY <2>1, <2>2 DEF L
<1>2. CASE ~AsksPlatform(intent) /\ intent.tool = "concat_video" /\ intent.based
  <2>1. MediaLeaves(intent) = <<>> \o <<L("run_concat")>> /\ LeafNames(intent) = <<"run_concat">>
    BY <1>2 DEF MediaLeaves, LeafNames, ConcatLeaves
  <2> HIDE DEF L
  <2>2. <<>> \o <<L("run_concat")>> = <<L("run_concat")>>
    OBVIOUS
  <2>3. \A k \in 1..1 : <<L("run_concat")>>[k] = L(<<"run_concat">>[k])
    OBVIOUS
  <2> QED BY <2>1, <2>2, <2>3 DEF L
<1>3. CASE ~AsksPlatform(intent) /\ intent.tool = "concat_video" /\ ~intent.based
  <2>1. /\ MediaLeaves(intent) = <<L("resolve_inputs"), L("inspect_media")>> \o <<L("run_concat")>>
        /\ LeafNames(intent) = <<"resolve_inputs", "inspect_media", "run_concat">>
    BY <1>3 DEF MediaLeaves, LeafNames, ConcatLeaves, Look
  <2> HIDE DEF L
  <2>2. <<L("resolve_inputs"), L("inspect_media")>> \o <<L("run_concat")>> =
          <<L("resolve_inputs"), L("inspect_media"), L("run_concat")>>
    BY JoinThree
  <2> DEFINE T == <<L("resolve_inputs"), L("inspect_media"), L("run_concat")>>
             N == <<"resolve_inputs", "inspect_media", "run_concat">>
  <2>3. ASSUME NEW k \in 1..3 PROVE T[k] = L(N[k])
    <3>1. k = 1 \/ k = 2 \/ k = 3
      BY UpToFive
    <3>2. CASE k = 1
      BY <3>2
    <3>3. CASE k = 2
      BY <3>3
    <3>4. CASE k = 3
      BY <3>4
    <3> QED BY <3>1, <3>2, <3>3, <3>4
  <2> QED BY <2>1, <2>2, <2>3 DEF L
<1>4. CASE ~AsksPlatform(intent) /\ intent.tool # "concat_video" /\ HasSample(intent)
  <2>1. /\ MediaLeaves(intent) = <<L("resolve_inputs"), L("inspect_media")>> \o <<L("build_recipes")>>
                                 \o <<L("run_preview")>> \o <<L("run_batch")>>
        /\ LeafNames(intent) = <<"resolve_inputs", "inspect_media", "build_recipes", "run_preview", "run_batch">>
    BY <1>4 DEF MediaLeaves, LeafNames, BatchLeaves, Look
  <2> HIDE DEF L
  <2>2. <<L("resolve_inputs"), L("inspect_media")>> \o <<L("build_recipes")>>
          \o <<L("run_preview")>> \o <<L("run_batch")>> =
        <<L("resolve_inputs"), L("inspect_media"), L("build_recipes"), L("run_preview"), L("run_batch")>>
    <3>1. <<L("resolve_inputs"), L("inspect_media")>> \o <<L("build_recipes")>> = <<L("resolve_inputs"), L("inspect_media"), L("build_recipes")>>
      BY JoinThree
    <3>2. <<L("resolve_inputs"), L("inspect_media"), L("build_recipes")>> \o <<L("run_preview")>> = <<L("resolve_inputs"), L("inspect_media"), L("build_recipes"), L("run_preview")>>
      BY JoinFour
    <3>3. <<L("resolve_inputs"), L("inspect_media"), L("build_recipes"), L("run_preview")>> \o <<L("run_batch")>> = <<L("resolve_inputs"), L("inspect_media"), L("build_recipes"), L("run_preview"), L("run_batch")>>
      BY JoinFive
    <3> QED BY <3>1, <3>2, <3>3
  <2> DEFINE T == <<L("resolve_inputs"), L("inspect_media"), L("build_recipes"), L("run_preview"), L("run_batch")>>
             N == <<"resolve_inputs", "inspect_media", "build_recipes", "run_preview", "run_batch">>
  <2>3. ASSUME NEW k \in 1..5 PROVE T[k] = L(N[k])
    <3>1. k = 1 \/ k = 2 \/ k = 3 \/ k = 4 \/ k = 5
      BY UpToFive
    <3>2. CASE k = 1
      BY <3>2
    <3>3. CASE k = 2
      BY <3>3
    <3>4. CASE k = 3
      BY <3>4
    <3>5. CASE k = 4
      BY <3>5
    <3>6. CASE k = 5
      BY <3>6
    <3> QED BY <3>1, <3>2, <3>3, <3>4, <3>5, <3>6
  <2> QED BY <2>1, <2>2, <2>3 DEF L
<1>5. CASE ~AsksPlatform(intent) /\ intent.tool # "concat_video" /\ ~HasSample(intent)
  <2>1. /\ MediaLeaves(intent) = <<L("resolve_inputs"), L("inspect_media")>> \o <<L("build_recipes")>>
                                 \o <<>> \o <<L("run_batch")>>
        /\ LeafNames(intent) = <<"resolve_inputs", "inspect_media", "build_recipes", "run_batch">>
    BY <1>5 DEF MediaLeaves, LeafNames, BatchLeaves, Look
  <2> HIDE DEF L
  <2>2. <<L("resolve_inputs"), L("inspect_media")>> \o <<L("build_recipes")>> \o <<>> \o <<L("run_batch")>> =
        <<L("resolve_inputs"), L("inspect_media"), L("build_recipes"), L("run_batch")>>
    <3>1. <<L("resolve_inputs"), L("inspect_media")>> \o <<L("build_recipes")>> = <<L("resolve_inputs"), L("inspect_media"), L("build_recipes")>>
      BY JoinThree
    <3>2. <<L("resolve_inputs"), L("inspect_media"), L("build_recipes")>> \o <<>> = <<L("resolve_inputs"), L("inspect_media"), L("build_recipes")>>
      BY JoinNone
    <3>3. <<L("resolve_inputs"), L("inspect_media"), L("build_recipes")>> \o <<L("run_batch")>> = <<L("resolve_inputs"), L("inspect_media"), L("build_recipes"), L("run_batch")>>
      BY JoinFour
    <3> QED BY <3>1, <3>2, <3>3
  <2> DEFINE T == <<L("resolve_inputs"), L("inspect_media"), L("build_recipes"), L("run_batch")>>
             N == <<"resolve_inputs", "inspect_media", "build_recipes", "run_batch">>
  <2>3. ASSUME NEW k \in 1..4 PROVE T[k] = L(N[k])
    <3>1. k = 1 \/ k = 2 \/ k = 3 \/ k = 4
      BY UpToFive
    <3>2. CASE k = 1
      BY <3>2
    <3>3. CASE k = 2
      BY <3>3
    <3>4. CASE k = 3
      BY <3>4
    <3>5. CASE k = 4
      BY <3>5
    <3> QED BY <3>1, <3>2, <3>3, <3>4, <3>5
  <2> QED BY <2>1, <2>2, <2>3 DEF L
<1> QED BY <1>1, <1>2, <1>3, <1>4, <1>5

---------------------------------------------------------------------------
\* One recipe for each file that is worked on.

OnePerFile(intent, probes, recipes) ==
    /\ recipes \in Seq(Range(recipes))
    /\ \A m \in Audible(intent, probes) : \E k \in DOMAIN recipes : recipes[k].inputs = <<probes[m].file>>

LEMMA RecipesAre ==
    ASSUME NEW intent, NEW probes, probes \in Seq(Range(probes))
    PROVE  OnePerFile(intent, probes, Recipes(intent, Heard(intent, probes)))
<1> DEFINE at == InOrder(Audible(intent, probes))
           h  == Heard(intent, probes)
           r  == Recipes(intent, h)
<1>1. PICK n \in Nat : DOMAIN at = 1..n
  BY HeardIs
<1>2. h = [k \in 1..n |-> probes[at[k]]]
  BY <1>1, HeardIs
<1>3. \A m \in Audible(intent, probes) : \E k \in DOMAIN at : at[k] = m
  BY HeardIs
<1> HIDE DEF at, h
<1>4. PICK out : out = Placed([k \in DOMAIN h |-> h[k].file], [k \in DOMAIN h |-> Target(intent, h[k])])
  OBVIOUS
<1>5. r = [k \in 1..n |-> [inputs |-> <<h[k].file>>, output |-> out[k]]]
  BY <1>2, <1>4 DEF Recipes
<1> HIDE DEF r
<1>6. r \in Seq(Range(r))
  <2>1. \A k \in 1..n : r[k] \in Range(r)
    BY <1>5 DEF Range
  <2>2. r = [k \in 1..n |-> r[k]]
    BY <1>5
  <2> QED BY <1>1, <2>1, <2>2
<1>7. ASSUME NEW m \in Audible(intent, probes)
      PROVE  \E k \in DOMAIN r : r[k].inputs = <<probes[m].file>>
  <2>1. PICK k \in 1..n : at[k] = m
    BY <1>1, <1>3
  <2>2. k \in DOMAIN r /\ r[k].inputs = <<probes[m].file>>
    BY <1>2, <1>5, <2>1
  <2> QED BY <2>2
<1> QED BY <1>6, <1>7 DEF OnePerFile, r, h

---------------------------------------------------------------------------
\* What a leaf finds, writes and tells.

\* What the leaves before the l-th have returned.
WholeTold(intent, told, l) ==
    ~AsksPlatform(intent) /\ ~(intent.tool = "concat_video" /\ intent.based) =>
        /\ l >= 2 => told[1].listed \in Seq(Range(told[1].listed))
        /\ l >= 3 => told[2].probes \in Seq(Range(told[2].probes))
        /\ l >= 4 => told[3].recipes = Recipes(intent, Heard(intent, told[2].probes))

\* A joined clip has one name, whatever it is joined of.
JoinedPath(intent) ==
    IF intent.out = NoFile THEN [dir |-> <<>>, name |-> [parts |-> <<"combined">>, ext |-> ".mp4"]]
    ELSE Under(<<>>, intent.out)

BatchOutputs(intent, probes) ==
    {Recipes(intent, Heard(intent, probes))[k].output : k \in DOMAIN Recipes(intent, Heard(intent, probes))}

SamplePaths(intent, probes, recipes) ==
    IF recipes # <<>> THEN {SampleName(intent, recipes[1], probes[1])} ELSE {}

LeafPaths(leaf, told) ==
    CASE leaf.tool = "run_preview" -> SamplePaths(leaf.intent, told[2].probes, told[3].recipes)
      [] leaf.tool = "run_batch"   -> {told[3].recipes[k].output : k \in DOMAIN told[3].recipes}
      [] leaf.tool = "run_concat"  -> {JoinedPath(leaf.intent)}
      [] OTHER -> {}

\* The l-th leaf of an intent, with what came before.
AtStep(intent, l, told) ==
    /\ WholeInputs(intent.inputs) /\ WholeTold(intent, told, l)
    /\ l \in DOMAIN MediaLeaves(intent)

Ended(o) == o.end \in {"ok", "raised", "stops"}

\* Where each leaf stands.
Standing(intent, l, leaf) ==
    /\ leaf.intent = intent
    /\ \/ AsksPlatform(intent) /\ l = 1 /\ Len(MediaLeaves(intent)) = 1 /\ leaf.tool = "clarify"
       \/ /\ ~AsksPlatform(intent)
          /\ intent.tool = "concat_video" /\ intent.based /\ l = 1 /\ Len(MediaLeaves(intent)) = 1
          /\ leaf.tool = "run_concat"
       \/ /\ IsJoin(intent) /\ ~intent.based /\ Len(MediaLeaves(intent)) = 3
          /\ \/ l = 1 /\ leaf.tool = "resolve_inputs"
             \/ l = 2 /\ leaf.tool = "inspect_media"
             \/ l = 3 /\ leaf.tool = "run_concat"
       \/ /\ IsBatch(intent) /\ HasSample(intent) /\ Len(MediaLeaves(intent)) = 5
          /\ \/ l = 1 /\ leaf.tool = "resolve_inputs"
             \/ l = 2 /\ leaf.tool = "inspect_media"
             \/ l = 3 /\ leaf.tool = "build_recipes"
             \/ l = 4 /\ leaf.tool = "run_preview"
             \/ l = 5 /\ leaf.tool = "run_batch"
       \/ /\ IsBatch(intent) /\ ~HasSample(intent) /\ Len(MediaLeaves(intent)) = 4
          /\ \/ l = 1 /\ leaf.tool = "resolve_inputs"
             \/ l = 2 /\ leaf.tool = "inspect_media"
             \/ l = 3 /\ leaf.tool = "build_recipes"
             \/ l = 4 /\ leaf.tool = "run_batch"

LEMMA StepIs ==
    ASSUME NEW intent, NEW l \in DOMAIN MediaLeaves(intent)
    PROVE  Standing(intent, l, MediaLeaves(intent)[l])
<1> DEFINE leaf == MediaLeaves(intent)[l]
           names == LeafNames(intent)
<1>1. /\ l \in 1..Len(names) /\ Len(MediaLeaves(intent)) = Len(names)
      /\ leaf.intent = intent /\ leaf.tool = names[l]
  BY LeavesAre DEF LeafOf
<1>2. CASE AsksPlatform(intent)
  <2>1. names = <<"clarify">>
    BY <1>2 DEF LeafNames
  <2> HIDE DEF leaf, names
  <2>2. Len(names) = 1 /\ l = 1 /\ names[1] = "clarify"
    BY <1>1, <2>1
  <2> QED BY <1>1, <1>2, <2>2 DEF leaf, Standing
<1>3. CASE ~AsksPlatform(intent) /\ intent.tool = "concat_video" /\ intent.based
  <2>1. names = <<"run_concat">>
    BY <1>3 DEF LeafNames
  <2> HIDE DEF leaf, names
  <2>2. Len(names) = 1 /\ l = 1 /\ names[1] = "run_concat"
    BY <1>1, <2>1
  <2> QED BY <1>1, <1>3, <2>2 DEF leaf, Standing
<1>4. CASE ~AsksPlatform(intent) /\ intent.tool = "concat_video" /\ ~intent.based
  <2>1. names = <<"resolve_inputs", "inspect_media", "run_concat">>
    BY <1>4 DEF LeafNames
  <2> HIDE DEF leaf, names
  <2>2. Len(names) = 3 /\ names[1] = "resolve_inputs" /\ names[2] = "inspect_media" /\ names[3] = "run_concat"
    BY <2>1
  <2>3. l = 1 \/ l = 2 \/ l = 3
    BY <1>1, <2>2, UpToFive
  <2> QED BY <1>1, <1>4, <2>2, <2>3 DEF leaf, Standing, IsJoin
<1>5. CASE IsBatch(intent) /\ HasSample(intent)
  <2>1. names = <<"resolve_inputs", "inspect_media", "build_recipes", "run_preview", "run_batch">>
    BY <1>5 DEF LeafNames, IsBatch
  <2> HIDE DEF leaf, names
  <2>2. /\ Len(names) = 5 /\ names[1] = "resolve_inputs" /\ names[2] = "inspect_media"
        /\ names[3] = "build_recipes" /\ names[4] = "run_preview" /\ names[5] = "run_batch"
    BY <2>1
  <2>3. l = 1 \/ l = 2 \/ l = 3 \/ l = 4 \/ l = 5
    BY <1>1, <2>2, UpToFive
  <2> QED BY <1>1, <1>5, <2>2, <2>3 DEF leaf, Standing
<1>6. CASE IsBatch(intent) /\ ~HasSample(intent)
  <2>1. names = <<"resolve_inputs", "inspect_media", "build_recipes", "run_batch">>
    BY <1>6 DEF LeafNames, IsBatch
  <2> HIDE DEF leaf, names
  <2>2. /\ Len(names) = 4 /\ names[1] = "resolve_inputs" /\ names[2] = "inspect_media"
        /\ names[3] = "build_recipes" /\ names[4] = "run_batch"
    BY <2>1
  <2>3. l = 1 \/ l = 2 \/ l = 3 \/ l = 4
    BY <1>1, <2>2, UpToFive
  <2> QED BY <1>1, <1>6, <2>2, <2>3 DEF leaf, Standing
<1> QED BY <1>2, <1>3, <1>4, <1>5, <1>6 DEF IsBatch

LEMMA EndOfIs ==
    ASSUME NEW state, NEW o \in EndOf(state)
    PROVE  /\ Ended(o) /\ o.files = state.files
           /\ o.end # "raised" => o.result = [outputs |-> state.outputs] /\ ~state.raised
           /\ o.end = "ok" => ~Failed(state.outputs)
<1>1. CASE state.raised
  <2>1. o \in Raises(state.files)
    BY <1>1 DEF EndOf
  <2> QED BY <2>1, RaisesIs DEF Ended
<1>2. CASE ~state.raised /\ Failed(state.outputs)
  <2>1. o \in Stops(state.files, [outputs |-> state.outputs])
    BY <1>2 DEF EndOf
  <2> QED BY <1>2, <2>1, StopsIs DEF Ended
<1>3. CASE ~state.raised /\ ~Failed(state.outputs)
  <2>1. o \in Returns(state.files, [outputs |-> state.outputs])
    BY <1>3 DEF EndOf
  <2> QED BY <1>3, <2>1, ReturnsIs DEF Ended
<1> QED BY <1>1, <1>2, <1>3

LEMMA RunGrows ==
    ASSUME NEW intent, NEW recipes, NEW held, NEW dry \in BOOLEAN, NEW machine, NEW paths,
           recipes \in Seq(Range(recipes)), {recipes[k].output : k \in DOMAIN recipes} \subseteq paths,
           NEW o \in Run(intent, recipes, held, dry, machine)
    PROVE  /\ Grows(held, o.files, paths) /\ Ended(o)
           /\ dry => o.end = "ok" /\ o.result = [outputs |-> AsPlanned(recipes)]
<1>1. Len(recipes) \in Nat /\ DOMAIN recipes = 1..Len(recipes)
  OBVIOUS
<1>2. CASE dry
  <2>1. o \in Returns(held, [outputs |-> AsPlanned(recipes)])
    BY <1>2 DEF Run
  <2>2. o.end = "ok" /\ o.files = held /\ o.result = [outputs |-> AsPlanned(recipes)]
    BY <2>1, ReturnsIs
  <2> QED BY <2>2, SameGrows DEF Ended
<1>3. CASE ~dry
  <2>1. PICK state \in Commands(intent, recipes, held, machine) : o \in EndOf(state)
    BY <1>3, Zenon DEF Run
  <2>3. Ended(o) /\ o.files = state.files
    BY <2>1, EndOfIs
  <2>4. Grows(held, state.files, paths)
    BY <1>1, <2>1, CommandsGrow
  <2> QED BY <1>3, <2>3, <2>4
<1> QED BY <1>2, <1>3

Sampled(held, o, paths) ==
    /\ Grows(held, o.files, paths) /\ Ended(o)
    /\ o.end # "raised" => DOMAIN o.result = {"preview", "ok"} /\ paths = {o.result.preview}

LEMMA SampleGrows ==
    ASSUME NEW intent, NEW probes, NEW recipes, NEW held, NEW dry \in BOOLEAN, NEW machine,
           NEW o \in Sample(intent, probes, recipes, held, dry, machine)
    PROVE  Sampled(held, o, SamplePaths(intent, probes, recipes))
<1> DEFINE name == SampleName(intent, recipes[1], probes[1])
<1> HIDE DEF name
<1>1. CASE recipes = <<>>
  <2>1. o \in Raises(held)
    BY <1>1 DEF Sample
  <2>2. o.end = "raised" /\ o.files = held
    BY <2>1, RaisesIs
  <2> QED BY <2>2, SameGrows DEF Ended, Sampled, SamplePaths, name
<1>2. CASE recipes # <<>> /\ dry
  <2>1. o \in Returns(held, [preview |-> name, ok |-> TRUE])
    BY <1>2 DEF Sample, name
  <2>2. o.end = "ok" /\ o.files = held /\ o.result = [preview |-> name, ok |-> TRUE]
    BY <2>1, ReturnsIs
  <2> QED BY <1>2, <2>2, SameGrows DEF Ended, Sampled, SamplePaths, name
<1>3. CASE recipes # <<>> /\ ~dry
  <2>1. PICK x \in Outcomes(intent, recipes[1], held, name, machine) :
          o \in (IF x.ok THEN Returns(x.files, [preview |-> name, ok |-> TRUE])
                 ELSE Stops(x.files, [preview |-> name, ok |-> FALSE]))
    BY <1>3, Zenon DEF Sample, name
  <2>2. Grows(held, x.files, {name}) /\ x.ok \in BOOLEAN
    BY <2>1, OutcomeGrows
  <2>3. CASE x.ok
    <3>1. o \in Returns(x.files, [preview |-> name, ok |-> TRUE])
      BY <2>1, <2>3
    <3>2. o.end = "ok" /\ o.files = x.files /\ o.result = [preview |-> name, ok |-> TRUE]
      BY <3>1, ReturnsIs
    <3> QED BY <1>3, <2>2, <3>2 DEF Ended, Sampled, SamplePaths, name
  <2>4. CASE ~x.ok
    <3>1. o \in Stops(x.files, [preview |-> name, ok |-> FALSE])
      BY <2>1, <2>4
    <3>2. o.end = "stops" /\ o.files = x.files /\ o.result = [preview |-> name, ok |-> FALSE]
      BY <3>1, StopsIs
    <3> QED BY <1>3, <2>2, <3>2 DEF Ended, Sampled, SamplePaths, name
  <2> QED BY <2>2, <2>3, <2>4
<1> QED BY <1>1, <1>2, <1>3

\* A leaf leaves what it does not write alone, and returns what the next need.
LeafTells(leaf, told, o, dry) ==
    /\ leaf.tool # "clarify"
    /\ leaf.tool = "resolve_inputs" => o.result.listed \in Seq(Range(o.result.listed))
    /\ leaf.tool = "inspect_media" => o.result.probes \in Seq(Range(o.result.probes))
    /\ leaf.tool = "build_recipes" =>
          o.result.recipes = Recipes(leaf.intent, Heard(leaf.intent, told[2].probes))
    /\ dry => LeafPaths(leaf, told) \subseteq MediaWrites(o.result)

LEMMA PlannedWrites ==
    ASSUME NEW recipes
    PROVE  {recipes[k].output : k \in DOMAIN recipes} \subseteq MediaWrites([outputs |-> AsPlanned(recipes)])
  BY DEF MediaWrites, AsPlanned

LEMMA LeafIs ==
    ASSUME NEW intent, NEW l, NEW told, AtStep(intent, l, told), NEW held, IsFiniteSet(DOMAIN held),
           NEW machine, NEW dry \in BOOLEAN, NEW o \in Handle(MediaLeaves(intent)[l], held, told, machine, dry)
    PROVE  /\ Grows(held, o.files, LeafPaths(MediaLeaves(intent)[l], told)) /\ Ended(o)
           /\ o.end = "ok" => LeafTells(MediaLeaves(intent)[l], told, o, dry)
           /\ MediaLeaves(intent)[l].tool = "clarify" => o.end = "stops"
<1> DEFINE leaf == MediaLeaves(intent)[l]
<1>1. /\ leaf.intent = intent /\ leaf.tool \in {"clarify", "resolve_inputs", "inspect_media", "build_recipes",
                                              "run_preview", "run_batch", "run_concat"}
      /\ leaf.tool \in {"resolve_inputs", "inspect_media", "build_recipes", "run_preview", "run_batch"} =>
            ~AsksPlatform(intent) /\ ~(intent.tool = "concat_video" /\ intent.based)
      /\ leaf.tool = "inspect_media" => l = 2
      /\ leaf.tool = "build_recipes" => l = 3
      /\ leaf.tool \in {"run_preview", "run_batch"} => l \in {4, 5}
  BY StepIs DEF Standing, AtStep, IsJoin, IsBatch
<1>2. WholeInputs(intent.inputs) /\ WholeTold(intent, told, l)
  BY DEF AtStep
<1> HIDE DEF leaf
<1>3. CASE leaf.tool = "clarify"
  <2>1. o \in Stops(held, [asks |-> TRUE])
    BY <1>3 DEF Handle, leaf
  <2>2. o.end = "stops" /\ o.files = held
    BY <2>1, StopsIs
  <2> QED BY <2>2, SameGrows DEF Ended, leaf
<1>4. CASE leaf.tool = "resolve_inputs"
  <2>1. o \in Resolve(intent, held)
    BY <1>1, <1>4 DEF Handle, leaf
  <2>2. o.end = "ok" /\ o.files = held /\ o.result.listed \in Seq(Range(o.result.listed))
    BY <1>2, <2>1, ResolveLists
  <2>3. LeafPaths(leaf, told) = {}
    BY <1>4 DEF LeafPaths
  <2> QED BY <1>4, <2>2, <2>3, SameGrows DEF Ended, LeafTells, leaf
<1>5. CASE leaf.tool = "inspect_media"
  <2>1. o \in Inspect(told[1].listed, held, dry)
    BY <1>1, <1>5 DEF Handle, leaf
  <2>2. told[1].listed \in Seq(Range(told[1].listed))
    BY <1>1, <1>2, <1>5 DEF WholeTold
  <2>3. o.end = "ok" /\ o.files = held /\ o.result.probes \in Seq(Range(o.result.probes))
    BY <2>1, <2>2, InspectProbes
  <2>4. LeafPaths(leaf, told) = {}
    BY <1>5 DEF LeafPaths
  <2> QED BY <1>5, <2>3, <2>4, SameGrows DEF Ended, LeafTells, leaf
<1>6. CASE leaf.tool = "build_recipes"
  <2>1. o \in Build(intent, told[2].probes, held, dry)
    BY <1>1, <1>6 DEF Handle, leaf
  <2>2. o \in Raises(held) \/ o \in Returns(held, [recipes |-> Recipes(intent, Heard(intent, told[2].probes))])
    BY <2>1 DEF Build
  <2>3. \/ o.end = "raised" /\ o.files = held
        \/ /\ o.end = "ok" /\ o.files = held
           /\ o.result = [recipes |-> Recipes(intent, Heard(intent, told[2].probes))]
    BY <2>2, RaisesIs, ReturnsIs
  <2>4. LeafPaths(leaf, told) = {}
    BY <1>6 DEF LeafPaths
  <2> QED BY <1>1, <1>6, <2>3, <2>4, SameGrows DEF Ended, LeafTells, leaf
<1>7. CASE leaf.tool = "run_preview"
  <2>1. o \in Sample(intent, told[2].probes, told[3].recipes, held, dry, machine)
    BY <1>1, <1>7 DEF Handle, leaf
  <2>2. LeafPaths(leaf, told) = SamplePaths(intent, told[2].probes, told[3].recipes)
    BY <1>1, <1>7 DEF LeafPaths
  <2>3. /\ Grows(held, o.files, LeafPaths(leaf, told)) /\ Ended(o)
        /\ o.end # "raised" => DOMAIN o.result = {"preview", "ok"} /\ LeafPaths(leaf, told) = {o.result.preview}
    <3>1. PICK probes, recipes : probes = told[2].probes /\ recipes = told[3].recipes
      OBVIOUS
    <3>2. o \in Sample(intent, probes, recipes, held, dry, machine)
      BY <2>1, <3>1
    <3>3. Sampled(held, o, SamplePaths(intent, probes, recipes))
      BY <3>2, SampleGrows
    <3> QED BY <2>2, <3>1, <3>3 DEF Sampled
  <2>4. o.end = "ok" => LeafPaths(leaf, told) \subseteq MediaWrites(o.result)
    BY <2>3 DEF MediaWrites
  <2> QED BY <1>7, <2>3, <2>4 DEF LeafTells, leaf
<1>8. CASE leaf.tool = "run_batch"
  <2>1. o \in Run(intent, told[3].recipes, held, dry, machine)
    BY <1>1, <1>8 DEF Handle, leaf
  <2>2. l >= 3 /\ l >= 4
    BY <1>1, <1>8
  <2>3. told[2].probes \in Seq(Range(told[2].probes)) /\ told[3].recipes = Recipes(intent, Heard(intent, told[2].probes))
    BY <1>1, <1>2, <1>8, <2>2 DEF WholeTold
  <2>4. told[3].recipes \in Seq(Range(told[3].recipes))
    BY <2>3, RecipesAre DEF OnePerFile
  <2>5. LeafPaths(leaf, told) = {told[3].recipes[k].output : k \in DOMAIN told[3].recipes}
    BY <1>8 DEF LeafPaths
  <2>6. /\ Grows(held, o.files, LeafPaths(leaf, told)) /\ Ended(o)
        /\ dry => o.end = "ok" /\ o.result = [outputs |-> AsPlanned(told[3].recipes)]
    <3>1. PICK recipes : recipes = told[3].recipes
      OBVIOUS
    <3>2. PICK paths : paths = LeafPaths(leaf, told)
      OBVIOUS
    <3>3. /\ o \in Run(intent, recipes, held, dry, machine) /\ recipes \in Seq(Range(recipes))
          /\ {recipes[k].output : k \in DOMAIN recipes} \subseteq paths
      BY <2>1, <2>4, <2>5, <3>1, <3>2
    <3>4. /\ Grows(held, o.files, paths) /\ Ended(o)
          /\ dry => o.end = "ok" /\ o.result = [outputs |-> AsPlanned(recipes)]
      BY <3>3, RunGrows
    <3> QED BY <3>1, <3>2, <3>4
  <2>7. dry => LeafPaths(leaf, told) \subseteq MediaWrites(o.result)
    BY <2>5, <2>6, PlannedWrites
  <2> QED BY <1>8, <2>6, <2>7 DEF LeafTells, leaf
<1>9. CASE leaf.tool = "run_concat"
  <2>1. PICK listed : o \in Run(intent, ConcatRecipe(intent, listed), held, dry, machine)
    BY <1>1, <1>9 DEF Handle, leaf
  <2>2. ConcatRecipe(intent, listed) = <<[inputs |-> listed, output |-> JoinedPath(intent)]>>
    BY DEF ConcatRecipe, JoinedPath
  <2> DEFINE recipes == ConcatRecipe(intent, listed)
  <2>3. recipes \in Seq(Range(recipes)) /\ {recipes[k].output : k \in DOMAIN recipes} = {JoinedPath(intent)}
    BY <2>2 DEF Range
  <2>4. LeafPaths(leaf, told) = {recipes[k].output : k \in DOMAIN recipes}
    BY <1>1, <1>9, <2>3 DEF LeafPaths
  <2> HIDE DEF recipes
  <2>5. /\ Grows(held, o.files, LeafPaths(leaf, told)) /\ Ended(o)
        /\ dry => o.end = "ok" /\ o.result = [outputs |-> AsPlanned(recipes)]
    <3>1. PICK paths : paths = LeafPaths(leaf, told)
      OBVIOUS
    <3>2. PICK r : r = recipes
      OBVIOUS
    <3>3. /\ o \in Run(intent, r, held, dry, machine) /\ r \in Seq(Range(r))
          /\ {r[k].output : k \in DOMAIN r} \subseteq paths
      BY <2>1, <2>3, <2>4, <3>1, <3>2 DEF recipes
    <3>4. /\ Grows(held, o.files, paths) /\ Ended(o)
          /\ dry => o.end = "ok" /\ o.result = [outputs |-> AsPlanned(r)]
      BY <3>3, RunGrows
    <3> QED BY <3>1, <3>2, <3>4
  <2>6. dry => LeafPaths(leaf, told) \subseteq MediaWrites(o.result)
    BY <2>4, <2>5, PlannedWrites
  <2> QED BY <1>9, <2>5, <2>6 DEF LeafTells, leaf
<1> QED BY <1>1, <1>3, <1>4, <1>5, <1>6, <1>7, <1>8, <1>9

---------------------------------------------------------------------------
\* Where a run may stand, and what the leaves before have returned.

Phases == {"preview", "gate", "check", "intent", "leaf", "over"}

AtLeaf ==
    /\ plan \in Plans /\ bi \in 1..(Len(plan) + 1) /\ li \in Nat \ {0}
    /\ bound \in Seq(Range(bound)) /\ Len(bound) = li - 1
    /\ bi \in DOMAIN plan => AtStep(plan[bi], li, bound)
    /\ bi \notin DOMAIN plan => li = 1

Base ==
    /\ AtLeaf /\ phase \in Phases
    /\ IsFiniteSet(DOMAIN files)
    /\ phase = "leaf" => bi \in DOMAIN plan
    /\ phase \in {"gate", "check"} => bi = 1
    /\ phase \in {"gate", "check", "intent"} => li = 1

LEMMA PlanIsSeq ==
    ASSUME NEW p \in Plans
    PROVE  /\ Len(p) \in Nat /\ DOMAIN p = 1..Len(p)
           /\ \A i \in DOMAIN p : WholeInputs(p[i].inputs)
<1>1. p \in Seq(Range(p))
  BY PlansAreWhole
<1>2. \A i \in DOMAIN p : WholeInputs(p[i].inputs)
  BY PlansAreWhole DEF WholeInputs
<1> QED BY <1>1, <1>2

LEMMA FirstStep ==
    ASSUME NEW p \in Plans, NEW i \in DOMAIN p
    PROVE  AtStep(p[i], 1, <<>>)
<1>1. 1 \in DOMAIN MediaLeaves(p[i])
  BY LeavesAre
<1> QED BY <1>1, PlanIsSeq DEF AtStep, WholeTold

LEMMA EmptySeq == <<>> \in Seq(Range(<<>>)) /\ Len(<<>>) = 0
  BY DEF Range

LEMMA AppendIs ==
    ASSUME NEW s, s \in Seq(Range(s)), NEW x
    PROVE  /\ Append(s, x) \in Seq(Range(Append(s, x))) /\ Len(Append(s, x)) = Len(s) + 1
           /\ \A k \in 1..Len(s) : Append(s, x)[k] = s[k]
           /\ Append(s, x)[Len(s) + 1] = x
<1> DEFINE S == Range(s) \cup {x}
           t == Append(s, x)
<1>1. s \in Seq(S)
  <2>1. \A k \in 1..Len(s) : s[k] \in S
    BY DEF Range
  <2> HIDE DEF S
  <2> QED BY <2>1
<1>2. t \in Seq(S) /\ Len(t) = Len(s) + 1 /\ (\A k \in 1..Len(s) : t[k] = s[k]) /\ t[Len(s) + 1] = x
  <2>1. x \in S
    OBVIOUS
  <2> HIDE DEF S
  <2> QED BY <1>1, <2>1
<1>3. t \in Seq(Range(t))
  <2> HIDE DEF S, t
  <2> QED BY <1>2 DEF Range
<1> QED BY <1>2, <1>3

\* A leaf that is not its intent's last gives way to the next, with what it
\* returned; the last one to the next intent.
Moves(intent) ==
    \/ /\ li < Len(MediaLeaves(intent)) /\ bi' = bi /\ li' = li + 1
       /\ \A k \in 1..Len(bound) : bound'[k] = bound[k]
    \/ li = Len(MediaLeaves(intent)) /\ bi' = bi + 1 /\ li' = 1 /\ bound' = <<>>

LEMMA AdvanceMoves ==
    ASSUME AtLeaf, bi \in DOMAIN plan, UNCHANGED plan, NEW o, NEW dry, LeafTells(Leaf, bound, o, dry),
           Advance(o.result)
    PROVE  AtLeaf' /\ Moves(plan[bi]) /\ (bi' = bi => bound' = Append(bound, o.result))
<1> DEFINE intent == plan[bi]
           N == Len(MediaLeaves(intent))
<1>1. /\ Len(plan) \in Nat /\ DOMAIN plan = 1..Len(plan) /\ plan \in Plans
      /\ \A i \in DOMAIN plan : WholeInputs(plan[i].inputs)
  BY PlanIsSeq DEF AtLeaf
<1>2. AtStep(intent, li, bound) /\ bi \in 1..Len(plan) /\ li \in Nat \ {0}
  BY <1>1 DEF AtLeaf
<1>3. N \in Nat \ {0} /\ DOMAIN MediaLeaves(intent) = 1..N /\ li \in 1..N
  BY <1>2, LeavesAre DEF AtStep
<1>4. Block = MediaLeaves(intent) /\ Leaf = MediaLeaves(intent)[li]
  BY DEF Block, Leaf
<1> HIDE DEF intent, N
<1>5. CASE li < N
  <2>1. li' = li + 1 /\ bound' = Append(bound, o.result) /\ bi' = bi
    BY <1>4, <1>5 DEF Advance, N
  <2>2. bound \in Seq(Range(bound)) /\ Len(bound) = li - 1
    BY DEF AtLeaf
  <2>3. /\ bound' \in Seq(Range(bound')) /\ Len(bound') = li /\ (\A k \in 1..Len(bound) : bound'[k] = bound[k])
        /\ bound'[li] = o.result
    BY <1>2, <2>1, <2>2, AppendIs
  <2>4. WholeTold(intent, bound', li')
    <3>1. SUFFICES ASSUME ~AsksPlatform(intent), ~(intent.tool = "concat_video" /\ intent.based)
                   PROVE  /\ li' >= 2 => bound'[1].listed \in Seq(Range(bound'[1].listed))
                          /\ li' >= 3 => bound'[2].probes \in Seq(Range(bound'[2].probes))
                          /\ li' >= 4 => bound'[3].recipes = Recipes(intent, Heard(intent, bound'[2].probes))
      BY DEF WholeTold
    <3>2. /\ li >= 2 => bound[1].listed \in Seq(Range(bound[1].listed))
          /\ li >= 3 => bound[2].probes \in Seq(Range(bound[2].probes))
          /\ li >= 4 => bound[3].recipes = Recipes(intent, Heard(intent, bound[2].probes))
      BY <1>2, <3>1 DEF AtStep, WholeTold
    <3>3. /\ Leaf.intent = intent
          /\ li = 1 => Leaf.tool = "resolve_inputs"
          /\ li = 2 => Leaf.tool = "inspect_media"
          /\ li = 3 => Leaf.tool = "build_recipes"
      <4>1. li \in DOMAIN MediaLeaves(intent)
        BY <1>3
      <4> QED BY <1>4, <1>5, <3>1, <4>1, StepIs DEF Standing, N
    <3>4. CASE li = 1
      BY <2>1, <2>3, <3>3, <3>4 DEF LeafTells
    <3>5. CASE li = 2
      <4>1. bound'[1] = bound[1]
        BY <2>2, <2>3, <3>5
      <4> QED BY <2>1, <2>3, <3>2, <3>3, <3>5, <4>1 DEF LeafTells
    <3>6. CASE li = 3
      <4>1. bound'[1] = bound[1] /\ bound'[2] = bound[2]
        BY <2>2, <2>3, <3>6
      <4> QED BY <2>1, <2>3, <3>2, <3>3, <3>6, <4>1 DEF LeafTells
    <3>7. CASE li >= 4
      <4>1. bound'[1] = bound[1] /\ bound'[2] = bound[2] /\ bound'[3] = bound[3]
        BY <1>2, <2>2, <2>3, <3>7
      <4>2. li >= 2 /\ li >= 3
        BY <1>2, <3>7
      <4>3. /\ bound[1].listed \in Seq(Range(bound[1].listed)) /\ bound[2].probes \in Seq(Range(bound[2].probes))
            /\ bound[3].recipes = Recipes(intent, Heard(intent, bound[2].probes))
        BY <3>2, <3>7, <4>2
      <4> QED BY <4>1, <4>3
    <3> QED BY <1>2, <3>4, <3>5, <3>6, <3>7
  <2>5. li' \in DOMAIN MediaLeaves(intent) /\ li' \in Nat \ {0} /\ Len(bound') = li' - 1
    BY <1>2, <1>3, <1>5, <2>1, <2>3
  <2>6. AtStep(plan'[bi'], li', bound')
    BY <1>2, <2>1, <2>4, <2>5 DEF AtStep, intent
  <2>7. AtLeaf'
    BY <1>1, <1>2, <2>1, <2>3, <2>5, <2>6 DEF AtLeaf
  <2> QED BY <1>5, <2>1, <2>3, <2>7 DEF Moves, N, intent
<1>6. CASE ~(li < N)
  <2>1. li' = 1 /\ bound' = <<>> /\ bi' = bi + 1
    BY <1>4, <1>6 DEF Advance, N
  <2>2. li = N
    BY <1>3, <1>6
  <2>3. bi' \in DOMAIN plan => AtStep(plan[bi'], 1, <<>>)
    BY <1>1, FirstStep
  <2>4. AtLeaf'
    BY <1>1, <1>2, <2>1, <2>3, EmptySeq DEF AtLeaf
  <2>5. bi' # bi
    BY <1>2, <2>1
  <2> QED BY <2>1, <2>2, <2>4, <2>5 DEF Moves, N, intent
<1> QED BY <1>5, <1>6

LEMMA BaseStarts ==
    ASSUME Init
    PROVE  Base
<1>1. /\ plan \in Plans /\ bi = 1 /\ li = 1 /\ bound = <<>> /\ phase = "preview"
      /\ origin \in Folders /\ files = origin
  BY DEF Init
<1>2. Len(plan) \in Nat /\ DOMAIN plan = 1..Len(plan)
  BY <1>1, PlanIsSeq
<1>3. bi \in DOMAIN plan => AtStep(plan[bi], li, bound)
  BY <1>1, FirstStep
<1>4. AtLeaf
  BY <1>1, <1>2, <1>3, EmptySeq DEF AtLeaf
<1>5. IsFiniteSet(DOMAIN files)
  BY <1>1, FoldersAreFinite
<1> QED BY <1>1, <1>4, <1>5 DEF Base, Phases

LEMMA ToGateIs ==
    ASSUME Base, NEW paths, ToGate(paths), UNCHANGED <<plan, files>>
    PROVE  Base'
<1>1. bi' = 1 /\ li' = 1 /\ bound' = <<>> /\ phase' = "gate" /\ plan' = plan /\ files' = files
  BY DEF ToGate
<1>2. Len(plan) \in Nat /\ plan \in Plans
  BY PlanIsSeq DEF Base, AtLeaf
<1>3. 1 \in DOMAIN plan => AtStep(plan[1], 1, <<>>)
  BY <1>2, FirstStep
<1>4. AtLeaf'
  BY <1>1, <1>2, <1>3, EmptySeq DEF AtLeaf
<1> QED BY <1>1, <1>4 DEF Base, Phases

LEMMA OnLeaf ==
    ASSUME Base, ~PastLast
    PROVE  bi \in DOMAIN plan /\ AtStep(plan[bi], li, bound) /\ Leaf = MediaLeaves(plan[bi])[li]
<1>1. Len(plan) \in Nat /\ DOMAIN plan = 1..Len(plan) /\ bi \in 1..(Len(plan) + 1)
  BY PlanIsSeq DEF Base, AtLeaf
<1>2. bi \in DOMAIN plan
  BY <1>1 DEF PastLast
<1> QED BY <1>2 DEF Base, AtLeaf, Leaf, Block

\* A previewed leaf tells what the gate has to ask about, and the preview goes
\* on, or it ends.
LEMMA PreviewMoves ==
    ASSUME Base, PreviewLeaf
    PROVE  /\ Base' /\ UNCHANGED <<request, files, results, agreed, made, errors, exit>>
           /\ bi \in DOMAIN plan /\ AtStep(plan[bi], li, bound) /\ Leaf = MediaLeaves(plan[bi])[li]
           /\ \/ \E paths : ToGate(paths) /\ (Leaf.tool = "clarify" => found \subseteq paths)
              \/ /\ phase' = "preview" /\ Moves(plan[bi]) /\ Leaf.tool # "clarify"
                 /\ found \cup LeafPaths(Leaf, bound) \subseteq found'
<1>1. UNCHANGED <<request, files, results, agreed, made, errors, exit>> /\ phase = "preview" /\ ~PastLast
  BY DEF PreviewLeaf
<1>2. bi \in DOMAIN plan /\ AtStep(plan[bi], li, bound) /\ Leaf = MediaLeaves(plan[bi])[li]
  BY <1>1, OnLeaf
<1>3. IsFiniteSet(DOMAIN files) /\ AtLeaf /\ UNCHANGED plan
  BY <1>1 DEF Base, request
<1>4. PICK o \in MediaDry(Leaf, files, bound, setting) :
        CASE o.end = "raised" -> ToGate(NamedOutputs)
          [] o.end = "ok"     -> /\ found' = found \cup MediaWrites(o.result)
                                 /\ Advance(o.result)
                                 /\ UNCHANGED phase
          [] OTHER            -> ToGate(found \cup MediaWrites(o.result))
  BY DEF PreviewLeaf
<1>5. o \in Handle(MediaLeaves(plan[bi])[li], files, bound, setting, TRUE)
  BY <1>2, <1>4 DEF MediaDry
<1>6. Ended(o) /\ (o.end = "ok" => LeafTells(Leaf, bound, o, TRUE))
  BY <1>2, <1>3, <1>5, LeafIs
<1>7. CASE o.end # "ok"
  <2>1. PICK paths : ToGate(paths) /\ (Leaf.tool = "clarify" => found \subseteq paths)
    <3>1. CASE o.end = "raised"
      BY <1>2, <1>3, <1>4, <1>5, <3>1, LeafIs
    <3>2. CASE o.end = "stops"
      BY <1>4, <3>2
    <3> QED BY <1>6, <1>7, <3>1, <3>2 DEF Ended
  <2>2. Base'
    BY <1>1, <1>3, <2>1, ToGateIs
  <2> QED BY <1>1, <1>2, <2>1, <2>2
<1>8. CASE o.end = "ok"
  <2>1. found' = found \cup MediaWrites(o.result) /\ Advance(o.result) /\ phase' = "preview"
    BY <1>1, <1>4, <1>8
  <2>2. AtLeaf' /\ Moves(plan[bi])
    BY <1>2, <1>3, <1>6, <1>8, <2>1, AdvanceMoves
  <2>3. LeafPaths(Leaf, bound) \subseteq MediaWrites(o.result) /\ Leaf.tool # "clarify"
    BY <1>6, <1>8 DEF LeafTells
  <2>4. Base'
    BY <1>1, <1>3, <2>1, <2>2 DEF Base, Phases
  <2> QED BY <1>1, <1>2, <2>1, <2>2, <2>3, <2>4
<1> QED BY <1>7, <1>8

\* A leaf that runs leaves alone what it does not write, what is new the run has
\* made, and the run goes on, or it ends.
LEMMA RunMoves ==
    ASSUME Base, RunLeaf
    PROVE  /\ Base' /\ UNCHANGED <<request, found, agreed>>
           /\ bi \in DOMAIN plan /\ AtStep(plan[bi], li, bound) /\ Leaf = MediaLeaves(plan[bi])[li]
           /\ Grows(files, files', LeafPaths(Leaf, bound)) /\ made' = made \cup (DOMAIN files' \ DOMAIN files)
           /\ \/ phase' = "over"
              \/ /\ phase' = (IF bi' # bi THEN "intent" ELSE "leaf")
                 /\ Moves(plan[bi]) /\ Leaf.tool # "clarify"
<1>1. UNCHANGED <<request, found, agreed>> /\ phase = "leaf" /\ bi \in DOMAIN plan
  BY DEF RunLeaf, Base
<1>2. bi \in DOMAIN plan /\ AtStep(plan[bi], li, bound) /\ Leaf = MediaLeaves(plan[bi])[li]
  BY <1>1 DEF Base, AtLeaf, Leaf, Block
<1>3. IsFiniteSet(DOMAIN files) /\ AtLeaf /\ UNCHANGED plan
  BY <1>1 DEF Base, request
<1>4. PICK o \in MediaDo(Leaf, files, bound, setting) :
        /\ files' = o.files
        /\ made' = made \cup (DOMAIN o.files \ DOMAIN files)
        /\ IF o.end = "raised"
           THEN End(1) /\ UNCHANGED <<place, results, errors>>
           ELSE IF o.end = "ok"
                THEN Advance(o.result) /\ phase' = (IF bi' # bi THEN "intent" ELSE phase)
                ELSE Finish /\ UNCHANGED place
  BY DEF RunLeaf
<1>5. o \in Handle(MediaLeaves(plan[bi])[li], files, bound, setting, FALSE)
  BY <1>2, <1>4 DEF MediaDo
<1>6. /\ Grows(files, o.files, LeafPaths(Leaf, bound)) /\ Ended(o)
      /\ o.end = "ok" => LeafTells(Leaf, bound, o, FALSE)
  BY <1>2, <1>3, <1>5, LeafIs
<1>7. IsFiniteSet(DOMAIN files') /\ Grows(files, files', LeafPaths(Leaf, bound))
  BY <1>3, <1>4, <1>6 DEF Grows
<1>8. CASE o.end # "ok"
  <2>1. phase' = "over" /\ UNCHANGED <<bi, li, bound>>
    BY <1>4, <1>8 DEF End, Finish, place
  <2>2. AtLeaf'
    BY <1>3, <2>1 DEF AtLeaf
  <2>3. Base'
    BY <1>7, <2>1, <2>2 DEF Base, Phases
  <2> QED BY <1>1, <1>2, <1>4, <1>7, <2>1, <2>3
<1>9. CASE o.end = "ok"
  <2>1. Advance(o.result) /\ phase' = (IF bi' # bi THEN "intent" ELSE "leaf")
    BY <1>1, <1>4, <1>9
  <2>2. AtLeaf' /\ Moves(plan[bi])
    BY <1>2, <1>3, <1>6, <1>9, <2>1, AdvanceMoves
  <2>3. Leaf.tool # "clarify"
    BY <1>6, <1>9 DEF LeafTells
  <2>4. phase' \in Phases /\ (phase' = "leaf" => bi' \in DOMAIN plan') /\ (phase' = "intent" => li' = 1)
        /\ phase' \notin {"gate", "check"}
    BY <1>1, <1>3, <2>1, <2>2 DEF Moves, Phases
  <2>5. Base'
    BY <1>7, <2>2, <2>4 DEF Base
  <2> QED BY <1>1, <1>2, <1>4, <1>7, <2>1, <2>2, <2>3, <2>5
<1> QED BY <1>8, <1>9

\* The console's own steps stand still or start an intent.
Quiet ==
    /\ UNCHANGED <<request, files, place, made, results>>
    /\ \/ phase' = phase
       \/ phase = "gate" /\ phase' = "check"
       \/ phase = "check" /\ phase' = "intent"
       \/ phase = "intent" /\ phase' = "leaf" /\ ~PastLast
       \/ phase' = "over"

LEMMA QuietIs ==
    ASSUME Base, Quiet
    PROVE  Base'
<1>1. UNCHANGED <<plan, files, bi, li, bound>>
  BY DEF Quiet, request, place
<1>2. AtLeaf'
  BY <1>1 DEF Base, AtLeaf
<1>3. phase' = "leaf" => bi \in DOMAIN plan
  BY OnLeaf DEF Quiet, Base
<1>4. phase' \in Phases /\ (phase' \in {"gate", "check"} => bi = 1) /\ (phase' \in {"gate", "check", "intent"} => li = 1)
  BY DEF Quiet, Base, Phases
<1> QED BY <1>1, <1>2, <1>3, <1>4 DEF Base

LEMMA ConsoleIsQuiet ==
    ASSUME \/ \E yes \in BOOLEAN : AskReplace(yes)
           \/ NobodyToAsk \/ GateOpen \/ Check \/ PlanDone
           \/ \E ok \in BOOLEAN : ShowIntent(ok)
    PROVE  Quiet /\ phase \in {"gate", "check", "intent"}
<1>1. CASE \E yes \in BOOLEAN : AskReplace(yes)
  BY <1>1 DEF AskReplace, End, Quiet
<1>2. CASE NobodyToAsk \/ GateOpen
  BY <1>2 DEF NobodyToAsk, GateOpen, End, Quiet
<1>3. CASE Check \/ PlanDone
  BY <1>3 DEF Check, PlanDone, Finish, End, Quiet
<1>4. CASE \E ok \in BOOLEAN : ShowIntent(ok)
  BY <1>4 DEF ShowIntent, Finish, End, Quiet
<1> QED BY <1>1, <1>2, <1>3, <1>4

LEMMA PutIs ==
    ASSUME Base, NEW p, Put(p)
    PROVE  /\ Base' /\ UNCHANGED <<request, phase, place, found, agreed, made, results, errors, exit>>
           /\ DOMAIN files' = DOMAIN files \cup {p} /\ \A q \in DOMAIN files : files'[q] = files[q]
<1>1. UNCHANGED <<request, phase, place, found, agreed, made, results, errors, exit>> /\ p \notin DOMAIN files
      /\ files' = [q \in DOMAIN files \cup {p} |-> IF q = p THEN Newcomers[p] ELSE files[q]]
  BY DEF Put
<1>2. DOMAIN files' = DOMAIN files \cup {p} /\ \A q \in DOMAIN files : files'[q] = files[q]
  BY <1>1
<1>3. IsFiniteSet(DOMAIN files')
  BY <1>2, FS_AddElement DEF Base
<1>4. AtLeaf'
  BY <1>1 DEF Base, AtLeaf, request, place
<1>5. Base'
  BY <1>1, <1>3, <1>4 DEF Base, request, place
<1> QED BY <1>1, <1>2, <1>5

LEMMA BaseHolds ==
    ASSUME Base, [Next]_vars
    PROVE  Base'
<1>1. CASE UNCHANGED vars
  <2>1. UNCHANGED <<plan, files, phase, bi, li, bound>>
    BY <1>1 DEF vars, request, place
  <2> QED BY <2>1 DEF Base, AtLeaf
<1>2. CASE PreviewLeaf
  BY <1>2, PreviewMoves
<1>3. CASE PreviewEnds
  BY <1>3, ToGateIs DEF PreviewEnds, request
<1>4. CASE \/ \E yes \in BOOLEAN : AskReplace(yes)
           \/ NobodyToAsk \/ GateOpen \/ Check \/ PlanDone
           \/ \E ok \in BOOLEAN : ShowIntent(ok)
  BY <1>4, ConsoleIsQuiet, QuietIs
<1>5. CASE RunLeaf
  BY <1>5, RunMoves
<1>6. CASE \E p \in DOMAIN Newcomers : Put(p)
  BY <1>6, PutIs
<1> QED BY <1>1, <1>2, <1>3, <1>4, <1>5, <1>6 DEF Next

---------------------------------------------------------------------------
\* The inductive invariant of the gate: the preview has found every name that
\* its intents may write, what the user was shown is there only if it is to be
\* asked about, agreed to or made, and what a batch inspects in the run leads
\* to the names of the preview.

SeenOf(i, paths) ==
    /\ IsBatch(plan[i]) => /\ noted[i][2].probes \in Seq(Range(noted[i][2].probes))
                           /\ BatchPaths(plan[i], noted[i][2].probes) \subseteq paths
    /\ IsJoin(plan[i]) => JoinedPath(plan[i]) \in paths

AllSeen(paths) ==
    \A i \in DOMAIN plan : (\A m \in 1..i : ~AsksPlatform(plan[m])) => SeenOf(i, paths)

Previewing ==
    /\ bound # <<>> => noted[bi] = bound
    /\ \A i \in 1..(bi - 1) : SeenOf(i, found)
    /\ bi \in DOMAIN plan /\ IsBatch(plan[bi]) /\ HasSample(plan[bi]) /\ li = 5 =>
          SamplePaths(plan[bi], bound[2].probes, bound[3].recipes) \subseteq found

SeenInv ==
    /\ Base /\ DOMAIN noted = DOMAIN plan /\ noted = [i \in DOMAIN noted |-> noted[i]]
    /\ agreed \subseteq DOMAIN files
    /\ phase = "preview" => Previewing
    /\ phase = "gate" => found \subseteq DOMAIN files
    /\ sight /\ phase \in {"gate", "check", "intent", "leaf"} => AllSeen(shown)
    /\ sight /\ phase = "gate" => shown \cap DOMAIN files \subseteq found \cup agreed \cup made
    /\ sight /\ phase \in {"check", "intent", "leaf"} => shown \cap DOMAIN files \subseteq agreed \cup made
    /\ phase \in {"intent", "leaf"} => \A m \in 1..(bi - 1) : ~AsksPlatform(plan[m])
    /\ sight /\ phase = "leaf" /\ li >= 3 /\ IsBatch(plan[bi]) =>
          AllAlike(plan[bi], bound[2].probes, noted[bi][2].probes)

LEMMA SeenStarts ==
    ASSUME SeenInit
    PROVE  SeenInv
<1>1. Init /\ noted = [i \in DOMAIN plan |-> <<>>]
  BY DEF SeenInit
<1>2. phase = "preview" /\ bi = 1 /\ li = 1 /\ bound = <<>> /\ agreed = {}
  BY <1>1 DEF Init
<1>3. DOMAIN noted = DOMAIN plan /\ noted = [i \in DOMAIN noted |-> noted[i]]
  BY <1>1
<1>4. Base
  BY <1>1, BaseStarts
<1>5. Previewing
  BY <1>2 DEF Previewing
<1> QED BY <1>2, <1>3, <1>4, <1>5 DEF SeenInv

\* The last leaf of an intent completes what the preview has to know of it.
LEMMA LastStep ==
    ASSUME NEW intent, NEW l \in DOMAIN MediaLeaves(intent), l = Len(MediaLeaves(intent))
    PROVE  /\ MediaLeaves(intent)[l].intent = intent
           /\ IsJoin(intent) => MediaLeaves(intent)[l].tool = "run_concat"
           /\ IsBatch(intent) => /\ MediaLeaves(intent)[l].tool = "run_batch" /\ l \in {4, 5}
                                 /\ HasSample(intent) => l = 5
<1> DEFINE leaf == MediaLeaves(intent)[l]
           N == Len(MediaLeaves(intent))
<1>1. /\ leaf.intent = intent
      /\ \/ AsksPlatform(intent)
         \/ ~AsksPlatform(intent) /\ intent.tool = "concat_video" /\ intent.based /\ leaf.tool = "run_concat"
         \/ /\ IsJoin(intent) /\ ~intent.based /\ N = 3
            /\ l = 1 \/ l = 2 \/ (l = 3 /\ leaf.tool = "run_concat")
         \/ /\ IsBatch(intent) /\ HasSample(intent) /\ N = 5
            /\ l = 1 \/ l = 2 \/ l = 3 \/ l = 4 \/ (l = 5 /\ leaf.tool = "run_batch")
         \/ /\ IsBatch(intent) /\ ~HasSample(intent) /\ N = 4
            /\ l = 1 \/ l = 2 \/ l = 3 \/ (l = 4 /\ leaf.tool = "run_batch")
  <2> HIDE DEF leaf, N
  <2>1. Standing(intent, l, leaf)
    BY StepIs DEF leaf
  <2> QED BY <2>1 DEF Standing, N
<1> HIDE DEF leaf, N
<1>2. l = N
  BY DEF N
<1>3. CASE IsJoin(intent)
  BY <1>1, <1>2, <1>3 DEF IsJoin, IsBatch, leaf
<1>4. CASE IsBatch(intent)
  BY <1>1, <1>2, <1>4 DEF IsJoin, IsBatch, leaf
<1> QED BY <1>1, <1>3, <1>4 DEF leaf

LEMMA LastCompletes ==
    ASSUME Base, Previewing, bi \in DOMAIN plan, AtStep(plan[bi], li, bound),
           Leaf = MediaLeaves(plan[bi])[li], li = Len(MediaLeaves(plan[bi])),
           NEW paths, found \cup LeafPaths(Leaf, bound) \subseteq paths
    PROVE  SeenOf(bi, paths)
<1> DEFINE intent == plan[bi]
<1>1. li \in DOMAIN MediaLeaves(intent) /\ WholeTold(intent, bound, li)
  BY DEF AtStep
<1>2. ASSUME IsJoin(intent) PROVE JoinedPath(intent) \in paths
  <2>1. Leaf.tool = "run_concat" /\ Leaf.intent = intent
    BY <1>1, <1>2, LastStep
  <2> QED BY <2>1 DEF LeafPaths
<1>3. ASSUME IsBatch(intent)
      PROVE  /\ noted[bi][2].probes \in Seq(Range(noted[bi][2].probes))
             /\ BatchPaths(intent, noted[bi][2].probes) \subseteq paths
  <2>1. ~AsksPlatform(intent) /\ ~(intent.tool = "concat_video" /\ intent.based)
    BY <1>3 DEF IsBatch
  <2>2. /\ Leaf.tool = "run_batch" /\ li \in {4, 5} /\ (HasSample(intent) => li = 5)
    BY <1>1, <1>3, LastStep
  <2>3. li >= 3 /\ li >= 4 /\ Len(bound) # 0
    BY <2>2 DEF Base, AtLeaf
  <2>4. PICK probes : probes = bound[2].probes
    OBVIOUS
  <2>5. probes \in Seq(Range(probes)) /\ bound[3].recipes = Recipes(intent, Heard(intent, probes))
    BY <1>1, <2>1, <2>3, <2>4 DEF WholeTold
  <2>6. noted[bi] = bound
    <3>1. bound # <<>>
      BY <2>3, EmptySeq
    <3> QED BY <3>1 DEF Previewing
  <2>7. {bound[3].recipes[k].output : k \in DOMAIN bound[3].recipes} \subseteq paths
    BY <2>2 DEF LeafPaths
  <2>8. HasSample(intent) => SamplePaths(intent, probes, bound[3].recipes) \subseteq paths
    BY <1>3, <2>2, <2>4 DEF Previewing
  <2>9. BatchPaths(intent, probes) \subseteq paths
    <3>1. PICK recipes : recipes = Recipes(intent, Heard(intent, probes))
      OBVIOUS
    <3>2. BatchPaths(intent, probes) = {recipes[k].output : k \in DOMAIN recipes} \cup
            (IF HasSample(intent) /\ recipes # <<>> THEN {SampleName(intent, recipes[1], probes[1])} ELSE {})
      BY <3>1 DEF BatchPaths
    <3> QED BY <2>5, <2>7, <2>8, <3>1, <3>2 DEF SamplePaths
  <2> QED BY <2>4, <2>5, <2>6, <2>9
<1> QED BY <1>2, <1>3 DEF SeenOf

\* To the gate, unless the preview was cut short, with every name of the plan.
LEMMA ToGateSeen ==
    ASSUME SeenInv, phase = "preview", Base', Remember, NEW paths, ToGate(paths),
           UNCHANGED <<request, files, agreed, made>>,
           sight' => found \subseteq paths /\ AllSeen(found)
    PROVE  SeenInv'
<1>1. bound' = <<>> /\ phase' = "gate" /\ found' = paths \cap DOMAIN files /\ UNCHANGED plan
  BY DEF ToGate, request
<1>2. noted' = noted /\ shown' = found
  BY <1>1 DEF Remember
<1>3. sight' => AllSeen(shown)'
  BY <1>1, <1>2 DEF AllSeen, SeenOf
<1>4. sight' => shown' \cap DOMAIN files' \subseteq found'
  BY <1>1, <1>2
<1> QED BY <1>1, <1>2, <1>3, <1>4 DEF SeenInv

LEMMA PreviewSeen ==
    ASSUME SeenInv, PreviewLeaf, Remember
    PROVE  SeenInv' /\ UNCHANGED <<files, made, agreed>>
<1>1. /\ Base' /\ UNCHANGED <<request, files, results, agreed, made, errors, exit>>
      /\ bi \in DOMAIN plan /\ AtStep(plan[bi], li, bound) /\ Leaf = MediaLeaves(plan[bi])[li]
  BY PreviewMoves DEF SeenInv
<1>2. phase = "preview" /\ ~PastLast /\ Base /\ Previewing /\ UNCHANGED plan
  BY <1>1 DEF PreviewLeaf, SeenInv, request
<1>3. Len(plan) \in Nat /\ DOMAIN plan = 1..Len(plan) /\ bi \in 1..Len(plan)
  BY <1>1, <1>2, PlanIsSeq DEF Base, AtLeaf
<1>4. li \in DOMAIN MediaLeaves(plan[bi])
  BY <1>1 DEF AtStep
<1>5. ASSUME NEW paths, ToGate(paths), Leaf.tool = "clarify" => found \subseteq paths
      PROVE  SeenInv'
  <2>1. ASSUME sight' PROVE found \subseteq paths /\ AllSeen(found)
    <3>1. Leaf.tool = "clarify"
      BY <1>2, <1>5, <2>1 DEF Remember, CutShort, ToGate
    <3>2. AsksPlatform(plan[bi])
      BY <1>1, <1>4, <3>1, StepIs DEF Standing
    <3>3. ASSUME NEW i \in DOMAIN plan, \A m \in 1..i : ~AsksPlatform(plan[m]) PROVE SeenOf(i, found)
      <4>1. i \in 1..(bi - 1)
        BY <1>3, <3>2, <3>3
      <4> QED BY <1>2, <4>1 DEF Previewing
    <3> QED BY <1>5, <3>1, <3>3 DEF AllSeen
  <2> QED BY <1>1, <1>2, <1>5, <2>1, ToGateSeen
<1>6. ASSUME phase' = "preview", Moves(plan[bi]), found \cup LeafPaths(Leaf, bound) \subseteq found'
      PROVE  SeenInv'
  <2>1. /\ DOMAIN noted' = DOMAIN plan' /\ \A i \in DOMAIN plan : i # bi => noted'[i] = noted[i]
        /\ noted' = [i \in DOMAIN noted' |-> noted'[i]]
    BY <1>2 DEF Remember, SeenInv
  <2>2. bound' # <<>> => bi' = bi /\ noted'[bi'] = bound'
    BY <1>1, <1>2, <1>6 DEF Moves, Remember, SeenInv
  <2>3. \A i \in 1..(bi - 1) : SeenOf(i, found)'
    <3>1. ASSUME NEW i \in 1..(bi - 1) PROVE SeenOf(i, found)'
      <4>1. i \in DOMAIN plan /\ i # bi
        BY <1>3
      <4>2. SeenOf(i, found)
        BY <1>2 DEF Previewing
      <4>3. noted'[i] = noted[i] /\ plan' = plan /\ found \subseteq found'
        BY <1>2, <1>6, <2>1, <4>1
      <4> QED BY <4>2, <4>3 DEF SeenOf
    <3> QED BY <3>1
  <2> PICK b : b = bi
    OBVIOUS
  <2>4. ASSUME bi' # bi PROVE SeenOf(b, found)' /\ bi' = bi + 1 /\ li' = 1
    <3>1. li = Len(MediaLeaves(plan[bi])) /\ bi' = bi + 1 /\ li' = 1 /\ bound' = <<>>
      BY <1>6, <2>4 DEF Moves
    <3>2. noted' = noted
      BY <3>1 DEF Remember
    <3>3. SeenOf(bi, found')
      BY <1>1, <1>2, <1>6, <3>1, LastCompletes
    <3>4. SeenOf(b, found')
      BY <3>3
    <3> QED BY <1>2, <3>1, <3>2, <3>4 DEF SeenOf
  <2>5. \A i \in 1..(bi' - 1) : SeenOf(i, found)'
    <3>1. CASE bi' = bi
      BY <2>3, <3>1
    <3>2. CASE bi' # bi
      <4>1. \A i \in 1..(bi' - 1) : i = b \/ i \in 1..(bi - 1)
        BY <1>3, <2>4, <3>2
      <4>2. SeenOf(b, found)'
        BY <2>4, <3>2
      <4> QED BY <2>3, <4>1, <4>2
    <3> QED BY <3>1, <3>2
  <2>6. ASSUME bi' \in DOMAIN plan, IsBatch(plan[bi']), HasSample(plan[bi']), li' = 5
        PROVE  SamplePaths(plan[bi'], bound'[2].probes, bound'[3].recipes) \subseteq found'
    <3>1. bi' = bi /\ li = 4 /\ \A k \in 1..Len(bound) : bound'[k] = bound[k]
      <4>1. li \in Nat
        BY <1>2 DEF Base, AtLeaf
      <4> QED BY <1>3, <1>6, <2>6, <4>1 DEF Moves
    <3>2. bound'[2] = bound[2] /\ bound'[3] = bound[3]
      BY <1>2, <3>1 DEF Base, AtLeaf
    <3>3. Leaf.tool = "run_preview" /\ Leaf.intent = plan[bi]
      BY <1>1, <1>4, <2>6, <3>1, StepIs DEF Standing, IsJoin, IsBatch
    <3>4. LeafPaths(Leaf, bound) = SamplePaths(plan[bi], bound[2].probes, bound[3].recipes)
      BY <3>3 DEF LeafPaths
    <3> QED BY <1>6, <3>1, <3>2, <3>4
  <2>7. Previewing'
    BY <1>2, <2>2, <2>5, <2>6 DEF Previewing
  <2> QED BY <1>1, <1>2, <1>6, <2>1, <2>7 DEF SeenInv
<1> QED BY <1>1, <1>5, <1>6, PreviewMoves DEF SeenInv

LEMMA PreviewEndSeen ==
    ASSUME SeenInv, PreviewEnds, Remember
    PROVE  SeenInv' /\ UNCHANGED <<files, made, agreed>>
<1>1. phase = "preview" /\ PastLast /\ ToGate(found) /\ UNCHANGED <<request, files, agreed, made>> /\ UNCHANGED plan
  BY DEF PreviewEnds, request
<1>2. Base /\ Previewing /\ Base'
  BY <1>1, ToGateIs DEF SeenInv
<1>3. Len(plan) \in Nat /\ DOMAIN plan = 1..Len(plan) /\ bi \in 1..(Len(plan) + 1)
  BY <1>2, PlanIsSeq DEF Base, AtLeaf
<1>4. \A i \in DOMAIN plan : i \in 1..(bi - 1)
  BY <1>1, <1>3 DEF PastLast
<1>5. AllSeen(found)
  BY <1>2, <1>4 DEF AllSeen, Previewing
<1> QED BY <1>1, <1>2, <1>5, ToGateSeen

LEMMA AfterPreview ==
    ASSUME phase # "preview", Remember
    PROVE  noted' = noted /\ shown' = shown /\ (sight' => sight)
  BY DEF Remember

LEMMA AskSeen ==
    ASSUME SeenInv, NEW yes \in BOOLEAN, AskReplace(yes), Remember
    PROVE  SeenInv' /\ Kept!Agree
<1>1. phase = "gate" /\ UNCHANGED <<request, files, place, made>>
  BY DEF AskReplace
<1>2. noted' = noted /\ shown' = shown /\ (sight' => sight)
  BY <1>1, AfterPreview
<1>3. Base' /\ UNCHANGED <<plan, bi, li, bound>>
  <2>1. Quiet
    BY ConsoleIsQuiet
  <2> QED BY <2>1, <1>1, QuietIs DEF SeenInv, request, place
<1>4. agreed \subseteq DOMAIN files /\ found \subseteq DOMAIN files /\ DOMAIN noted = DOMAIN plan
      /\ noted = [i \in DOMAIN noted |-> noted[i]]
  BY <1>1 DEF SeenInv
<1>5. PICK p \in found :
        IF yes
        THEN agreed' = agreed \cup {p} /\ found' = found \ {p} /\ UNCHANGED <<phase, exit>>
        ELSE End(0) /\ UNCHANGED <<agreed, found>>
  BY DEF AskReplace
<1>6. sight' => AllSeen(shown)'
  BY <1>1, <1>2, <1>3 DEF SeenInv, AllSeen, SeenOf
<1>7. CASE yes
  <2>1. phase' = "gate" /\ agreed' = agreed \cup {p} /\ found' = found \ {p}
    BY <1>1, <1>5, <1>7
  <2>2. sight' => shown' \cap DOMAIN files' \subseteq found' \cup agreed' \cup made'
    BY <1>1, <1>2, <2>1 DEF SeenInv
  <2>3. SeenInv'
    BY <1>1, <1>2, <1>3, <1>4, <1>6, <2>1, <2>2 DEF SeenInv
  <2> QED BY <1>1, <1>4, <2>1, <2>3 DEF Kept!Agree
<1>8. CASE ~yes
  <2>1. phase' = "over" /\ agreed' = agreed
    BY <1>5, <1>8 DEF End
  <2>2. SeenInv'
    BY <1>1, <1>2, <1>3, <1>4, <2>1 DEF SeenInv
  <2> QED BY <1>1, <1>4, <2>1, <2>2 DEF Kept!Agree
<1> QED BY <1>7, <1>8

LEMMA ConsoleSeen ==
    ASSUME SeenInv, NobodyToAsk \/ GateOpen \/ Check \/ PlanDone \/ \E ok \in BOOLEAN : ShowIntent(ok), Remember
    PROVE  SeenInv' /\ UNCHANGED <<files, made, agreed>>
<1>1. Quiet /\ phase \in {"gate", "check", "intent"}
  BY ConsoleIsQuiet
<1>2. noted' = noted /\ shown' = shown /\ (sight' => sight)
  BY <1>1, AfterPreview
<1>3. Base /\ Base' /\ UNCHANGED <<plan, files, bi, li, bound, made>>
  BY <1>1, QuietIs DEF SeenInv, Quiet, request, place
<1>4. UNCHANGED <<found, agreed>> /\ (phase = "gate" /\ phase' = "check" => found = {})
      /\ phase' \in {"check", "intent", "leaf", "over"} /\ (phase' = "check" => phase = "gate")
      /\ (phase' = "intent" => phase = "check") /\ (phase' = "leaf" => phase = "intent")
  <2>1. CASE NobodyToAsk \/ GateOpen
    BY <2>1 DEF NobodyToAsk, GateOpen, End
  <2>2. CASE Check \/ PlanDone
    BY <2>2 DEF Check, PlanDone, Finish, End
  <2>3. CASE \E ok \in BOOLEAN : ShowIntent(ok)
    BY <2>3 DEF ShowIntent, Finish, End
  <2> QED BY <2>1, <2>2, <2>3
<1>5. sight' => AllSeen(shown)'
  BY <1>1, <1>2, <1>3 DEF SeenInv, AllSeen, SeenOf
<1>6. sight' /\ phase' # "over" => shown' \cap DOMAIN files' \subseteq agreed' \cup made'
  BY <1>1, <1>2, <1>3, <1>4 DEF SeenInv
<1>7. phase' \in {"intent", "leaf"} => \A m \in 1..(bi' - 1) : ~AsksPlatform(plan'[m])
  <2>1. CASE phase = "intent"
    BY <1>3, <2>1 DEF SeenInv
  <2>2. CASE phase # "intent"
    <3>1. phase' \in {"intent", "leaf"} => bi = 1
      BY <1>3, <1>4, <2>2 DEF Base
    <3> QED BY <1>3, <3>1
  <2> QED BY <2>1, <2>2
<1>8. phase' = "leaf" => ~(li' >= 3)
  BY <1>3, <1>4 DEF Base
<1> QED BY <1>2, <1>3, <1>4, <1>5, <1>6, <1>7, <1>8 DEF SeenInv

LEMMA PutSeen ==
    ASSUME SeenInv, NEW p, Put(p), Remember
    PROVE  SeenInv' /\ Kept!Work
<1>1. /\ Base' /\ UNCHANGED <<request, phase, place, found, agreed, made>>
      /\ DOMAIN files' = DOMAIN files \cup {p} /\ \A q \in DOMAIN files : files'[q] = files[q]
  BY PutIs DEF SeenInv
<1>2. UNCHANGED <<plan, bi, li, bound, phase, found, agreed, made>>
  BY <1>1 DEF request, place
<1>3. Kept!Work
  BY <1>1, <1>2 DEF Kept!Work, Kept!NoneDeleted, Kept!OthersKept
<1>4. p \notin DOMAIN files
  BY DEF Put
<1>5. CASE phase = "preview"
  <2>1. bound # <<>> => bi \in DOMAIN noted /\ noted[bi] = bound
    <3>1. bi \notin DOMAIN plan => bound = <<>>
      <4>1. bi \notin DOMAIN plan => Len(bound) = 0 /\ bound \in Seq(Range(bound))
        BY DEF SeenInv, Base, AtLeaf
      <4> QED BY <4>1
    <3> QED BY <1>5, <3>1 DEF SeenInv, Previewing
  <2>2. noted' = noted
    <3>1. CASE bound # <<>>
      <4>1. noted' = [noted EXCEPT ![bi] = bound]
        BY <1>2, <1>5, <3>1 DEF Remember
      <4> QED BY <2>1, <3>1, <4>1 DEF SeenInv
    <3>2. CASE bound = <<>>
      BY <1>2, <3>2 DEF Remember
    <3> QED BY <3>1, <3>2
  <2>3. Previewing'
    BY <1>2, <1>5, <2>2 DEF SeenInv, Previewing, SeenOf
  <2> QED BY <1>1, <1>2, <1>3, <1>5, <2>2, <2>3 DEF SeenInv
<1>6. CASE phase # "preview"
  <2>1. noted' = noted /\ shown' = shown /\ (sight' => sight)
    BY <1>6, AfterPreview
  <2>2. sight' => p \notin shown \/ p \in made
    BY <1>1, <1>2, <1>4, <1>6 DEF Remember, Taken
  <2>3. AllSeen(shown) => AllSeen(shown)'
    BY <1>2, <2>1 DEF AllSeen, SeenOf
  <2>4. sight' /\ phase = "gate" => shown' \cap DOMAIN files' \subseteq found' \cup agreed' \cup made'
    BY <1>1, <1>2, <2>1, <2>2 DEF SeenInv
  <2>5. sight' /\ phase \in {"check", "intent", "leaf"} => shown' \cap DOMAIN files' \subseteq agreed' \cup made'
    BY <1>1, <1>2, <2>1, <2>2 DEF SeenInv
  <2>6. agreed' \subseteq DOMAIN files' /\ (phase' = "gate" => found' \subseteq DOMAIN files')
    BY <1>1, <1>2 DEF SeenInv
  <2>7. SeenInv'
    BY <1>1, <1>2, <1>6, <2>1, <2>3, <2>4, <2>5, <2>6 DEF SeenInv
  <2> QED BY <1>3, <2>7
<1> QED BY <1>5, <1>6

\* What a leaf of the run writes, the preview had shown.
LEMMA WritesShown ==
    ASSUME SeenInv, sight, phase = "leaf"
    PROVE  LeafPaths(Leaf, bound) \subseteq shown
<1> DEFINE intent == plan[bi]
<1>1. Base /\ AllSeen(shown) /\ bi \in DOMAIN plan /\ (\A m \in 1..(bi - 1) : ~AsksPlatform(plan[m]))
  BY DEF SeenInv, Base
<1>2. AtStep(intent, li, bound) /\ Leaf = MediaLeaves(intent)[li] /\ li \in Nat
  BY <1>1 DEF Base, AtLeaf, Leaf, Block
<1>3. li \in DOMAIN MediaLeaves(intent) /\ WholeTold(intent, bound, li)
  BY <1>2 DEF AtStep
<1>4. Standing(intent, li, Leaf)
  BY <1>2, <1>3, StepIs
<1>5. Len(plan) \in Nat /\ DOMAIN plan = 1..Len(plan) /\ bi \in 1..Len(plan)
  BY <1>1, PlanIsSeq DEF Base, AtLeaf
<1>6. ~AsksPlatform(intent) => SeenOf(bi, shown)
  <2>1. ASSUME ~AsksPlatform(intent) PROVE \A m \in 1..bi : ~AsksPlatform(plan[m])
    <3>1. \A m \in 1..bi : m = bi \/ m \in 1..(bi - 1)
      BY <1>5
    <3> QED BY <1>1, <2>1, <3>1
  <2> QED BY <1>1, <2>1 DEF AllSeen
<1>7. sight /\ phase = "leaf" /\ li >= 3 /\ IsBatch(intent) =>
        AllAlike(intent, bound[2].probes, noted[bi][2].probes)
  BY DEF SeenInv
<1> HIDE DEF intent
<1>8. CASE Leaf.tool = "run_concat"
  <2>1. IsJoin(intent) /\ Leaf.intent = intent
    BY <1>4, <1>8 DEF Standing, IsJoin
  <2>2. LeafPaths(Leaf, bound) = {JoinedPath(intent)}
    BY <1>8, <2>1 DEF LeafPaths
  <2> QED BY <1>6, <2>1, <2>2 DEF SeenOf, IsJoin, intent
<1>9. CASE Leaf.tool \in {"run_preview", "run_batch"}
  <2>1. IsBatch(intent) /\ Leaf.intent = intent /\ li \in {4, 5} /\ (Leaf.tool = "run_preview" => HasSample(intent))
    BY <1>4, <1>9 DEF Standing
  <2>2. li >= 3 /\ li >= 4 /\ ~AsksPlatform(intent) /\ ~(intent.tool = "concat_video" /\ intent.based)
    BY <2>1 DEF IsBatch
  <2>3. PICK probes, supposed : probes = bound[2].probes /\ supposed = noted[bi][2].probes
    OBVIOUS
  <2>4. AllAlike(intent, probes, supposed)
    BY <1>7, <2>1, <2>2, <2>3
  <2>5. BatchPaths(intent, probes) = BatchPaths(intent, supposed)
    BY <2>4, AlikePaths
  <2>6. BatchPaths(intent, supposed) \subseteq shown
    BY <1>6, <2>1, <2>2, <2>3 DEF SeenOf, intent
  <2>7. PICK recipes : recipes = Recipes(intent, Heard(intent, probes))
    OBVIOUS
  <2>8. bound[3].recipes = recipes
    BY <1>3, <2>2, <2>3, <2>7 DEF WholeTold
  <2>9. BatchPaths(intent, probes) = {recipes[k].output : k \in DOMAIN recipes} \cup
          (IF HasSample(intent) /\ recipes # <<>> THEN {SampleName(intent, recipes[1], probes[1])} ELSE {})
    BY <2>7 DEF BatchPaths
  <2>10. LeafPaths(Leaf, bound) = IF Leaf.tool = "run_preview" THEN SamplePaths(intent, probes, recipes)
                                  ELSE {recipes[k].output : k \in DOMAIN recipes}
    BY <1>9, <2>1, <2>3, <2>8 DEF LeafPaths
  <2>11. CASE Leaf.tool = "run_preview"
    BY <2>1, <2>5, <2>6, <2>9, <2>10, <2>11 DEF SamplePaths
  <2>12. CASE Leaf.tool # "run_preview"
    BY <2>5, <2>6, <2>9, <2>10, <2>12
  <2> QED BY <2>11, <2>12
<1>10. CASE Leaf.tool \notin {"run_concat", "run_preview", "run_batch"}
  BY <1>10 DEF LeafPaths
<1> QED BY <1>8, <1>9, <1>10

\* Once the run has inspected a batch as supposed, it goes on alike.
LEMMA GoesAlike ==
    ASSUME SeenInv, phase = "leaf", Remember, sight', Base', Moves(plan[bi]), bi' = bi, UNCHANGED plan,
           bi \in DOMAIN plan, li' >= 3, IsBatch(plan[bi])
    PROVE  AllAlike(plan[bi], bound'[2].probes, noted[bi][2].probes)
<1> DEFINE intent == plan[bi]
<1>1. Base /\ sight /\ ~Surprise
  BY DEF SeenInv, Remember
<1>2. li \in Nat /\ Len(bound) = li - 1 /\ Len(bound') = li' - 1 /\ li' \in Nat
  BY <1>1 DEF Base, AtLeaf
<1>3. bi \in Nat
  BY <1>1 DEF Base, AtLeaf
<1>4. li' = li + 1 /\ \A k \in 1..Len(bound) : bound'[k] = bound[k]
  BY <1>3 DEF Moves
<1>5. CASE li = 2
  <2>1. PICK probes, supposed : probes = bound'[2].probes /\ supposed = noted[bi][2].probes
    OBVIOUS
  <2>2. AsSupposed(bi, bound'[2].probes)
    BY <1>1, <1>2, <1>4, <1>5 DEF Surprise
  <2>3. Len(probes) = Len(supposed) /\ \A k \in DOMAIN probes : ProbedAlike(intent, probes[k], supposed[k])
    BY <2>1, <2>2 DEF AsSupposed, IsBatch
  <2>4. supposed \in Seq(Range(supposed))
    <3>1. AllSeen(shown) /\ (\A m \in 1..(bi - 1) : ~AsksPlatform(plan[m]))
      BY <1>1 DEF SeenInv
    <3>2. \A m \in 1..bi : m = bi \/ m \in 1..(bi - 1)
      BY <1>3
    <3>3. \A m \in 1..bi : ~AsksPlatform(plan[m])
      BY <3>1, <3>2 DEF IsBatch
    <3>4. SeenOf(bi, shown)
      BY <3>1, <3>3 DEF AllSeen
    <3> QED BY <2>1, <3>4 DEF SeenOf
  <2>5. probes \in Seq(Range(probes))
    <3>1. WholeTold(intent, bound', li')
      <4>1. AtStep(plan'[bi'], li', bound')
        BY DEF Base, AtLeaf
      <4> QED BY <4>1 DEF AtStep
    <3> QED BY <2>1, <3>1 DEF WholeTold, IsBatch
  <2> QED BY <2>1, <2>3, <2>4, <2>5 DEF AllAlike
<1>6. CASE li >= 3
  <2>1. bound'[2] = bound[2]
    BY <1>2, <1>4, <1>6
  <2> QED BY <1>1, <1>6, <2>1 DEF SeenInv
<1> QED BY <1>2, <1>4, <1>5, <1>6

LEMMA RunSeen ==
    ASSUME SeenInv, RunLeaf, Remember
    PROVE  SeenInv' /\ (sight' => Kept!Work)
<1>1. /\ Base' /\ UNCHANGED <<request, found, agreed>>
      /\ bi \in DOMAIN plan /\ AtStep(plan[bi], li, bound) /\ Leaf = MediaLeaves(plan[bi])[li]
      /\ Grows(files, files', LeafPaths(Leaf, bound)) /\ made' = made \cup (DOMAIN files' \ DOMAIN files)
      /\ \/ phase' = "over"
         \/ /\ phase' = (IF bi' # bi THEN "intent" ELSE "leaf")
            /\ Moves(plan[bi]) /\ Leaf.tool # "clarify"
  BY RunMoves DEF SeenInv
<1>2. phase = "leaf" /\ UNCHANGED plan
  BY <1>1 DEF RunLeaf, request
<1>3. noted' = noted /\ shown' = shown /\ (sight' => sight)
  BY <1>2, AfterPreview
<1>4. KeepsBut(files, files', LeafPaths(Leaf, bound))
  BY <1>1 DEF Grows
<1>5. /\ agreed \subseteq DOMAIN files /\ DOMAIN noted = DOMAIN plan /\ noted = [i \in DOMAIN noted |-> noted[i]]
      /\ sight => AllSeen(shown) /\ shown \cap DOMAIN files \subseteq agreed \cup made
      /\ \A m \in 1..(bi - 1) : ~AsksPlatform(plan[m])
  BY <1>2 DEF SeenInv
<1>6. sight => LeafPaths(Leaf, bound) \cap DOMAIN files \subseteq agreed \cup made
  BY <1>2, <1>5, WritesShown
<1>7. sight' => Kept!Work
  BY <1>1, <1>3, <1>4, <1>6 DEF KeepsBut, Kept!Work, Kept!NoneDeleted, Kept!OthersKept
<1>8. agreed' \subseteq DOMAIN files'
  BY <1>1, <1>4, <1>5 DEF KeepsBut
<1>9. sight' => AllSeen(shown)' /\ shown' \cap DOMAIN files' \subseteq agreed' \cup made'
  BY <1>1, <1>2, <1>3, <1>4, <1>5 DEF AllSeen, SeenOf, KeepsBut
<1> DEFINE Noted == DOMAIN noted = DOMAIN plan /\ noted = [i \in DOMAIN noted |-> noted[i]]
<1>12. Noted'
  BY <1>2, <1>3, <1>5
<1>10. CASE phase' = "over"
  <2>1. Base'
    BY <1>1
  <2> QED BY <1>7, <1>8, <1>10, <1>12, <2>1 DEF SeenInv
<1>11. CASE phase' = (IF bi' # bi THEN "intent" ELSE "leaf") /\ Moves(plan[bi]) /\ Leaf.tool # "clarify"
  <2>1. phase' \in {"intent", "leaf"}
    BY <1>11
  <2>2. bi \in Nat /\ (bi' = bi \/ bi' = bi + 1)
    BY <1>11 DEF SeenInv, Base, AtLeaf, Moves
  <2>3. ~AsksPlatform(plan[bi])
    <3>1. li \in DOMAIN MediaLeaves(plan[bi])
      BY <1>1 DEF AtStep
    <3>2. Standing(plan[bi], li, Leaf)
      BY <1>1, <3>1, StepIs
    <3> QED BY <1>11, <3>2 DEF Standing, IsJoin, IsBatch
  <2>4. \A m \in 1..(bi' - 1) : ~AsksPlatform(plan'[m])
    <3>1. \A m \in 1..(bi' - 1) : m = bi \/ m \in 1..(bi - 1)
      BY <2>2
    <3> QED BY <1>2, <1>5, <2>3, <3>1
  <2>5. ASSUME sight', phase' = "leaf", li' >= 3, IsBatch(plan'[bi'])
        PROVE  AllAlike(plan'[bi'], bound'[2].probes, noted'[bi'][2].probes)
    <3>1. bi' = bi
      BY <1>11, <2>5
    <3>2. AllAlike(plan[bi], bound'[2].probes, noted[bi][2].probes)
      BY <1>1, <1>2, <1>11, <2>5, <3>1, GoesAlike
    <3> QED BY <1>2, <1>3, <3>1, <3>2
  <2>6. Base'
    BY <1>1
  <2> QED BY <1>7, <1>8, <1>9, <1>12, <2>1, <2>4, <2>5, <2>6 DEF SeenInv
<1> QED BY <1>1, <1>7, <1>10, <1>11

LEMMA SeenSteps ==
    ASSUME SeenInv, [SeenNext]_seenVars
    PROVE  SeenInv' /\ [~sight' \/ Kept!Agree \/ Kept!Work]_(Kept!keptVars)
<1>1. CASE UNCHANGED seenVars
  <2>1. UNCHANGED <<plan, files, phase, bi, li, bound, found, agreed, made, noted, shown, sight>>
    BY <1>1 DEF seenVars, vars, request, place
  <2>2. Base'
    BY <2>1 DEF SeenInv, Base, AtLeaf
  <2>3. SeenInv'
    BY <2>1, <2>2 DEF SeenInv, Previewing, AllSeen, SeenOf
  <2> QED BY <2>1, <2>3 DEF Kept!keptVars
<1>2. CASE Remember /\ (PreviewLeaf \/ PreviewEnds)
  BY <1>2, PreviewSeen, PreviewEndSeen DEF Kept!keptVars
<1>3. CASE Remember /\ \E yes \in BOOLEAN : AskReplace(yes)
  BY <1>3, AskSeen
<1>4. CASE Remember /\ (NobodyToAsk \/ GateOpen \/ Check \/ PlanDone \/ \E ok \in BOOLEAN : ShowIntent(ok))
  BY <1>4, ConsoleSeen DEF Kept!keptVars
<1>5. CASE Remember /\ RunLeaf
  BY <1>5, RunSeen
<1>6. CASE Remember /\ \E p \in DOMAIN Newcomers : Put(p)
  BY <1>6, PutSeen
<1> QED BY <1>1, <1>2, <1>3, <1>4, <1>5, <1>6 DEF SeenNext, Next

\* Whatever the plan, the folder, the machine and the newcomers: as long as the
\* preview ran to its end, the run reads of every batch what the preview read
\* or supposed, and nobody else takes a name it had shown, no file is deleted
\* and a file that was there is replaced only after the user said yes to it
\* (app.py:283-309, 614-621; _engine.py:756-800).
THEOREM MediaKeepsFolder == SeenSpec => FolderIsKeptWhenSeen
<1>1. SeenInit => SeenInv
  BY SeenStarts
<1>2. SeenInv /\ [SeenNext]_seenVars => SeenInv' /\ [~sight' \/ Kept!Agree \/ Kept!Work]_(Kept!keptVars)
  BY SeenSteps
<1> QED BY <1>1, <1>2, PTL DEF SeenSpec, FolderIsKeptWhenSeen

---------------------------------------------------------------------------
\* What commands that all worked leave behind.

LEMMA MakesMedia ==
    ASSUME NEW intent, NEW recipe, NEW held
    PROVE  Makes(intent, recipe, held).kind \in {"empty", "media"}
<1>1. \A picture, sound : Media(picture, sound).kind \in {"empty", "media"}
  BY DEF Media
<1>2. \A clips : Joined(clips).kind \in {"empty", "media"}
  BY <1>1 DEF Joined
<1>3. \A file, window : CutOut(file, window).kind \in {"empty", "media"}
  BY <1>1 DEF CutOut
<1>4. \A file : Edited(intent, file).kind \in {"empty", "media"}
  BY <1>1, <1>3 DEF Edited
<1> QED BY <1>2, <1>4 DEF Makes

Plays(held, p) == p \in DOMAIN held /\ held[p].kind = "media"

\* How things may stand after k commands.
RightAfter(state, recipes, held, k) ==
    /\ DOMAIN held \subseteq DOMAIN state.files
    /\ state.outputs \in Seq(Range(state.outputs))
    /\ ~state.raised /\ ~Failed(state.outputs) =>
          /\ Len(state.outputs) = k
          /\ \A m \in 1..k : /\ state.outputs[m].ok /\ state.outputs[m].inputs = recipes[m].inputs
                             /\ Plays(state.files, state.outputs[m].output)
          /\ \A q : Plays(held, q) => Plays(state.files, q)

LEMMA OutcomePlays ==
    ASSUME NEW intent, NEW recipe, NEW held, NEW path, NEW machine,
           NEW o \in Outcomes(intent, recipe, held, path, machine)
    PROVE  /\ DOMAIN held \subseteq DOMAIN o.files
           /\ o.ok /\ ~LacksStreams(o.files, path) =>
                Plays(o.files, path) /\ \A q : Plays(held, q) => Plays(o.files, q)
<1> DEFINE good == [ok |-> TRUE, files |-> Written(held, path, Makes(intent, recipe, held))]
           none == [ok |-> FALSE, files |-> held]
           bad  == [ok |-> FALSE, files |-> Written(held, path, Broken)]
<1>1. o = good \/ o = none \/ o = bad
  BY DEF Outcomes
<1>2. \A file : DOMAIN Written(held, path, file) = DOMAIN held \cup {path}
  BY DEF Written
<1>3. CASE o = good
  <2>1. PICK file : file = Makes(intent, recipe, held) /\ file.kind \in {"empty", "media"}
    BY MakesMedia
  <2>2. o.files = Written(held, path, file)
    BY <1>3, <2>1
  <2>3. o.files[path] = file /\ \A q \in DOMAIN held : q # path => o.files[q] = held[q]
    BY <2>2 DEF Written
  <2>4. DOMAIN o.files = DOMAIN held \cup {path}
    BY <1>2, <2>2
  <2> QED BY <2>1, <2>3, <2>4 DEF LacksStreams, Plays
<1>4. CASE o = none
  BY <1>4
<1>5. CASE o = bad
  BY <1>2, <1>5
<1> QED BY <1>1, <1>3, <1>4, <1>5

LEMMA CommandRight ==
    ASSUME NEW intent, NEW recipes, NEW held, NEW machine, NEW k \in Nat \ {0},
           NEW s, RightAfter(s, recipes, held, k - 1),
           NEW then \in AfterCommand(s, intent, recipes[k], machine)
    PROVE  RightAfter(then, recipes, held, k)
<1>1. CASE s.raised
  <2>1. then = s
    BY <1>1 DEF AfterCommand
  <2> QED BY <1>1, <2>1 DEF RightAfter
<1>2. CASE ~s.raised
  <2>1. PICK path : path = recipes[k].output
    OBVIOUS
  <2>2. PICK o \in Outcomes(intent, recipes[k], s.files, path, machine) :
          then = [files  |-> o.files,
                  raised |-> o.ok /\ LacksStreams(o.files, path),
                  outputs |-> Append(s.outputs, [inputs |-> recipes[k].inputs, output |-> path, ok |-> o.ok])]
    BY <1>2, <2>1, Zenon DEF AfterCommand
  <2>3. PICK report : report = [inputs |-> recipes[k].inputs, output |-> path, ok |-> o.ok]
    OBVIOUS
  <2>4. /\ then.files = o.files /\ then.raised = (o.ok /\ LacksStreams(o.files, path))
        /\ then.outputs = Append(s.outputs, report)
    BY <2>2, <2>3
  <2>5. /\ then.outputs \in Seq(Range(then.outputs)) /\ Len(then.outputs) = Len(s.outputs) + 1
        /\ \A m \in 1..Len(s.outputs) : then.outputs[m] = s.outputs[m]
        /\ then.outputs[Len(s.outputs) + 1] = report /\ Len(s.outputs) \in Nat
        /\ DOMAIN s.outputs = 1..Len(s.outputs) /\ DOMAIN then.outputs = 1..(Len(s.outputs) + 1)
    BY <2>4, AppendIs DEF RightAfter
  <2>6. /\ DOMAIN s.files \subseteq DOMAIN o.files
        /\ o.ok /\ ~LacksStreams(o.files, path) =>
             Plays(o.files, path) /\ \A q : Plays(s.files, q) => Plays(o.files, q)
    BY <2>2, OutcomePlays
  <2>7. DOMAIN held \subseteq DOMAIN then.files
    BY <2>4, <2>6 DEF RightAfter
  <2>8. ASSUME ~then.raised, ~Failed(then.outputs)
        PROVE  /\ Len(then.outputs) = k
               /\ \A m \in 1..k : /\ then.outputs[m].ok /\ then.outputs[m].inputs = recipes[m].inputs
                                  /\ Plays(then.files, then.outputs[m].output)
               /\ \A q : Plays(held, q) => Plays(then.files, q)
    <3>1. \A m \in 1..(Len(s.outputs) + 1) : then.outputs[m].ok
      BY <2>5, <2>8 DEF Failed
    <3>2. ~Failed(s.outputs)
      BY <2>5, <3>1 DEF Failed
    <3>3. /\ Len(s.outputs) = k - 1
          /\ \A m \in 1..(k - 1) : /\ s.outputs[m].ok /\ s.outputs[m].inputs = recipes[m].inputs
                                   /\ Plays(s.files, s.outputs[m].output)
          /\ \A q : Plays(held, q) => Plays(s.files, q)
      BY <1>2, <3>2 DEF RightAfter
    <3>4. Len(then.outputs) = k /\ then.outputs[k] = report /\ \A m \in 1..(k - 1) : then.outputs[m] = s.outputs[m]
      BY <2>5, <3>3
    <3>5. o.ok
      <4>1. report.ok = o.ok
        BY <2>3
      <4>2. k \in 1..(Len(s.outputs) + 1)
        BY <3>3
      <4> QED BY <3>1, <3>4, <4>1, <4>2
    <3>6. ~LacksStreams(o.files, path)
      BY <2>4, <2>8, <3>5
    <3>7. Plays(o.files, path) /\ \A q : Plays(s.files, q) => Plays(o.files, q)
      BY <2>6, <3>5, <3>6
    <3>8. ASSUME NEW m \in 1..k
          PROVE  /\ then.outputs[m].ok /\ then.outputs[m].inputs = recipes[m].inputs
                 /\ Plays(then.files, then.outputs[m].output)
      <4>1. CASE m = k
        <5>1. then.outputs[m] = report /\ report.inputs = recipes[m].inputs /\ report.output = path /\ report.ok = o.ok
          BY <2>3, <3>4, <4>1
        <5> QED BY <2>4, <3>5, <3>7, <5>1
      <4>2. CASE m # k
        <5>1. m \in 1..(k - 1)
          BY <4>2
        <5>2. then.outputs[m] = s.outputs[m]
          BY <3>4, <5>1
        <5> QED BY <2>4, <3>3, <3>7, <5>1, <5>2
      <4> QED BY <4>1, <4>2
    <3> QED BY <2>4, <3>3, <3>4, <3>7, <3>8
  <2> QED BY <2>5, <2>7, <2>8 DEF RightAfter
<1> QED BY <1>1, <1>2

LEMMA CommandsRight ==
    ASSUME NEW intent, NEW recipes, NEW held, NEW machine, Len(recipes) \in Nat,
           NEW state \in Commands(intent, recipes, held, machine)
    PROVE  RightAfter(state, recipes, held, Len(recipes))
<1> DEFINE N == Len(recipes)
<1>1. PICK f : Follows(f, intent, recipes, held, machine, N) /\ Commands(intent, recipes, held, machine) = f[N]
  BY CommandsFollow
<1> DEFINE Right(k) == \A s \in f[k] : RightAfter(s, recipes, held, k)
           T == {k \in 0..N : ~Right(k)}
<1> HIDE DEF N
<1>2. N \in Nat /\ N \in 0..N
  BY DEF N
<1>3. ASSUME NEW k \in 0..N, k # 0 => Right(k - 1) PROVE Right(k)
  <2>1. CASE k = 0
    <3>1. f[k] = {[files |-> held, raised |-> FALSE, outputs |-> <<>>]}
      BY <1>1, <2>1 DEF Follows
    <3>2. ASSUME NEW s \in f[k] PROVE RightAfter(s, recipes, held, k)
      <4>1. s.files = held /\ s.outputs = <<>>
        BY <3>1
      <4> QED BY <2>1, <4>1, EmptySeq DEF RightAfter
    <3> QED BY <3>2
  <2>2. CASE k # 0
    <3>1. f[k] = UNION {AfterCommand(s, intent, recipes[k], machine) : s \in f[k - 1]}
      BY <1>1, <2>2 DEF Follows
    <3>2. SUFFICES ASSUME NEW then \in f[k] PROVE RightAfter(then, recipes, held, k)
      OBVIOUS
    <3>3. PICK s \in f[k - 1] : then \in AfterCommand(s, intent, recipes[k], machine)
      BY <3>1
    <3>4. RightAfter(s, recipes, held, k - 1) /\ k \in Nat \ {0}
      BY <1>2, <1>3, <2>2
    <3> QED BY <3>3, <3>4, CommandRight
  <2> QED BY <2>1, <2>2
<1>4. T = {}
  <2> SUFFICES ASSUME T # {} PROVE FALSE
    OBVIOUS
  <2>1. T \in SUBSET Nat
    BY <1>2
  <2>2. PICK k \in T : \A m \in T : k <= m
    <3> HIDE DEF T
    <3> QED BY <2>1, LeastNumber
  <2>3. k \in 0..N /\ ~Right(k)
    OBVIOUS
  <2>4. k # 0 => k - 1 \in 0..N /\ k - 1 \notin T
    BY <1>2, <2>2, <2>3
  <2>5. k # 0 => Right(k - 1)
    BY <2>4
  <2> HIDE DEF Right, T
  <2> QED BY <1>3, <2>3, <2>5
<1>5. Right(N)
  BY <1>2, <1>4
<1> QED BY <1>1, <1>5 DEF N

\* What a run of commands that was not refused returns.
Delivers(held, o, recipes) ==
    /\ DOMAIN o.result = {"outputs"}
    /\ o.end = "ok" =>
          /\ DOMAIN o.result.outputs = 1..Len(recipes)
          /\ \A m \in 1..Len(recipes) : /\ o.result.outputs[m].ok /\ o.result.outputs[m].inputs = recipes[m].inputs
                                        /\ Plays(o.files, o.result.outputs[m].output)
          /\ \A q : Plays(held, q) => Plays(o.files, q)
    /\ o.end # "ok" => Failed(o.result.outputs)

LEMMA RunDelivers ==
    ASSUME NEW intent, NEW recipes, recipes \in Seq(Range(recipes)), NEW held, NEW machine,
           NEW o \in Run(intent, recipes, held, FALSE, machine), o.end # "raised"
    PROVE  Delivers(held, o, recipes)
<1>1. PICK state \in Commands(intent, recipes, held, machine) : o \in EndOf(state)
  BY Zenon DEF Run
<1>2. Len(recipes) \in Nat
  OBVIOUS
<1>3. RightAfter(state, recipes, held, Len(recipes))
  BY <1>1, <1>2, CommandsRight
<1>4. o.files = state.files /\ o.result = [outputs |-> state.outputs] /\ ~state.raised
      /\ (o.end = "ok" => ~Failed(state.outputs))
  BY <1>1, EndOfIs
<1>5. o.end # "ok" => Failed(state.outputs)
  <2>1. SUFFICES ASSUME ~Failed(state.outputs) PROVE o.end = "ok"
    OBVIOUS
  <2>2. o \in Returns(state.files, [outputs |-> state.outputs])
    BY <1>1, <1>4, <2>1 DEF EndOf
  <2> QED BY <2>2, ReturnsIs
<1>6. DOMAIN o.result = {"outputs"} /\ o.result.outputs = state.outputs
  BY <1>4
<1>7. ASSUME o.end = "ok"
      PROVE  /\ DOMAIN state.outputs = 1..Len(recipes)
             /\ \A m \in 1..Len(recipes) : /\ state.outputs[m].ok /\ state.outputs[m].inputs = recipes[m].inputs
                                           /\ Plays(state.files, state.outputs[m].output)
             /\ \A q : Plays(held, q) => Plays(state.files, q)
  <2>1. ~state.raised /\ ~Failed(state.outputs)
    BY <1>4, <1>7
  <2>2. state.outputs \in Seq(Range(state.outputs)) /\ Len(state.outputs) = Len(recipes)
    BY <1>3, <2>1 DEF RightAfter
  <2>3. DOMAIN state.outputs = 1..Len(recipes)
    BY <2>2
  <2> QED BY <1>3, <2>1, <2>3 DEF RightAfter
<1> QED BY <1>4, <1>5, <1>6, <1>7 DEF Delivers

\* What the leaves before the l-th have returned in the run itself.
RealTold(intent, told, l) ==
    ~AsksPlatform(intent) /\ ~(intent.tool = "concat_video" /\ intent.based) =>
        /\ l >= 2 => FilesNamed(intent.inputs) \subseteq Range(told[1].listed)
        /\ l >= 3 => /\ {"probes", "errors"} \subseteq DOMAIN told[2]
                     /\ ~told[2].errors =>
                           \A p \in Range(told[1].listed) :
                              \E m \in DOMAIN told[2].probes : told[2].probes[m].file = p

\* What the recipes of a leaf that runs them all are.
RecipesOf(leaf, told) ==
    IF leaf.tool = "run_batch" THEN told[3].recipes
    ELSE ConcatRecipe(leaf.intent, IF leaf.intent.based
                                   THEN [k \in DOMAIN leaf.intent.inputs |-> leaf.intent.inputs[k].path]
                                   ELSE told[1].listed)

RealTells(leaf, told, held, o) ==
    /\ leaf.tool \in {"run_batch", "run_concat"} => Delivers(held, o, RecipesOf(leaf, told))
    /\ leaf.tool = "run_preview" =>
          "outputs" \notin DOMAIN o.result /\ "preview" \in DOMAIN o.result
          /\ KeepsBut(held, o.files, {o.result.preview})
    /\ leaf.tool \notin {"run_batch", "run_concat", "run_preview"} =>
          "outputs" \notin DOMAIN o.result /\ o.files = held
    /\ leaf.tool = "resolve_inputs" => FilesNamed(leaf.intent.inputs) \subseteq Range(o.result.listed)
    /\ leaf.tool = "inspect_media" =>
          /\ {"probes", "errors"} \subseteq DOMAIN o.result
          /\ ~o.result.errors => \A p \in Range(told[1].listed) :
                                    \E m \in DOMAIN o.result.probes : o.result.probes[m].file = p

LEMMA LeafReally ==
    ASSUME NEW intent, NEW l, NEW told, AtStep(intent, l, told), NEW held, IsFiniteSet(DOMAIN held),
           NEW machine, NEW o \in Handle(MediaLeaves(intent)[l], held, told, machine, FALSE), o.end # "raised"
    PROVE  RealTells(MediaLeaves(intent)[l], told, held, o)
<1> DEFINE leaf == MediaLeaves(intent)[l]
<1>1. /\ leaf.intent = intent /\ leaf.tool \in {"clarify", "resolve_inputs", "inspect_media", "build_recipes",
                                              "run_preview", "run_batch", "run_concat"}
      /\ leaf.tool \in {"resolve_inputs", "inspect_media", "build_recipes", "run_preview", "run_batch"} =>
            ~AsksPlatform(intent) /\ ~(intent.tool = "concat_video" /\ intent.based)
      /\ leaf.tool = "inspect_media" => l = 2
      /\ leaf.tool = "build_recipes" => l = 3
      /\ leaf.tool \in {"run_preview", "run_batch"} => l \in {4, 5}
  BY StepIs DEF Standing, AtStep, IsJoin, IsBatch
<1>2. WholeInputs(intent.inputs) /\ WholeTold(intent, told, l)
  BY DEF AtStep
<1> HIDE DEF leaf
<1>3. CASE leaf.tool = "clarify"
  <2>1. o \in Stops(held, [asks |-> TRUE])
    BY <1>3 DEF Handle, leaf
  <2>2. o.files = held /\ o.result = [asks |-> TRUE]
    BY <2>1, StopsIs
  <2> QED BY <1>3, <2>2 DEF RealTells, leaf
<1>4. CASE leaf.tool = "resolve_inputs"
  <2>1. o \in Resolve(intent, held)
    BY <1>1, <1>4 DEF Handle, leaf
  <2>2. /\ o.files = held /\ DOMAIN o.result = {"listed"}
        /\ FilesNamed(intent.inputs) \subseteq Range(o.result.listed)
    BY <1>2, <2>1, ResolveLists
  <2> QED BY <1>1, <1>4, <2>2 DEF RealTells, leaf
<1>5. CASE leaf.tool = "inspect_media"
  <2>1. o \in Inspect(told[1].listed, held, FALSE)
    BY <1>1, <1>5 DEF Handle, leaf
  <2>2. PICK listed : listed = told[1].listed
    OBVIOUS
  <2>3. told[1].listed \in Seq(Range(told[1].listed))
    BY <1>1, <1>2, <1>5 DEF WholeTold
  <2>5. listed \in Seq(Range(listed)) /\ o \in Inspect(listed, held, FALSE)
    BY <2>1, <2>2, <2>3
  <2>6. PICK dry \in BOOLEAN : dry = FALSE
    OBVIOUS
  <2>7. o \in Inspect(listed, held, dry)
    BY <2>5, <2>6
  <2>4. /\ o.files = held /\ DOMAIN o.result = {"probes", "errors"}
        /\ ~o.result.errors => \A p \in Range(listed) : \E m \in DOMAIN o.result.probes : o.result.probes[m].file = p
    BY <2>5, <2>6, <2>7, InspectProbes
  <2> QED BY <1>5, <2>2, <2>4 DEF RealTells, leaf
<1>6. CASE leaf.tool = "build_recipes"
  <2>1. o \in Build(intent, told[2].probes, held, FALSE)
    BY <1>1, <1>6 DEF Handle, leaf
  <2>2. o \in Raises(held) \/ o \in Returns(held, [recipes |-> Recipes(intent, Heard(intent, told[2].probes))])
    BY <2>1 DEF Build
  <2>3. o.files = held /\ o.result = [recipes |-> Recipes(intent, Heard(intent, told[2].probes))]
    BY <2>2, RaisesIs, ReturnsIs
  <2> QED BY <1>6, <2>3 DEF RealTells, leaf
<1>7. CASE leaf.tool = "run_preview"
  <2>1. o \in Sample(intent, told[2].probes, told[3].recipes, held, FALSE, machine)
    BY <1>1, <1>7 DEF Handle, leaf
  <2>2. PICK probes, recipes : probes = told[2].probes /\ recipes = told[3].recipes
    OBVIOUS
  <2>3. o \in Sample(intent, probes, recipes, held, FALSE, machine)
    BY <2>1, <2>2
  <2>4. Sampled(held, o, SamplePaths(intent, probes, recipes))
    BY <2>3, SampleGrows
  <2>5. DOMAIN o.result = {"preview", "ok"} /\ KeepsBut(held, o.files, {o.result.preview})
    BY <2>4 DEF Sampled, Grows
  <2> QED BY <1>7, <2>5 DEF RealTells, leaf
<1>8. CASE leaf.tool = "run_batch"
  <2>1. o \in Run(intent, told[3].recipes, held, FALSE, machine)
    BY <1>1, <1>8 DEF Handle, leaf
  <2>2. l >= 3 /\ l >= 4
    BY <1>1, <1>8
  <2>3. told[2].probes \in Seq(Range(told[2].probes)) /\ told[3].recipes = Recipes(intent, Heard(intent, told[2].probes))
    BY <1>1, <1>2, <1>8, <2>2 DEF WholeTold
  <2>4. PICK recipes, probes : recipes = told[3].recipes /\ probes = told[2].probes
    OBVIOUS
  <2>7. probes \in Seq(Range(probes)) /\ recipes = Recipes(intent, Heard(intent, probes))
    BY <2>3, <2>4
  <2>8. recipes \in Seq(Range(recipes))
    BY <2>7, RecipesAre DEF OnePerFile
  <2>5. recipes \in Seq(Range(recipes)) /\ o \in Run(intent, recipes, held, FALSE, machine)
    BY <2>1, <2>4, <2>8
  <2>6. Delivers(held, o, recipes)
    BY <2>5, RunDelivers
  <2> QED BY <1>8, <2>4, <2>6 DEF RealTells, RecipesOf, leaf
<1>9. CASE leaf.tool = "run_concat"
  <2>1. o \in Run(intent, RecipesOf(leaf, told), held, FALSE, machine)
    BY <1>1, <1>9 DEF Handle, RecipesOf, leaf
  <2>2. PICK recipes : recipes = RecipesOf(leaf, told)
    OBVIOUS
  <2>3. recipes \in Seq(Range(recipes))
    <3>1. PICK one : recipes = <<one>>
      BY <1>9, <2>2 DEF RecipesOf, ConcatRecipe
    <3> QED BY <3>1 DEF Range
  <2>4. Delivers(held, o, recipes)
    BY <2>1, <2>2, <2>3, RunDelivers
  <2> QED BY <1>9, <2>2, <2>4 DEF RealTells, leaf
<1> QED BY <1>1, <1>3, <1>4, <1>5, <1>6, <1>7, <1>8, <1>9

\* What the last leaf of an intent leaves of the files that it was given.
Covered(intent, told, l, o, p) ==
    \/ "outputs" \in DOMAIN o.result /\ \E m \in DOMAIN o.result.outputs : p \in Range(o.result.outputs[m].inputs)
    \/ /\ intent.tool = "extract_audio" /\ 2 \in 1..(l - 1) /\ "probes" \in DOMAIN told[2]
       /\ \E m \in DOMAIN told[2].probes : told[2].probes[m].file = p /\ ~told[2].probes[m].sound

LEMMA BlockDone ==
    ASSUME NEW intent, NEW l, NEW told, AtStep(intent, l, told), l = Len(MediaLeaves(intent)),
           RealTold(intent, told, l), l >= 3 => ~MediaErrorIn(told[2]),
           NEW held, NEW o, RealTells(MediaLeaves(intent)[l], told, held, o), o.end = "ok",
           MediaLeaves(intent)[l].tool # "clarify", NEW p \in FilesNamed(intent.inputs)
    PROVE  Covered(intent, told, l, o, p)
<1> DEFINE leaf == MediaLeaves(intent)[l]
           recipes == RecipesOf(leaf, told)
<1>1. Standing(intent, l, leaf)
  BY StepIs DEF AtStep
<1> HIDE DEF leaf, recipes
<1>2. leaf.tool # "clarify" /\ RealTells(leaf, told, held, o)
  BY DEF leaf
<1>3. leaf.intent = intent /\ leaf.tool \in {"run_batch", "run_concat"} /\ ~AsksPlatform(intent)
  <2>1. PICK N, tool : N = Len(MediaLeaves(intent)) /\ l = N /\ N \in Nat /\ tool = leaf.tool
    BY LeavesAre
  <2>2. leaf.intent = intent /\ tool # "clarify"
    BY <1>1, <1>2, <2>1 DEF Standing
  <2>3. \/ AsksPlatform(intent) /\ N = 1 /\ tool = "clarify"
        \/ ~AsksPlatform(intent) /\ N = 1 /\ tool = "run_concat"
        \/ ~AsksPlatform(intent) /\ N = 3 /\ (l = 1 \/ l = 2 \/ (l = 3 /\ tool = "run_concat"))
        \/ ~AsksPlatform(intent) /\ N = 5 /\ (l = 1 \/ l = 2 \/ l = 3 \/ l = 4 \/ (l = 5 /\ tool = "run_batch"))
        \/ ~AsksPlatform(intent) /\ N = 4 /\ (l = 1 \/ l = 2 \/ l = 3 \/ (l = 4 /\ tool = "run_batch"))
    BY <1>1, <2>1 DEF Standing, IsJoin, IsBatch
  <2>4. ~AsksPlatform(intent) /\ (N = 1 \/ N = 3 \/ N = 4 \/ N = 5)
    BY <2>2, <2>3
  <2>5. CASE N = 1
    BY <2>1, <2>2, <2>3, <2>4, <2>5
  <2>6. CASE N = 3
    BY <2>1, <2>2, <2>3, <2>4, <2>6
  <2>7. CASE N = 4
    BY <2>1, <2>2, <2>3, <2>4, <2>7
  <2>8. CASE N = 5
    BY <2>1, <2>2, <2>3, <2>4, <2>8
  <2> QED BY <2>4, <2>5, <2>6, <2>7, <2>8
<1>4. /\ "outputs" \in DOMAIN o.result /\ DOMAIN o.result.outputs = 1..Len(recipes)
      /\ \A m \in 1..Len(recipes) : o.result.outputs[m].inputs = recipes[m].inputs
  BY <1>2, <1>3 DEF RealTells, Delivers, recipes
<1>5. SUFFICES ASSUME NEW m \in 1..Len(recipes), p \in Range(recipes[m].inputs)
               PROVE  Covered(intent, told, l, o, p)
  <2>1. SUFFICES ASSUME \A m \in 1..Len(recipes) : p \notin Range(recipes[m].inputs)
                 PROVE  Covered(intent, told, l, o, p)
    OBVIOUS
  <2>2. CASE leaf.tool = "run_concat"
    <3>1. PICK one : recipes = <<one>> /\ one.inputs = (IF intent.based
                                                        THEN [k \in DOMAIN intent.inputs |-> intent.inputs[k].path]
                                                        ELSE told[1].listed)
      <4>1. PICK given : given = (IF intent.based THEN [k \in DOMAIN intent.inputs |-> intent.inputs[k].path]
                                  ELSE told[1].listed)
        OBVIOUS
      <4>2. recipes = ConcatRecipe(intent, given)
        BY <1>3, <2>2, <4>1 DEF recipes, RecipesOf
      <4>3. PICK path : recipes = <<[inputs |-> given, output |-> path]>>
        BY <4>2 DEF ConcatRecipe
      <4>4. PICK one : one = [inputs |-> given, output |-> path]
        OBVIOUS
      <4>5. recipes = <<one>> /\ one.inputs = given
        BY <4>3, <4>4
      <4> QED BY <4>1, <4>5
    <3>2. p \in Range(one.inputs)
      <4>1. CASE intent.based
        <5>1. PICK k \in DOMAIN intent.inputs : p = intent.inputs[k].path
          BY DEF FilesNamed
        <5>2. one.inputs = [j \in DOMAIN intent.inputs |-> intent.inputs[j].path]
          BY <3>1, <4>1
        <5> QED BY <5>1, <5>2 DEF Range
      <4>2. CASE ~intent.based
        <5>1. l >= 2 /\ one.inputs = told[1].listed
          BY <1>1, <2>2, <3>1, <4>2 DEF Standing
        <5> QED BY <1>3, <4>2, <5>1 DEF RealTold
      <4> QED BY <4>1, <4>2
    <3>3. 1 \in 1..Len(recipes) /\ recipes[1] = one
      BY <3>1
    <3> QED BY <2>1, <3>2, <3>3
  <2>3. CASE leaf.tool = "run_batch"
    <3>1. IsBatch(intent) /\ l \in {4, 5}
      BY <1>1, <2>3 DEF Standing
    <3>2. ~AsksPlatform(intent) /\ ~(intent.tool = "concat_video" /\ intent.based) /\ l >= 2 /\ l >= 3 /\ l >= 4
      BY <3>1 DEF IsBatch
    <3>3. PICK probes : probes = told[2].probes
      OBVIOUS
    <3>4. probes \in Seq(Range(probes)) /\ recipes = Recipes(intent, Heard(intent, probes))
      <4>1. told[2].probes \in Seq(Range(told[2].probes)) /\ told[3].recipes = Recipes(intent, Heard(intent, told[2].probes))
        BY <3>2 DEF AtStep, WholeTold
      <4>2. recipes = told[3].recipes
        BY <2>3 DEF recipes, RecipesOf
      <4> QED BY <3>3, <4>1, <4>2
    <3>5. /\ p \in Range(told[1].listed) /\ {"probes", "errors"} \subseteq DOMAIN told[2]
          /\ ~told[2].errors => \A q \in Range(told[1].listed) : \E m \in DOMAIN told[2].probes : told[2].probes[m].file = q
      BY <3>2 DEF RealTold
    <3>6. ~told[2].errors
      BY <3>2, <3>5 DEF MediaErrorIn
    <3>7. PICK m \in DOMAIN probes : probes[m].file = p
      BY <3>3, <3>5, <3>6
    <3>8. CASE m \in Audible(intent, probes)
      <4>0. OnePerFile(intent, probes, recipes)
        BY <3>4, RecipesAre
      <4>1. recipes \in Seq(Range(recipes)) /\ \E k \in DOMAIN recipes : recipes[k].inputs = <<probes[m].file>>
        BY <3>8, <4>0 DEF OnePerFile
      <4>2. PICK k \in DOMAIN recipes : recipes[k].inputs = <<p>>
        BY <3>7, <4>1
      <4>3. k \in 1..Len(recipes) /\ p \in Range(recipes[k].inputs)
        BY <4>1, <4>2 DEF Range
      <4> QED BY <2>1, <4>3
    <3>9. CASE m \notin Audible(intent, probes)
      <4>1. intent.tool = "extract_audio" /\ ~probes[m].sound
        BY <3>9 DEF Audible
      <4>2. 2 \in 1..(l - 1) /\ "probes" \in DOMAIN told[2]
        BY <3>1, <3>5
      <4> QED BY <3>3, <3>7, <4>1, <4>2 DEF Covered
    <3> QED BY <3>8, <3>9
  <2> QED BY <1>3, <2>2, <2>3
<1> QED BY <1>4, <1>5 DEF Covered

---------------------------------------------------------------------------
\* The inductive invariant of what a run tells: until an error has been
\* rendered every intent behind has worked on what it was given, and every
\* output that was reported plays, or a sample was written over it.

Loud == ~call.silent /\ ~call.verbose

Settled(i) == \A p \in GivenTo(i) : WorkedOn(i, p) \/ FoundSilent(i, p)

Playing(k, m) ==
    LET told == results[k].result.outputs[m]
    IN  told.ok /\ told.output \in DOMAIN files /\ (files[told.output].kind = "media" \/ SampledSince(k, told.output))

AllPlaying ==
    \A k \in DOMAIN results : "outputs" \in DOMAIN results[k].result =>
        \A m \in DOMAIN results[k].result.outputs : Playing(k, m)

\* What the leaves of this intent returned is among the results.
Recorded ==
    \A l \in 1..(li - 1) : \E k \in DOMAIN results : results[k].intent = bi /\ results[k].result = bound[l]

ToldInv ==
    /\ Base /\ results \in Seq(Range(results))
    /\ phase \in {"preview", "gate", "check"} => ~errors /\ results = <<>>
    /\ phase # "over" => exit = NoExit
    /\ exit = 0 => ~errors
    /\ phase = "leaf" => RealTold(plan[bi], bound, li) /\ Recorded
    /\ phase # "preview" /\ ~errors /\ Loud => \A i \in 1..(bi - 1) : Settled(i)
    /\ exit # 1 /\ ~errors /\ Loud => AllPlaying

LEMMA ToldStarts ==
    ASSUME Init
    PROVE  ToldInv
<1>1. Base
  BY BaseStarts
<1>2. results = <<>> /\ phase = "preview" /\ errors = FALSE /\ exit = NoExit
  BY DEF Init
<1>3. DOMAIN results = {}
  BY <1>2
<1> QED BY <1>1, <1>2, <1>3, EmptySeq DEF ToldInv, NoExit, AllPlaying

LEMMA ResultsGrow ==
    ASSUME results \in Seq(Range(results)), NEW rec, results' = Append(results, rec)
    PROVE  /\ results' \in Seq(Range(results')) /\ Len(results) \in Nat /\ Len(results') = Len(results) + 1
           /\ DOMAIN results = 1..Len(results) /\ DOMAIN results' = 1..(Len(results) + 1)
           /\ \A k \in DOMAIN results : k \in DOMAIN results' /\ results'[k] = results[k]
           /\ results'[Len(results) + 1] = rec
<1>1. /\ results' \in Seq(Range(results')) /\ Len(results') = Len(results) + 1
      /\ \A k \in 1..Len(results) : results'[k] = results[k]
      /\ results'[Len(results) + 1] = rec
  BY AppendIs
<1>2. Len(results) \in Nat /\ DOMAIN results = 1..Len(results) /\ DOMAIN results' = 1..Len(results')
  BY <1>1
<1> QED BY <1>1, <1>2

LEMMA SettledStays ==
    ASSUME results \in Seq(Range(results)), NEW rec, results' = Append(results, rec), UNCHANGED plan,
           NEW i, Settled(i)
    PROVE  Settled(i)'
<1>1. \A k \in DOMAIN results : k \in DOMAIN results' /\ results'[k] = results[k]
  BY ResultsGrow
<1>2. SUFFICES ASSUME NEW p \in GivenTo(i) PROVE WorkedOn(i, p)' \/ FoundSilent(i, p)'
  BY DEF Settled, GivenTo
<1>3. CASE WorkedOn(i, p)
  <2>1. PICK k \in Reported(i, "outputs") : \E m \in DOMAIN results[k].result.outputs :
                                               p \in Range(results[k].result.outputs[m].inputs)
    BY <1>3 DEF WorkedOn
  <2>2. k \in Reported(i, "outputs")' /\ results'[k] = results[k]
    BY <1>1, <2>1 DEF Reported
  <2> QED BY <2>1, <2>2 DEF WorkedOn
<1>4. CASE FoundSilent(i, p)
  <2>1. PICK k \in Reported(i, "probes") : \E m \in DOMAIN results[k].result.probes :
                 results[k].result.probes[m].file = p /\ ~results[k].result.probes[m].sound
    BY <1>4 DEF FoundSilent
  <2>2. k \in Reported(i, "probes")' /\ results'[k] = results[k]
    BY <1>1, <2>1 DEF Reported
  <2> QED BY <1>4, <2>1, <2>2 DEF FoundSilent
<1> QED BY <1>2, <1>3, <1>4 DEF Settled

\* A leaf that nothing is told of leaves every output playing.
LEMMA PlayingStays ==
    ASSUME results \in Seq(Range(results)), NEW rec, results' = Append(results, rec), AllPlaying,
           NEW leaf, NEW told, NEW o, rec.result = o.result, files' = o.files,
           RealTells(leaf, told, files, o), DOMAIN files \subseteq DOMAIN files',
           ~("outputs" \in DOMAIN o.result /\ Failed(o.result.outputs))
    PROVE  AllPlaying'
<1> DEFINE n == Len(results) + 1
<1>1. /\ Len(results) \in Nat /\ Len(results') = n /\ DOMAIN results = 1..Len(results) /\ DOMAIN results' = 1..n
      /\ \A k \in DOMAIN results : k \in DOMAIN results' /\ results'[k] = results[k]
      /\ results'[n] = rec
  BY ResultsGrow
<1> HIDE DEF n
<1>2. n = Len(results) + 1 /\ n \in Nat
  BY <1>1 DEF n
<1>3. SUFFICES ASSUME NEW k \in DOMAIN results', "outputs" \in DOMAIN results'[k].result,
                      NEW m \in DOMAIN results'[k].result.outputs
               PROVE  Playing(k, m)'
  BY DEF AllPlaying
<1>4. CASE leaf.tool \in {"run_batch", "run_concat"}
  <2>1. Delivers(files, o, RecipesOf(leaf, told))
    BY <1>4 DEF RealTells
  <2>2. "outputs" \in DOMAIN o.result /\ o.end = "ok"
    BY <2>1 DEF Delivers
  <2>3. /\ \A j \in DOMAIN o.result.outputs : o.result.outputs[j].ok /\ Plays(files', o.result.outputs[j].output)
        /\ \A q : Plays(files, q) => Plays(files', q)
    BY <2>1, <2>2 DEF Delivers
  <2>4. CASE k = n
    <3>1. results'[k].result = o.result
      BY <1>1, <2>4
    <3> QED BY <1>3, <2>3, <3>1 DEF Playing, Plays
  <2>5. CASE k # n
    <3>1. k \in DOMAIN results /\ results'[k] = results[k]
      BY <1>1, <1>2, <2>5
    <3>2. Playing(k, m)
      BY <1>3, <3>1 DEF AllPlaying
    <3>3. PICK q : q = results[k].result.outputs[m].output
      OBVIOUS
    <3>4. results'[k].result.outputs[m].ok /\ q = results'[k].result.outputs[m].output /\ q \in DOMAIN files'
      BY <3>1, <3>2, <3>3 DEF Playing
    <3>5. CASE SampledSince(k, q)
      <4>1. SampledSince(k, q)'
        BY <1>1, <1>2, <3>1, <3>5 DEF SampledSince
      <4> QED BY <3>3, <3>4, <4>1 DEF Playing
    <3>6. CASE Plays(files, q)
      <4>1. files'[q].kind = "media"
        BY <2>3, <3>6 DEF Plays
      <4> QED BY <3>4, <4>1 DEF Playing
    <3> QED BY <3>2, <3>3, <3>5, <3>6 DEF Playing, Plays
  <2> QED BY <2>4, <2>5
<1>5. CASE leaf.tool \notin {"run_batch", "run_concat"}
  <2>1. "outputs" \notin DOMAIN o.result
    BY <1>5 DEF RealTells
  <2>2. k # n
    BY <1>1, <1>3, <2>1
  <2>3. k \in DOMAIN results /\ results'[k] = results[k]
    BY <1>1, <1>2, <2>2
  <2>4. Playing(k, m)
    BY <1>3, <2>3 DEF AllPlaying
  <2>5. PICK q : q = results[k].result.outputs[m].output
    OBVIOUS
  <2>6. /\ results'[k].result.outputs[m].ok /\ q = results'[k].result.outputs[m].output
        /\ q \in DOMAIN files /\ q \in DOMAIN files'
    BY <2>3, <2>4, <2>5 DEF Playing
  <2>7. CASE SampledSince(k, q)
    <3>1. SampledSince(k, q)'
      BY <1>1, <1>2, <2>3, <2>7 DEF SampledSince
    <3> QED BY <2>5, <2>6, <3>1 DEF Playing
  <2>8. CASE files[q].kind = "media" /\ files'[q] = files[q]
    BY <2>6, <2>8 DEF Playing
  <2>9. CASE files[q].kind = "media" /\ files'[q] # files[q]
    <3>1. leaf.tool = "run_preview"
      BY <1>5, <2>9 DEF RealTells
    <3>2. "preview" \in DOMAIN o.result /\ KeepsBut(files, o.files, {o.result.preview})
      BY <3>1 DEF RealTells
    <3>3. q = o.result.preview
      BY <2>6, <2>9, <3>2 DEF KeepsBut
    <3>4. "preview" \in DOMAIN results'[n].result /\ results'[n].result.preview = q
      BY <1>1, <3>2, <3>3
    <3>5. n \in (k + 1)..Len(results')
      BY <1>1, <1>2, <2>3
    <3>6. SampledSince(k, q)'
      BY <3>4, <3>5 DEF SampledSince
    <3> QED BY <2>6, <3>6 DEF Playing
  <2> QED BY <2>4, <2>5, <2>7, <2>8, <2>9 DEF Playing
<1> QED BY <1>4, <1>5

\* A failure of the intent that just ended has been rendered.
LEMMA RunTells ==
    ASSUME ToldInv, RunLeaf
    PROVE  ToldInv'
<1>1. Base /\ Base' /\ UNCHANGED <<request, found, agreed>> /\ phase = "leaf"
  BY RunMoves DEF ToldInv, RunLeaf
<1>2. /\ bi \in DOMAIN plan /\ AtStep(plan[bi], li, bound) /\ Leaf = MediaLeaves(plan[bi])[li]
      /\ DOMAIN files \subseteq DOMAIN files'
  BY <1>1, RunMoves DEF Grows, KeepsBut
<1>3. AtLeaf /\ IsFiniteSet(DOMAIN files) /\ UNCHANGED <<plan, call>>
  BY <1>1 DEF Base, request
<1>4. /\ results \in Seq(Range(results)) /\ exit = NoExit
      /\ RealTold(plan[bi], bound, li) /\ Recorded
      /\ ~errors /\ Loud => (\A i \in 1..(bi - 1) : Settled(i)) /\ AllPlaying
  BY <1>1 DEF ToldInv, NoExit
<1>5. PICK o \in MediaDo(Leaf, files, bound, setting) :
        /\ files' = o.files
        /\ IF o.end = "raised"
           THEN End(1) /\ UNCHANGED <<place, results, errors>>
           ELSE /\ results' = Append(results, [intent |-> bi, leaf |-> li, tool |-> Leaf.tool, result |-> o.result])
                /\ IF o.end = "ok"
                   THEN /\ Advance(o.result)
                        /\ errors' = (errors \/ (bi' # bi /\ Rendered(Append(bound, o.result))))
                        /\ phase' = (IF bi' # bi THEN "intent" ELSE phase)
                        /\ UNCHANGED exit
                   ELSE /\ errors' = (errors \/ Rendered(Append(bound, o.result)))
                        /\ Finish
                        /\ UNCHANGED place
  BY DEF RunLeaf
<1>6. o \in Handle(MediaLeaves(plan[bi])[li], files, bound, setting, FALSE)
  BY <1>2, <1>5 DEF MediaDo
<1>7. Ended(o) /\ (o.end = "ok" => LeafTells(Leaf, bound, o, FALSE))
  BY <1>2, <1>3, <1>6, LeafIs
<1>8. UNCHANGED call /\ Loud' = Loud
  BY <1>3 DEF Loud
<1>9. CASE o.end = "raised"
  <2>1. phase' = "over" /\ exit' = 1 /\ UNCHANGED <<bi, results, errors>>
    BY <1>5, <1>9 DEF End, place
  <2>2. \A i \in 1..(bi - 1) : Settled(i) => Settled(i)'
    BY <1>3, <2>1 DEF Settled, GivenTo, WorkedOn, FoundSilent, Reported
  <2> QED BY <1>1, <1>4, <1>8, <2>1, <2>2 DEF ToldInv
<1>10. CASE o.end # "raised"
  <2>1. PICK rec : rec = [intent |-> bi, leaf |-> li, tool |-> Leaf.tool, result |-> o.result]
    OBVIOUS
  <2>2. results' = Append(results, rec) /\ rec.intent = bi /\ rec.result = o.result
    BY <1>5, <1>10, <2>1
  <2>3. /\ results' \in Seq(Range(results')) /\ Len(results) \in Nat /\ Len(results') = Len(results) + 1
        /\ DOMAIN results = 1..Len(results) /\ DOMAIN results' = 1..(Len(results) + 1)
        /\ \A k \in DOMAIN results : k \in DOMAIN results' /\ results'[k] = results[k]
        /\ results'[Len(results) + 1] = rec
    BY <1>4, <2>2, ResultsGrow
  <2>4. \A i \in 1..(bi - 1) : Settled(i) => Settled(i)'
    BY <1>3, <1>4, <2>2, SettledStays
  <2>5. RealTells(Leaf, bound, files, o)
    BY <1>2, <1>3, <1>6, <1>10, LeafReally
  <2>6. PICK sub : sub = Append(bound, o.result)
    OBVIOUS
  <2>7. /\ bound \in Seq(Range(bound)) /\ Len(bound) = li - 1 /\ li \in Nat \ {0}
        /\ Len(sub) = li /\ DOMAIN sub = 1..li
        /\ \A k \in 1..(li - 1) : sub[k] = bound[k]
        /\ sub[li] = o.result
    <3>1. bound \in Seq(Range(bound)) /\ Len(bound) = li - 1 /\ li \in Nat \ {0}
      BY <1>3 DEF AtLeaf
    <3>2. /\ sub \in Seq(Range(sub)) /\ Len(sub) = Len(bound) + 1
          /\ \A k \in 1..Len(bound) : sub[k] = bound[k]
          /\ sub[Len(bound) + 1] = o.result
      BY <2>6, <3>1, AppendIs
    <3>3. Len(bound) + 1 = li
      BY <3>1
    <3> QED BY <3>1, <3>2, <3>3
  <2>8. ~errors' => ~errors
    BY <1>5, <1>10
  <2>9. ASSUME AllPlaying, ~("outputs" \in DOMAIN o.result /\ Failed(o.result.outputs))
        PROVE  AllPlaying'
    BY <1>2, <1>4, <1>5, <2>2, <2>5, <2>9, PlayingStays
  <2>10. ASSUME Loud, ~Rendered(sub)
         PROVE  \A k \in 1..li : ~MediaErrorIn(sub[k])
    BY <2>7, <2>10 DEF Rendered, Loud
  <2>11. ASSUME Loud, ~Rendered(sub)
         PROVE  ~("outputs" \in DOMAIN o.result /\ Failed(o.result.outputs))
    BY <2>7, <2>10, <2>11 DEF MediaErrorIn
  <2>14. o.end = "ok" => ~("outputs" \in DOMAIN o.result /\ Failed(o.result.outputs))
    BY <2>5 DEF RealTells, Delivers, Failed
  <2>12. CASE o.end # "ok"
    <3>1. /\ phase' = "over" /\ exit' = (IF errors' THEN 1 ELSE 0) /\ UNCHANGED bi
          /\ errors' = (errors \/ Rendered(sub))
      BY <1>5, <1>10, <2>6, <2>12 DEF Finish, End, place
    <3>2. exit' = 0 => ~errors'
      BY <3>1
    <3>3. ~errors' /\ Loud => (\A i \in 1..(bi' - 1) : Settled(i)') /\ AllPlaying'
      BY <1>4, <2>4, <2>8, <2>9, <2>11, <3>1
    <3> QED BY <1>1, <1>8, <2>3, <3>1, <3>2, <3>3 DEF ToldInv
  <2>13. CASE o.end = "ok"
    <3>1. /\ Advance(o.result) /\ errors' = (errors \/ (bi' # bi /\ Rendered(sub)))
          /\ phase' = (IF bi' # bi THEN "intent" ELSE "leaf") /\ UNCHANGED exit
      BY <1>1, <1>5, <2>6, <2>13
    <3>2. Moves(plan[bi]) /\ (bi' = bi => bound' = sub) /\ Leaf.tool # "clarify"
      BY <1>2, <1>3, <1>7, <2>6, <2>13, <3>1, AdvanceMoves DEF LeafTells
    <3>3. Ended(o) /\ bi \in Nat /\ exit' = NoExit
      BY <1>3, <1>4, <1>7, <3>1, PlanIsSeq DEF AtLeaf
    <3>4. CASE bi' = bi
      <4>1. li' = li + 1 /\ bound' = sub /\ phase' = "leaf"
        BY <3>1, <3>2, <3>3, <3>4 DEF Moves
      <4>2. Recorded'
        <5>1. SUFFICES ASSUME NEW l \in 1..li
                       PROVE  \E k \in DOMAIN results' : results'[k].intent = bi /\ results'[k].result = sub[l]
          BY <2>7, <3>4, <4>1 DEF Recorded
        <5>2. CASE l = li
          BY <2>2, <2>3, <2>7, <5>2
        <5>3. CASE l # li
          <6>1. l \in 1..(li - 1)
            BY <2>7, <5>3
          <6>2. PICK k \in DOMAIN results : results[k].intent = bi /\ results[k].result = bound[l]
            BY <1>4, <6>1 DEF Recorded
          <6> QED BY <2>3, <2>7, <6>1, <6>2
        <5> QED BY <5>2, <5>3
      <4>3. RealTold(plan[bi], sub, li + 1)
        <5>1. SUFFICES ASSUME ~AsksPlatform(plan[bi]), ~(plan[bi].tool = "concat_video" /\ plan[bi].based)
                       PROVE  /\ FilesNamed(plan[bi].inputs) \subseteq Range(sub[1].listed)
                              /\ li + 1 >= 3 => /\ {"probes", "errors"} \subseteq DOMAIN sub[2]
                                                /\ ~sub[2].errors =>
                                                      \A p \in Range(sub[1].listed) :
                                                         \E m \in DOMAIN sub[2].probes : sub[2].probes[m].file = p
          BY DEF RealTold
        <5>2. /\ li >= 2 => FilesNamed(plan[bi].inputs) \subseteq Range(bound[1].listed)
              /\ li >= 3 => /\ {"probes", "errors"} \subseteq DOMAIN bound[2]
                            /\ ~bound[2].errors =>
                                  \A p \in Range(bound[1].listed) :
                                     \E m \in DOMAIN bound[2].probes : bound[2].probes[m].file = p
          BY <1>4, <5>1 DEF RealTold
        <5>3. PICK N : N = Len(MediaLeaves(plan[bi])) /\ li < N
          BY <3>2, <3>4, <3>3 DEF Moves
        <5>4. Standing(plan[bi], li, Leaf)
          BY <1>2, StepIs DEF AtStep
        <5>5. CASE li = 1
          <6>1. Leaf.tool = "resolve_inputs" /\ Leaf.intent = plan[bi] /\ sub[1] = o.result
            BY <2>7, <5>1, <5>3, <5>4, <5>5 DEF Standing
          <6> QED BY <2>5, <5>5, <6>1 DEF RealTells
        <5>6. CASE li = 2
          <6>1. Leaf.tool = "inspect_media" /\ sub[1] = bound[1] /\ sub[2] = o.result
            BY <2>7, <5>1, <5>3, <5>4, <5>6 DEF Standing
          <6> QED BY <2>5, <5>2, <5>6, <6>1 DEF RealTells
        <5>7. CASE li >= 3
          <6>1. sub[1] = bound[1] /\ sub[2] = bound[2] /\ li >= 2
            BY <2>7, <5>7
          <6> QED BY <5>2, <5>7, <6>1
        <5> QED BY <2>7, <5>5, <5>6, <5>7
      <4>4. RealTold(plan[bi], bound, li)' 
        BY <1>3, <3>4, <4>1, <4>3
      <4>5. ~errors' /\ Loud => (\A i \in 1..(bi' - 1) : Settled(i)') /\ AllPlaying'
        BY <1>4, <2>4, <2>8, <2>9, <2>13, <2>14, <3>4
      <4> QED BY <1>1, <1>8, <2>3, <3>3, <4>1, <4>2, <4>4, <4>5 DEF ToldInv, NoExit
    <3>5. CASE bi' # bi
      <4>1. bi' = bi + 1 /\ phase' = "intent" /\ li = Len(MediaLeaves(plan[bi]))
        BY <3>1, <3>2, <3>5 DEF Moves
      <4>2. ASSUME Loud, ~errors' PROVE (\A i \in 1..(bi' - 1) : Settled(i)') /\ AllPlaying'
        <5>1. ~errors /\ ~Rendered(sub)
          BY <3>1, <3>5, <4>2
        <5>2. AllPlaying'
          BY <1>4, <2>9, <2>11, <4>2, <5>1
        <5>9. PICK b : b = bi
          OBVIOUS
        <5>3. Settled(b)'
          <6>1. \A k \in 1..li : ~MediaErrorIn(sub[k])
            BY <2>10, <4>2, <5>1
          <6>2. li >= 3 => ~MediaErrorIn(bound[2])
            BY <2>7, <6>1
          <6>3. SUFFICES ASSUME NEW p \in FilesNamed(plan[bi].inputs)
                         PROVE  WorkedOn(b, p)' \/ FoundSilent(b, p)'
            BY <1>3, <5>9 DEF Settled, GivenTo, FilesNamed
          <6>4. Covered(plan[bi], bound, li, o, p)
            BY <1>2, <1>4, <2>5, <2>13, <3>2, <4>1, <6>2, <6>3, BlockDone
          <6>5. CASE "outputs" \in DOMAIN o.result /\ \E m \in DOMAIN o.result.outputs : p \in Range(o.result.outputs[m].inputs)
            <7>1. Len(results) + 1 \in Reported(b, "outputs")'
              BY <2>2, <2>3, <5>9, <6>5 DEF Reported
            <7> QED BY <2>2, <2>3, <6>5, <7>1 DEF WorkedOn
          <6>6. CASE /\ plan[bi].tool = "extract_audio" /\ 2 \in 1..(li - 1) /\ "probes" \in DOMAIN bound[2]
                     /\ \E m \in DOMAIN bound[2].probes : bound[2].probes[m].file = p /\ ~bound[2].probes[m].sound
            <7>1. PICK k \in DOMAIN results : results[k].intent = bi /\ results[k].result = bound[2]
              BY <1>4, <6>6 DEF Recorded
            <7>2. k \in Reported(b, "probes")' /\ results'[k].result = bound[2]
              BY <2>3, <5>9, <6>6, <7>1 DEF Reported
            <7> QED BY <1>3, <5>9, <6>6, <7>2 DEF FoundSilent
          <6> QED BY <6>4, <6>5, <6>6 DEF Covered
        <5>4. \A i \in 1..(bi' - 1) : Settled(i)'
          <6>1. SUFFICES ASSUME NEW i \in 1..bi PROVE Settled(i)'
            BY <3>3, <4>1
          <6>2. CASE i = b
            BY <5>3, <6>2
          <6>3. CASE i # b
            <7>1. i \in 1..(bi - 1)
              BY <3>3, <5>9, <6>3
            <7> QED BY <1>4, <2>4, <4>2, <5>1, <7>1
          <6> QED BY <6>2, <6>3
        <5> QED BY <5>2, <5>4
      <4> QED BY <1>1, <1>8, <2>3, <3>3, <4>1, <4>2 DEF ToldInv, NoExit
    <3> QED BY <3>4, <3>5
  <2> QED BY <2>12, <2>13
<1> QED BY <1>9, <1>10

LEMMA PreviewTells ==
    ASSUME ToldInv, PreviewLeaf \/ PreviewEnds
    PROVE  ToldInv'
<1>1. Base' /\ phase = "preview" /\ UNCHANGED <<request, files, results, agreed, made, errors, exit>>
  <2>1. CASE PreviewLeaf
    BY <2>1, PreviewMoves DEF ToldInv, PreviewLeaf
  <2>2. CASE PreviewEnds
    BY <2>2, ToGateIs DEF ToldInv, PreviewEnds, request
  <2> QED BY <2>1, <2>2
<1>2. phase' = "preview" \/ (phase' = "gate" /\ bi' = 1)
  <2>1. CASE PreviewLeaf
    BY <1>1, <2>1, PreviewMoves DEF ToldInv, ToGate
  <2>2. CASE PreviewEnds
    BY <2>2 DEF PreviewEnds, ToGate
  <2> QED BY <2>1, <2>2
<1>3. ~errors /\ results = <<>> /\ exit = NoExit
  BY <1>1 DEF ToldInv
<1>4. DOMAIN results' = {}
  BY <1>1, <1>3
<1>5. AllPlaying'
  BY <1>4 DEF AllPlaying
<1> QED BY <1>1, <1>2, <1>3, <1>5, EmptySeq DEF ToldInv, NoExit

LEMMA QuietTells ==
    ASSUME ToldInv,
           \/ \E yes \in BOOLEAN : AskReplace(yes)
           \/ NobodyToAsk \/ GateOpen \/ Check \/ PlanDone
           \/ \E ok \in BOOLEAN : ShowIntent(ok)
    PROVE  ToldInv'
<1>1. Base' /\ Quiet /\ phase \in {"gate", "check", "intent"}
  BY ConsoleIsQuiet, QuietIs DEF ToldInv
<1>2. UNCHANGED errors /\ (phase' = "over" \/ (phase' # "over" /\ exit' = exit)) /\ (exit' = 0 => exit = 0 \/ ~errors)
  <2>1. CASE \E yes \in BOOLEAN : AskReplace(yes)
    <3>1. ~errors
      BY <2>1 DEF AskReplace, ToldInv
    <3> QED BY <2>1, <3>1 DEF AskReplace, End
  <2>2. CASE NobodyToAsk
    BY <2>2 DEF NobodyToAsk, End
  <2>3. CASE GateOpen
    BY <2>3 DEF GateOpen
  <2>4. CASE Check
    <3>1. ~errors
      BY <2>4 DEF Check, ToldInv
    <3> QED BY <2>4, <3>1 DEF Check, End
  <2>5. CASE PlanDone
    BY <2>5 DEF PlanDone, Finish, End
  <2>6. CASE \E ok \in BOOLEAN : ShowIntent(ok)
    BY <2>6 DEF ShowIntent, Finish, End
  <2> QED BY <2>1, <2>2, <2>3, <2>4, <2>5, <2>6
<1>3. UNCHANGED <<plan, call, files, bi, li, bound, results>>
  BY <1>1 DEF Quiet, request, place
<1>4. phase # "over" /\ exit = NoExit /\ results \in Seq(Range(results)) /\ (exit' = 0 => ~errors')
  BY <1>1, <1>2 DEF ToldInv, NoExit
<1>5. phase' \in {"gate", "check"} => ~errors' /\ results' = <<>>
  BY <1>1, <1>2, <1>3 DEF Quiet, ToldInv
<1>6. phase' = "leaf" => RealTold(plan[bi], bound, li)' /\ Recorded'
  <2>1. SUFFICES ASSUME phase' = "leaf" PROVE RealTold(plan[bi], bound, li)' /\ Recorded'
    OBVIOUS
  <2>2. li' = 1
    BY <1>1, <1>3, <2>1 DEF Quiet, Base, ToldInv
  <2> QED BY <2>2 DEF RealTold, Recorded
<1>7. \A i \in 1..(bi - 1) : Settled(i) => Settled(i)'
  BY <1>3 DEF Settled, GivenTo, WorkedOn, FoundSilent, Reported
<1>8. AllPlaying => AllPlaying'
  BY <1>3 DEF AllPlaying, Playing, SampledSince
<1>9. Loud' = Loud /\ phase' # "preview"
  BY <1>1, <1>3 DEF Loud, Quiet
<1>10. ~errors' /\ Loud' => (\A i \in 1..(bi' - 1) : Settled(i)') /\ AllPlaying'
  BY <1>1, <1>2, <1>3, <1>4, <1>7, <1>8, <1>9 DEF ToldInv, NoExit
<1> QED BY <1>1, <1>2, <1>3, <1>4, <1>5, <1>6, <1>9, <1>10 DEF ToldInv

LEMMA PutTells ==
    ASSUME ToldInv, NEW p, Put(p)
    PROVE  ToldInv'
<1>1. /\ Base' /\ UNCHANGED <<request, phase, place, found, agreed, made, results, errors, exit>>
      /\ DOMAIN files' = DOMAIN files \cup {p} /\ \A q \in DOMAIN files : files'[q] = files[q]
  BY PutIs DEF ToldInv
<1>2. UNCHANGED <<plan, call, phase, bi, li, bound, results, errors, exit>>
  BY <1>1 DEF request, place
<1>3. \A i \in 1..(bi - 1) : Settled(i) => Settled(i)'
  BY <1>2 DEF Settled, GivenTo, WorkedOn, FoundSilent, Reported
<1>4. AllPlaying => AllPlaying'
  BY <1>1, <1>2 DEF AllPlaying, Playing, SampledSince
<1>5. Loud' = Loud
  BY <1>2 DEF Loud
<1>6. (RealTold(plan[bi], bound, li) => RealTold(plan[bi], bound, li)') /\ (Recorded => Recorded')
  BY <1>2 DEF Recorded
<1> QED BY <1>1, <1>2, <1>3, <1>4, <1>5, <1>6 DEF ToldInv

LEMMA ToldHolds ==
    ASSUME ToldInv, [Next]_vars
    PROVE  ToldInv'
<1>1. CASE UNCHANGED vars
  <2>1. UNCHANGED <<plan, call, files, phase, bi, li, bound, results, errors, exit>>
    BY <1>1 DEF vars, request, place
  <2>2. Base'
    BY <1>1, BaseHolds DEF ToldInv
  <2>3. \A i \in 1..(bi - 1) : Settled(i) => Settled(i)'
    BY <2>1 DEF Settled, GivenTo, WorkedOn, FoundSilent, Reported
  <2>4. AllPlaying => AllPlaying'
    BY <2>1 DEF AllPlaying, Playing, SampledSince
  <2>5. Loud' = Loud /\ (Recorded => Recorded') /\ (RealTold(plan[bi], bound, li) => RealTold(plan[bi], bound, li)')
    BY <2>1 DEF Loud, Recorded
  <2> QED BY <2>1, <2>2, <2>3, <2>4, <2>5 DEF ToldInv
<1>2. CASE PreviewLeaf \/ PreviewEnds
  BY <1>2, PreviewTells
<1>3. CASE \/ \E yes \in BOOLEAN : AskReplace(yes)
           \/ NobodyToAsk \/ GateOpen \/ Check \/ PlanDone
           \/ \E ok \in BOOLEAN : ShowIntent(ok)
  BY <1>3, QuietTells
<1>4. CASE RunLeaf
  BY <1>4, RunTells
<1>5. CASE \E p \in DOMAIN Newcomers : Put(p)
  BY <1>5, PutTells
<1> QED BY <1>1, <1>2, <1>3, <1>4, <1>5 DEF Next

LEMMA ToldAtTheEnd ==
    ASSUME ToldInv
    PROVE  FailuresAreTold
<1>1. SUFFICES ASSUME exit = 0, Loud
               PROVE  /\ \A i \in 1..(bi - 1) : Settled(i)
                      /\ \A k \in DOMAIN results : "outputs" \in DOMAIN results[k].result =>
                            \A m \in DOMAIN results[k].result.outputs : Playing(k, m)
  BY DEF FailuresAreTold, Settled, Playing, Reported, Loud
<1>2. ~errors /\ phase = "over"
  BY <1>1 DEF ToldInv, NoExit
<1>3. (\A i \in 1..(bi - 1) : Settled(i)) /\ AllPlaying
  BY <1>1, <1>2 DEF ToldInv
<1> QED BY <1>3 DEF AllPlaying

\* A run that ends well and was not told to keep quiet has worked on every file
\* that its plan named, or found it silent where sound was asked for; and what
\* it says it wrote is there and plays, unless a later sample took its place
\* (app.py:640-660; steps.py:30-50, 313-360; _reporting.py:215-287).
THEOREM MediaTellsFailures == Spec => []FailuresAreTold
<1>1. Init => ToldInv
  BY ToldStarts
<1>2. ToldInv /\ [Next]_vars => ToldInv'
  BY ToldHolds
<1>3. ToldInv => FailuresAreTold
  BY ToldAtTheEnd
<1> QED BY <1>1, <1>2, <1>3, PTL DEF Spec
=============================================================================
