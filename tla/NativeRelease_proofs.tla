------------------------ MODULE NativeRelease_proofs ------------------------
(* For every corpus, bar, set of places and bound: the release bench runs    *)
(* the store as ReplyStore does, and what it accepts was answered on one     *)
(* stack, with the safety corpus of the day and a cold start that held.      *)
EXTENDS NativeRelease, TLAPS

---------------------------------------------------------------------------
\* The store of replies (ReplyStore).

\* What waits in staging was computed by this build, and where the run is.
Staged ==
    lane.phase \in {"check", "move"} =>
        \A p \in DOMAIN staging :
            /\ staging[p].by = build
            /\ lane.place # Nowhere => staging[p].says = Namespace

\* What the namespace has gained since the first replay, this build computed.
Gained ==
    (\/ lane.phase = "record" /\ lane.mode = "store"
     \/ lane.phase \in {"check", "move", "stamp"}) =>
        \A p \in Held \ lane.held : store[Namespace][p].by = build

\* The inductive invariant.
StoreInv ==
    /\ TypeOK
    /\ StoreIsPure
    /\ StampsAreTrue
    /\ Staged
    /\ Gained

---------------------------------------------------------------------------
\* A run's namespace is one of the store's.
LEMMA NamespaceIsKnown ==
    ASSUME TypeOK
    PROVE  Namespace \in Namespaces
BY DEF TypeOK, Namespace, Namespaces, Codes

\* A planned row asks for prompts of the corpus.
LEMMA PromptsAreTyped ==
    ASSUME TypeOK, NEW rows \in SUBSET Rows
    PROVE  PromptsOfAll(rows) \subseteq Prompts
BY DEF TypeOK, PromptsOfAll, PromptsOf, Prompts, Wordings

\* The model's answer is a reply.
LEMMA RepliesAreTyped ==
    ASSUME TypeOK, NEW ran \in Places
    PROVE  ReplyAt(ran) \in Replies
BY DEF TypeOK, ReplyAt, Replies, Codes

\* The lane at rest is a lane.
LEMMA IdleIsALane ==
    /\ Idle.phase = "idle"
    /\ Idle.words \in Wordings
    /\ Idle \in [phase : Phases, mode : Modes, population : Populations, place : Spots,
                 want : SUBSET Rows, live : SUBSET Rows, words : Wordings,
                 misses : SUBSET Rows, held : SUBSET Prompts, ran : SUBSET Places]
BY BoundsAreNumbers DEF Idle, Phases, Modes, Populations, Spots, Wordings

\* Nothing is planned, stored or stamped at first.
LEMMA InitHolds == Init => StoreInv
<1> SUFFICES ASSUME Init PROVE StoreInv
  OBVIOUS
<1>1. TypeOK
  BY IdleIsALane, BoundsAreNumbers, BuildsAreNumbered
  DEF Init, TypeOK, Wordings, IsPartial, Empty
<1>2. StoreIsPure /\ StampsAreTrue
  BY DEF Init, StoreIsPure, StampsAreTrue, Empty
<1>3. Staged /\ Gained
  BY IdleIsALane DEF Init, Staged, Gained
<1> QED
  BY <1>1, <1>2, <1>3 DEF StoreInv

---------------------------------------------------------------------------
\* Rewording, freezing, starting and stopping leave what is stored alone.

\* The lane is at rest afterwards, and store, stamps and staging are as they
\* were.
LEMMA RestKeeps ==
    ASSUME StoreInv, lane' = Idle, UNCHANGED <<words, build, runs, store, recorded, staging>>
    PROVE  StoreInv'
<1>1. TypeOK'
  BY IdleIsALane DEF StoreInv, TypeOK, IsPartial
<1>2. StoreIsPure' /\ StampsAreTrue'
  BY DEF StoreInv, StoreIsPure, StampsAreTrue
<1>3. Staged' /\ Gained'
  BY IdleIsALane DEF Staged, Gained
<1> QED
  BY <1>1, <1>2, <1>3 DEF StoreInv

LEMMA RewordKeeps ==
    ASSUME StoreInv, NEW r \in Edited, Reword(r)
    PROVE  StoreInv'
<1>1. words' \in Wordings
  BY BoundsAreNumbers, RowsAreDescribed DEF StoreInv, TypeOK, Reword, Wordings
<1>2. TypeOK'
  BY <1>1 DEF StoreInv, TypeOK, Reword, IsPartial
<1> QED
  BY <1>2 DEF StoreInv, Reword, StoreIsPure, StampsAreTrue, Staged, Gained, Held, Namespace

LEMMA FreezeKeeps ==
    ASSUME StoreInv, Freeze
    PROVE  StoreInv'
<1>1. TypeOK'
  BY DEF StoreInv, TypeOK, Freeze, IsPartial
<1>2. StoreIsPure' /\ StampsAreTrue' /\ Staged' /\ Gained'
  BY DEF StoreInv, Freeze, StoreIsPure, StampsAreTrue, Staged, Gained
<1> QED
  BY <1>1, <1>2 DEF StoreInv

LEMMA StartKeeps ==
    ASSUME StoreInv, NEW command \in Commands, StartRun(command)
    PROVE  StoreInv'
<1>1. PICK place \in Spots :
          lane' = [Idle EXCEPT !.phase = FirstPhase[command.mode], !.mode = command.mode,
                               !.population = command.population, !.want = command.want,
                               !.live = command.live, !.place = place, !.words = words]
  BY DEF StartRun
<1>2. /\ command.mode \in Modes
      /\ command.population \in Populations
      /\ command.want \in SUBSET Rows
      /\ command.live \in SUBSET Rows
  BY CommandsAreLegal
<1>3. FirstPhase[command.mode] \in Phases
  BY <1>2 DEF FirstPhase, Modes, Phases
<1>4. words \in Wordings
  BY DEF StoreInv, TypeOK
<1>5. lane' \in [phase : Phases, mode : Modes, population : Populations, place : Spots,
                 want : SUBSET Rows, live : SUBSET Rows, words : Wordings,
                 misses : SUBSET Rows, held : SUBSET Prompts, ran : SUBSET Places]
  BY <1>1, <1>2, <1>3, <1>4, IdleIsALane
<1>6. runs' \in 0..MaxRuns
  BY BoundsAreNumbers DEF StoreInv, TypeOK, StartRun
<1>7. TypeOK'
  BY <1>5, <1>6 DEF StoreInv, TypeOK, StartRun, IsPartial
<1>8. lane'.phase = FirstPhase[command.mode] /\ lane'.mode = command.mode
  BY <1>1, IdleIsALane
<1>9. Staged' /\ Gained'
  BY <1>2, <1>8 DEF Staged, Gained, FirstPhase, Modes
<1>10. StoreIsPure' /\ StampsAreTrue'
  BY DEF StoreInv, StartRun, StoreIsPure, StampsAreTrue
<1> QED
  BY <1>7, <1>9, <1>10 DEF StoreInv

\* A step of the lane that touches nothing but its phase, its misses, what it
\* saw held and where its batch ran.
LEMMA LaneStepIsTyped ==
    ASSUME TypeOK, NEW phase \in Phases, NEW misses \in SUBSET Rows, NEW held \in SUBSET Prompts,
           NEW ran \in SUBSET Places,
           lane' = [lane EXCEPT !.phase = phase, !.misses = misses, !.held = held, !.ran = ran],
           UNCHANGED <<words, build, runs, store, recorded, staging>>
    PROVE  /\ TypeOK'
           /\ lane'.phase = phase /\ lane'.held = held
           /\ lane'.mode = lane.mode /\ lane'.place = lane.place
           /\ Namespace' = Namespace /\ Held' = Held
BY DEF TypeOK, IsPartial, Namespace, Held
---------------------------------------------------------------------------
\* The steps of a run.

LEMMA FirstReplayKeeps ==
    ASSUME StoreInv, FirstReplay
    PROVE  StoreInv'
<1> DEFINE phase == IF Misses = {} THEN "ready" ELSE "record"
<1>1. Namespace \in Namespaces /\ Held \in SUBSET Prompts
  BY NamespaceIsKnown DEF StoreInv, TypeOK, IsPartial, Held
<1>2. Misses \in SUBSET Rows /\ phase \in Phases /\ lane.ran \in SUBSET Places
  BY DEF StoreInv, TypeOK, Misses, Phases
<1>3. lane' = [lane EXCEPT !.phase = phase, !.misses = Misses, !.held = Held, !.ran = lane.ran]
  BY DEF StoreInv, TypeOK, FirstReplay
<1>4. /\ TypeOK'
      /\ lane'.phase = phase /\ lane'.held = Held /\ Held' = Held
  <2>1. TypeOK /\ UNCHANGED <<words, build, runs, store, recorded, staging>>
    BY DEF StoreInv, FirstReplay
  <2> HIDE DEF phase
  <2> QED
    BY <1>1, <1>2, <1>3, <2>1, LaneStepIsTyped
<1>5. Staged' /\ Gained'
  BY <1>4 DEF Staged, Gained
<1>6. StoreIsPure' /\ StampsAreTrue'
  BY DEF StoreInv, FirstReplay, StoreIsPure, StampsAreTrue
<1> QED
  BY <1>4, <1>5, <1>6 DEF StoreInv

\* Only a batch that ran where the probe did is looked at further.
LEMMA RecordBatchKeeps ==
    ASSUME StoreInv, NEW ran \in Places, RecordBatch(ran)
    PROVE  StoreInv'
<1>1. PromptsOfAll(lane.misses) \in SUBSET Prompts /\ ReplyAt(ran) \in Replies
  BY PromptsAreTyped, RepliesAreTyped DEF StoreInv, TypeOK
<1>2. /\ DOMAIN staging' = PromptsOfAll(lane.misses)
      /\ \A p \in DOMAIN staging' : staging'[p] = ReplyAt(ran)
      /\ IsPartial(staging', Prompts, Replies)
  BY <1>1 DEF RecordBatch, IsPartial
<1>3. StoreIsPure' /\ StampsAreTrue'
  BY DEF StoreInv, RecordBatch, StoreIsPure, StampsAreTrue
<1>4. CASE PlacedWell(ran)
  <2>1. lane' = [lane EXCEPT !.phase = "check"]
    BY <1>4 DEF RecordBatch
  <2>2. /\ TypeOK'
        /\ lane'.place = lane.place /\ lane'.held = lane.held
        /\ Namespace' = Namespace /\ Held' = Held
    BY <1>2, <2>1 DEF StoreInv, TypeOK, RecordBatch, Phases, Namespace, Held, IsPartial
  <2>3. Staged'
    BY <1>2, <1>4, <2>2 DEF Staged, RecordBatch, ReplyAt, PlacedWell, Namespace
  <2>4. Gained'
    BY <2>2 DEF StoreInv, Gained, RecordBatch
  <2> QED
    BY <1>3, <2>2, <2>3, <2>4 DEF StoreInv
<1>5. CASE ~ PlacedWell(ran)
  <2>1. lane' = Idle
    BY <1>5 DEF RecordBatch
  <2>2. TypeOK'
    BY <1>2, <2>1, IdleIsALane DEF StoreInv, TypeOK, RecordBatch, IsPartial
  <2>3. Staged' /\ Gained'
    BY <2>1, IdleIsALane DEF Staged, Gained
  <2> QED
    BY <1>3, <2>2, <2>3 DEF StoreInv
<1> QED
  BY <1>4, <1>5

LEMMA BatchDiesKeeps ==
    ASSUME StoreInv, NEW ran \in Places, BatchDies(ran)
    PROVE  StoreInv'
<1>1. PICK written \in SUBSET PromptsOfAll(lane.misses) :
          staging' = [p \in written |-> ReplyAt(ran)]
  BY DEF BatchDies
<1>2. PromptsOfAll(lane.misses) \in SUBSET Prompts /\ ReplyAt(ran) \in Replies
  BY PromptsAreTyped, RepliesAreTyped DEF StoreInv, TypeOK
<1>3. IsPartial(staging', Prompts, Replies)
  BY <1>1, <1>2 DEF IsPartial
<1>4. TypeOK'
  BY <1>3, IdleIsALane DEF StoreInv, TypeOK, BatchDies, IsPartial
<1>5. Staged' /\ Gained'
  BY IdleIsALane DEF BatchDies, Staged, Gained
<1>6. StoreIsPure' /\ StampsAreTrue'
  BY DEF StoreInv, BatchDies, StoreIsPure, StampsAreTrue
<1> QED
  BY <1>4, <1>5, <1>6 DEF StoreInv

\* A lane step to a phase that claims nothing of staging.
LEMMA PhaseKeeps ==
    ASSUME StoreInv, NEW phase \in Phases \ {"record", "check", "move", "stamp"},
           NEW ran \in SUBSET Places, lane' = [lane EXCEPT !.phase = phase, !.ran = ran],
           UNCHANGED <<words, build, runs, store, recorded, staging>>
    PROVE  StoreInv'
<1>1. lane' = [lane EXCEPT !.phase = phase, !.misses = lane.misses, !.held = lane.held, !.ran = ran]
  BY DEF StoreInv, TypeOK
<1>2. TypeOK' /\ lane'.phase = phase
  BY <1>1, LaneStepIsTyped DEF StoreInv, TypeOK
<1>3. Staged' /\ Gained'
  BY <1>2 DEF Staged, Gained
<1>4. StoreIsPure' /\ StampsAreTrue'
  BY DEF StoreInv, StoreIsPure, StampsAreTrue
<1> QED
  BY <1>2, <1>3, <1>4 DEF StoreInv

LEMMA PlanBatchKeeps ==
    ASSUME StoreInv, NEW ran \in Places, PlanBatch(ran)
    PROVE  StoreInv'
<1>1. CASE PlacedWell(ran)
  <2>1. lane' = [lane EXCEPT !.phase = "ready", !.ran = {ran}]
    BY <1>1 DEF PlanBatch
  <2>2. "ready" \in Phases \ {"record", "check", "move", "stamp"} /\ {ran} \in SUBSET Places
    BY DEF Phases
  <2>3. UNCHANGED <<words, build, runs, store, recorded, staging>>
    BY DEF PlanBatch
  <2> QED
    BY <2>1, <2>2, <2>3, PhaseKeeps
<1>2. CASE ~ PlacedWell(ran)
  BY <1>2, RestKeeps DEF PlanBatch
<1> QED
  BY <1>1, <1>2

LEMMA CheckRepliesKeeps ==
    ASSUME StoreInv, CheckReplies
    PROVE  StoreInv'
<1>1. CASE Conflicts = {}
  <2>1. lane' = [lane EXCEPT !.phase = "move", !.misses = lane.misses, !.held = lane.held, !.ran = lane.ran]
    BY <1>1 DEF StoreInv, TypeOK, CheckReplies
  <2>2. /\ TypeOK'
        /\ lane'.place = lane.place /\ lane'.held = lane.held
        /\ Namespace' = Namespace /\ Held' = Held
    <3>1. "move" \in Phases /\ lane.misses \in SUBSET Rows /\ lane.held \in SUBSET Prompts /\ lane.ran \in SUBSET Places
      BY DEF StoreInv, TypeOK, Phases
    <3>2. TypeOK /\ UNCHANGED <<words, build, runs, store, recorded, staging>>
      BY DEF StoreInv, CheckReplies
    <3> QED
      BY <2>1, <3>1, <3>2, LaneStepIsTyped
  <2>3. Staged' /\ Gained'
    BY <2>2 DEF StoreInv, CheckReplies, Staged, Gained
  <2> QED
    BY <2>2, <2>3 DEF StoreInv, CheckReplies, StoreIsPure, StampsAreTrue
<1>2. CASE Conflicts # {}
  BY <1>2, RestKeeps DEF CheckReplies
<1> QED
  BY <1>1, <1>2

\* A reply moves to a place of the namespace where there was none.
LEMMA MoveIsAnAddition ==
    ASSUME StoreInv, NEW p \in Prompts, MoveReply(p)
    PROVE  /\ p \in DOMAIN staging /\ p \notin Held
           /\ Namespace \in Namespaces
           /\ Namespace' = Namespace
           /\ DOMAIN store' = Namespaces
           /\ DOMAIN store'[Namespace] = Held \cup {p}
           /\ store'[Namespace][p] = staging[p]
           /\ \A q \in Held : store'[Namespace][q] = store[Namespace][q]
           /\ \A n \in Namespaces \ {Namespace} : store'[n] = store[n]
<1>1. p \in DOMAIN staging /\ p \notin Held
  BY DEF MoveReply, ToMove
<1>2. Namespace \in Namespaces /\ DOMAIN store = Namespaces
  BY NamespaceIsKnown DEF StoreInv, TypeOK
<1>3. Namespace' = Namespace
  BY DEF MoveReply, Namespace
<1>4. store' = [store EXCEPT ![Namespace] =
                   [q \in Held \cup {p} |-> IF q = p THEN staging[p] ELSE store[Namespace][q]]]
  BY DEF MoveReply
<1>5. store'[Namespace] = [q \in Held \cup {p} |-> IF q = p THEN staging[p] ELSE store[Namespace][q]]
  BY <1>2, <1>4
<1> QED
  BY <1>1, <1>2, <1>3, <1>4, <1>5

LEMMA MoveReplyKeeps ==
    ASSUME StoreInv, NEW p \in Prompts, MoveReply(p)
    PROVE  StoreInv'
<1>1. /\ p \in DOMAIN staging /\ p \notin Held
      /\ Namespace \in Namespaces
      /\ Namespace' = Namespace
      /\ DOMAIN store' = Namespaces
      /\ DOMAIN store'[Namespace] = Held \cup {p}
      /\ store'[Namespace][p] = staging[p]
      /\ \A q \in Held : store'[Namespace][q] = store[Namespace][q]
      /\ \A n \in Namespaces \ {Namespace} : store'[n] = store[n]
  BY MoveIsAnAddition
<1>2. staging[p] \in Replies /\ IsPartial(store[Namespace], Prompts, Replies)
  BY <1>1 DEF StoreInv, TypeOK, IsPartial
<1>3. store'[Namespace] = [q \in Held \cup {p} |-> IF q = p THEN staging[p] ELSE store[Namespace][q]]
  BY <1>1 DEF MoveReply, StoreInv, TypeOK
<1>4. IsPartial(store'[Namespace], Prompts, Replies)
  BY <1>2, <1>3 DEF IsPartial, Held
<1>5. \A n \in Namespaces : IsPartial(store'[n], Prompts, Replies)
  BY <1>1, <1>4 DEF StoreInv, TypeOK
<1>6. /\ DOMAIN staging' = DOMAIN staging \ {p}
      /\ \A q \in DOMAIN staging' : staging'[q] = staging[q]
      /\ IsPartial(staging', Prompts, Replies)
  BY DEF StoreInv, TypeOK, MoveReply, IsPartial
<1>7. TypeOK'
  BY <1>1, <1>5, <1>6 DEF StoreInv, TypeOK, MoveReply
<1>8. StoreIsPure'
  <2>1. Namespace[2] = lane.place
    BY DEF Namespace
  <2>2. Namespace[2] # Nowhere => staging[p].says = Namespace
    BY <1>1, <2>1 DEF StoreInv, Staged, MoveReply
  <2>3. Namespace[2] # Nowhere => \A q \in DOMAIN store'[Namespace] : store'[Namespace][q].says = Namespace
    BY <1>1, <2>2 DEF StoreInv, StoreIsPure, Held
  <2> QED
    BY <1>1, <2>3 DEF StoreInv, StoreIsPure
<1>9. StampsAreTrue'
  BY <1>1 DEF StoreInv, TypeOK, StampsAreTrue, MoveReply, Held
<1>10. Staged'
  BY <1>1, <1>6 DEF StoreInv, Staged, MoveReply
<1>11. Gained'
  <2>1. staging[p].by = build /\ build' = build /\ lane' = lane
    BY <1>1 DEF StoreInv, Staged, MoveReply
  <2>2. Held' = Held \cup {p}
    BY <1>1 DEF Held
  <2>3. \A q \in Held \ lane.held : store[Namespace][q].by = build
    BY DEF StoreInv, Gained, MoveReply
  <2> QED
    BY <1>1, <2>1, <2>2, <2>3 DEF Gained
<1> QED
  BY <1>7, <1>8, <1>9, <1>10, <1>11 DEF StoreInv

LEMMA MovedKeeps ==
    ASSUME StoreInv, Moved
    PROVE  StoreInv'
<1>1. IsPartial(staging', Prompts, Replies)
  BY DEF Moved, Empty, IsPartial
<1>2. TypeOK' /\ Namespace' = Namespace /\ Held' = Held /\ lane'.held = lane.held /\ lane'.phase = "stamp"
  BY <1>1 DEF StoreInv, TypeOK, Moved, Phases, Namespace, Held
<1>3. Staged' /\ Gained'
  BY <1>2 DEF StoreInv, Moved, Staged, Gained
<1> QED
  BY <1>2, <1>3 DEF StoreInv, Moved, StoreIsPure, StampsAreTrue

\* What is stamped now is what the namespace gained.
LEMMA StampKeeps ==
    ASSUME StoreInv, Stamp
    PROVE  StoreInv'
<1>1. Namespace \in Namespaces /\ build \in Builds /\ NewReplies \in SUBSET Prompts
  BY NamespaceIsKnown DEF StoreInv, TypeOK, NewReplies, Held, IsPartial
<1>2. recorded' \subseteq [ns : Namespaces, prompt : Prompts, by : Builds]
  BY <1>1 DEF StoreInv, TypeOK, Stamp
<1>3. lane' \in [phase : Phases, mode : Modes, population : Populations, place : Spots,
                 want : SUBSET Rows, live : SUBSET Rows, words : Wordings,
                 misses : SUBSET Rows, held : SUBSET Prompts, ran : SUBSET Places]
      /\ lane'.phase = "again"
  BY DEF StoreInv, TypeOK, Stamp, Phases
<1>4. TypeOK'
  BY <1>2, <1>3 DEF StoreInv, TypeOK, Stamp
<1>5. \A p \in NewReplies : p \in DOMAIN store[Namespace] /\ store[Namespace][p].by = build
  BY DEF StoreInv, Gained, Stamp, NewReplies, Held
<1>6. StampsAreTrue'
  BY <1>5 DEF StoreInv, StampsAreTrue, Stamp
<1>7. Staged' /\ Gained'
  BY <1>3 DEF Staged, Gained
<1> QED
  BY <1>4, <1>6, <1>7 DEF StoreInv, Stamp, StoreIsPure

LEMMA SecondReplayKeeps ==
    ASSUME StoreInv, SecondReplay
    PROVE  StoreInv'
<1>1. CASE Misses = {}
  <2>1. lane' = [lane EXCEPT !.phase = "ready", !.ran = lane.ran] /\ lane.ran \in SUBSET Places
    BY <1>1 DEF StoreInv, TypeOK, SecondReplay
  <2> QED
    BY <2>1, PhaseKeeps DEF SecondReplay, Phases
<1>2. CASE Misses # {}
  BY <1>2, RestKeeps DEF SecondReplay
<1> QED
  BY <1>1, <1>2

---------------------------------------------------------------------------
LEMMA NextKeeps == StoreInv /\ [StoreNext]_storeVars => StoreInv'
<1> SUFFICES ASSUME StoreInv, [StoreNext]_storeVars PROVE StoreInv'
  OBVIOUS
<1>1. CASE \E r \in Edited : Reword(r)
  BY <1>1, RewordKeeps
<1>2. CASE Freeze
  BY <1>2, FreezeKeeps
<1>3. CASE \E command \in Commands : StartRun(command)
  BY <1>3, StartKeeps
<1>4. CASE Plan
  <2>1. CASE FirstReplay
    BY <2>1, FirstReplayKeeps
  <2>2. CASE \E ran \in Places : RecordBatch(ran) \/ BatchDies(ran) \/ PlanBatch(ran)
    BY <2>2, RecordBatchKeeps, BatchDiesKeeps, PlanBatchKeeps
  <2>3. CASE CheckReplies
    BY <2>3, CheckRepliesKeeps
  <2>4. CASE \E p \in Prompts : MoveReply(p)
    BY <2>4, MoveReplyKeeps
  <2>5. CASE Moved
    BY <2>5, MovedKeeps
  <2>6. CASE Stamp
    BY <2>6, StampKeeps
  <2>7. CASE SecondReplay
    BY <2>7, SecondReplayKeeps
  <2>8. CASE Crash
    BY <2>8, RestKeeps DEF Crash
  <2> QED
    BY <1>4, <2>1, <2>2, <2>3, <2>4, <2>5, <2>6, <2>7, <2>8 DEF Plan
<1>5. CASE UNCHANGED storeVars
  BY <1>5 DEF storeVars, StoreInv, TypeOK, IsPartial, StoreIsPure, StampsAreTrue, Staged, Gained, Held, Namespace
<1> QED
  BY <1>1, <1>2, <1>3, <1>4, <1>5 DEF StoreNext

\* A namespace that names its place holds only what was computed there by its
\* own inference code, and every stamp names the build that computed what it
\* stamps, through any run, crash and fall-back (native_lane.py, cli.py).
THEOREM StoreIsSound == StoreSpec => [](TypeOK /\ StoreIsPure /\ StampsAreTrue)
<1>1. StoreSpec => []StoreInv
  BY InitHolds, NextKeeps, PTL DEF StoreSpec
<1>2. StoreInv => TypeOK /\ StoreIsPure /\ StampsAreTrue
  BY DEF StoreInv
<1> QED
  BY <1>1, <1>2, PTL

\* No step replaces or drops a reply of the store (native_lane.py,
\* promote_replies).
THEOREM StoreOnlyGains == StoreSpec => RepliesWrittenOnce
<1> DEFINE Kept ==
      \A n \in Namespaces : \A p \in DOMAIN store[n] :
          p \in DOMAIN store'[n] /\ store'[n][p] = store[n][p]
<1>1. ASSUME StoreInv, [StoreNext]_storeVars PROVE Kept
  <2>1. CASE \E p \in Prompts : MoveReply(p)
    <3>1. PICK p \in Prompts : MoveReply(p)
      BY <2>1
    <3> QED
      BY <1>1, <3>1, MoveIsAnAddition DEF Held
  <2>2. CASE UNCHANGED store
    BY <2>2
  <2> QED
    BY <1>1, <2>1, <2>2
    DEF StoreNext, Plan, Reword, Freeze, StartRun, FirstReplay, RecordBatch, BatchDies, PlanBatch,
        CheckReplies, Moved, Stamp, SecondReplay, Crash, storeVars
<1>2. StoreInv /\ [StoreNext]_storeVars => [Kept]_storeVars
  BY <1>1
<1>3. StoreSpec => []StoreInv
  BY InitHolds, NextKeeps, PTL DEF StoreSpec
<1> QED
  BY <1>2, <1>3, PTL DEF StoreSpec, RepliesWrittenOnce

---------------------------------------------------------------------------
\* The release bench (NativeRelease).

\* A run that is ready has every prompt it asks for, or a batch of its place.
Planned ==
    lane.phase = "ready" =>
        /\ lane.mode = "store" => Misses = {}
        /\ lane.mode = "batch" /\ lane.place # Nowhere => lane.ran \subseteq {lane.place}

\* Only a run with a store replays, records, promotes and stamps.
StoreRun == lane.phase \in {"replay", "check", "move", "stamp", "again"} => lane.mode = "store"

StackNamed(b) == <<Inference[b.build], b.place>>

BoardsOnOneStack ==
    \A b \in boards : ~ b.composed /\ b.place # Nowhere =>
        \A r \in DOMAIN b.at : b.at[r] \subseteq {StackNamed(b)}

BoardsArePlanned == \A b \in boards : b.planning \in {"live", "batch"}

BoardsVouched ==
    \A b \in boards :
        (/\ ~ b.composed
         /\ b.planning = "live" \/ (b.population = "subset" /\ ColdStartHolds(b))) => b.vouched

SafetyOnOneStack == safety.place # Nowhere => safety.at = {StackNamed(safety)}

\* The committed subset is the one the corpus selects, at some wording.
SubsetSelected == subset.rows = SelectRows

\* What an accepted subset cell shows of today's subset.
SubsetShown == SubsetStandsToday /\ NoRowLost

\* The inductive invariant.
ReleaseInv ==
    /\ StoreInv
    /\ Planned
    /\ StoreRun
    /\ BoardsOnOneStack
    /\ BoardsArePlanned
    /\ BoardsVouched
    /\ SafetyOnOneStack
    /\ AcceptedOnOneStack
    /\ SafetyBacks
    /\ ColdStartBacks
    /\ SubsetSelected
    /\ SubsetShown

---------------------------------------------------------------------------
\* The bench implements the store: grading ends the run as a crash would, and
\* everything else it does on its own leaves the store alone.
LEMMA BenchStepIsAStoreStep == Next => [StoreNext]_storeVars
<1> SUFFICES ASSUME Next PROVE [StoreNext]_storeVars
  OBVIOUS
<1>1. CASE \E r \in Edited : Reword(r) /\ BenchRests
  BY <1>1 DEF StoreNext
<1>2. CASE Freeze /\ BenchRests
  BY <1>2 DEF StoreNext
<1>3. CASE \E command \in Commands : Select(command)
  BY <1>3 DEF StoreNext, Select
<1>4. CASE Plan /\ BenchRests
  BY <1>4 DEF StoreNext
<1>5. CASE Grade
  <2>1. Crash
    BY <1>5 DEF Grade, Crash
  <2> QED
    BY <2>1 DEF StoreNext, Plan
<1>6. CASE \E base, new \in boards : Compose(base, new)
  BY <1>6 DEF Compose, storeVars
<1>7. CASE \E place \in Spots, ran \in Places : RunSafety(place, ran)
  BY <1>7 DEF RunSafety, storeVars
<1>8. CASE AddSafetyRow \/ BumpPolicy \/ Lock \/ Derive
  BY <1>8 DEF AddSafetyRow, BumpPolicy, Lock, Derive, storeVars
<1>9. CASE \E board \in boards, population \in Populations : Accept(board, population)
  BY <1>9 DEF Accept, storeVars
<1> QED
  BY <1>1, <1>2, <1>3, <1>4, <1>5, <1>6, <1>7, <1>8, <1>9 DEF Next

---------------------------------------------------------------------------
\* What a run misses depends on its own corpus, the build and the store.
LEMMA MissesRest ==
    ASSUME build' = build, store' = store, lane'.want = lane.want, lane'.words = lane.words,
           lane'.place = lane.place
    PROVE  Misses' = Misses
<1>1. Held' = Held
  BY DEF Held, Namespace
<1>2. \A r \in lane.want : PromptsOf(r)' = PromptsOf(r)
  BY DEF PromptsOf
<1>3. \A r \in lane.want : (PromptsOf(r) \subseteq Held)' <=> PromptsOf(r) \subseteq Held
  BY <1>1, <1>2
<1>4. \A r : r \in Misses' <=> r \in Misses
  BY <1>3 DEF Misses
<1> QED
  BY <1>4

LEMMA PlannedKeeps ==
    ASSUME StoreInv, Planned, StoreRun, [StoreNext]_storeVars
    PROVE  Planned' /\ StoreRun'
<1>1. CASE \E r \in Edited : Reword(r)
  BY <1>1 DEF Reword, Planned, StoreRun, Misses, PromptsOf, Held, Namespace
<1>2. CASE Freeze
  BY <1>2 DEF Freeze, Planned, StoreRun
<1>3. CASE \E command \in Commands : StartRun(command)
  <2>1. PICK command \in Commands : StartRun(command)
    BY <1>3
  <2>2. command.mode \in Modes
    BY CommandsAreLegal
  <2>3. lane'.phase = FirstPhase[command.mode] /\ lane'.mode = command.mode
    BY <2>1, IdleIsALane DEF StartRun
  <2> QED
    BY <2>2, <2>3 DEF Planned, StoreRun, FirstPhase, Modes
<1>4. CASE FirstReplay
  <2>1. /\ lane' = [lane EXCEPT !.phase = IF Misses = {} THEN "ready" ELSE "record",
                                !.misses = Misses, !.held = Held]
        /\ lane.phase = "replay" /\ build' = build /\ store' = store
    BY <1>4 DEF FirstReplay
  <2>2. /\ lane'.want = lane.want /\ lane'.words = lane.words /\ lane'.place = lane.place
        /\ lane'.mode = lane.mode /\ lane'.phase = IF Misses = {} THEN "ready" ELSE "record"
    BY <2>1 DEF StoreInv, TypeOK
  <2>3. Misses' = Misses
    BY <2>1, <2>2, MissesRest
  <2>4. lane'.mode = "store"
    BY <2>1, <2>2 DEF StoreRun
  <2> QED
    BY <2>2, <2>3, <2>4 DEF Planned, StoreRun
<1>5. CASE \E ran \in Places : PlanBatch(ran)
  <2>1. PICK ran \in Places : PlanBatch(ran)
    BY <1>5
  <2>2. CASE PlacedWell(ran)
    <3>1. lane' = [lane EXCEPT !.phase = "ready", !.ran = {ran}]
      BY <2>1, <2>2 DEF PlanBatch
    <3>2. lane'.mode = "batch" /\ lane'.ran = {ran} /\ lane'.place = lane.place /\ lane'.phase = "ready"
      BY <2>1, <3>1 DEF PlanBatch, StoreInv, TypeOK
    <3> QED
      BY <2>2, <3>2 DEF PlacedWell, Planned, StoreRun
  <2>3. CASE ~ PlacedWell(ran)
    BY <2>1, <2>3, IdleIsALane DEF PlanBatch, Planned, StoreRun
  <2> QED
    BY <2>2, <2>3
<1>6. CASE SecondReplay
  <2>1. CASE Misses = {}
    <3>1. /\ lane' = [lane EXCEPT !.phase = "ready"]
          /\ lane.phase = "again" /\ build' = build /\ store' = store
      BY <1>6, <2>1 DEF SecondReplay
    <3>2. /\ lane'.want = lane.want /\ lane'.words = lane.words /\ lane'.place = lane.place
          /\ lane'.mode = lane.mode /\ lane'.phase = "ready"
      BY <3>1 DEF StoreInv, TypeOK
    <3>3. Misses' = {}
      BY <2>1, <3>1, <3>2, MissesRest
    <3> QED
      BY <3>1, <3>2, <3>3 DEF Planned, StoreRun
  <2>2. CASE Misses # {}
    BY <1>6, <2>2, IdleIsALane DEF SecondReplay, Planned, StoreRun
  <2> QED
    BY <2>1, <2>2
<1>7. CASE \E ran \in Places : RecordBatch(ran)
  <2>1. lane.mode = "store" /\ (lane' = [lane EXCEPT !.phase = "check"] \/ lane' = Idle)
    BY <1>7 DEF RecordBatch
  <2> QED
    BY <2>1, IdleIsALane DEF Planned, StoreRun, StoreInv, TypeOK
<1>8. CASE CheckReplies \/ Moved \/ Stamp
  <2>1. /\ lane.phase \in {"check", "move", "stamp"}
        /\ \/ \E phase \in {"move", "stamp", "again"} : lane' = [lane EXCEPT !.phase = phase]
           \/ lane' = Idle
    BY <1>8 DEF CheckReplies, Moved, Stamp
  <2> QED
    BY <2>1, IdleIsALane DEF Planned, StoreRun, StoreInv, TypeOK
<1>9. CASE \E p \in Prompts : MoveReply(p)
  BY <1>9 DEF MoveReply, Planned, StoreRun
<1>10. CASE Crash \/ \E ran \in Places : BatchDies(ran)
  BY <1>10, IdleIsALane DEF Crash, BatchDies, Planned, StoreRun
<1>11. CASE UNCHANGED storeVars
  BY <1>11 DEF storeVars, Planned, StoreRun, Misses, PromptsOf, Held, Namespace
<1> QED
  BY <1>1, <1>2, <1>3, <1>4, <1>5, <1>6, <1>7, <1>8, <1>9, <1>10, <1>11 DEF StoreNext, Plan
---------------------------------------------------------------------------
\* A row's answer comes from the stack of the run, whichever way it was planned.
LEMMA RowsOnOneStack ==
    ASSUME ReleaseInv, lane.phase = "ready", lane.place # Nowhere,
           NEW ran \in [LiveRows -> Places], RowsPlaced(ran), NEW r \in lane.want
    PROVE  StackOf(r, ran) \subseteq {<<Inference[build], lane.place>>}
<1>1. lane.mode \in {"live", "batch", "store"} /\ lane.want \subseteq Rows
  BY DEF ReleaseInv, StoreInv, TypeOK, Modes
<1>2. CASE r \in Unsafe
  BY <1>2 DEF StackOf
<1>3. CASE r \in LiveRows \ Unsafe
  <2>1. ran[r] = lane.place
    BY <1>3 DEF RowsPlaced, PlacedWell
  <2>2. StackOf(r, ran) = {<<Inference[build], ran[r]>>}
    BY <1>3 DEF StackOf
  <2> QED
    BY <2>1, <2>2
<1>4. CASE r \notin LiveRows \cup Unsafe /\ lane.mode = "batch"
  <2>1. StackOf(r, ran) = {<<Inference[build], p>> : p \in lane.ran}
    BY <1>4 DEF StackOf
  <2>2. lane.ran \subseteq {lane.place}
    BY <1>4 DEF ReleaseInv, Planned
  <2> QED
    BY <2>1, <2>2
<1>5. CASE r \notin LiveRows \cup Unsafe /\ lane.mode = "store"
  <2>1. StackOf(r, ran) = {store[Namespace][p].says : p \in PromptsOf(r)}
    BY <1>5 DEF StackOf
  <2>2. PromptsOf(r) \subseteq Held
    BY <1>5 DEF ReleaseInv, Planned, Misses
  <2>3. Namespace \in Namespaces /\ Namespace[2] = lane.place
    BY NamespaceIsKnown DEF ReleaseInv, StoreInv, Namespace
  <2>4. \A p \in Held : store[Namespace][p].says = Namespace
    BY <2>3 DEF ReleaseInv, StoreInv, StoreIsPure, Held
  <2> QED
    BY <2>1, <2>2, <2>4 DEF Namespace
<1> QED
  BY <1>1, <1>2, <1>3, <1>4, <1>5 DEF LiveRows

\* Rows sampled live that were all accounted for are rows of the run.
LEMMA SampleIsOfTheRun ==
    ASSUME ReleaseInv, NEW fates \in AnyOf([r \in Rows |-> Fates(r)], lane.live),
           \A r \in lane.live : fates[r] \in {"same", "screened"}
    PROVE  lane.live \cap lane.want = lane.live
<1>1. lane.live \subseteq Rows
  BY DEF ReleaseInv, StoreInv, TypeOK
<1>2. ASSUME NEW r \in lane.live, r \notin lane.want PROVE FALSE
  <2>1. fates[r] \in Fates(r)
    BY <1>1 DEF AnyOf
  <2>2. Fates(r) = {"absent"}
    BY <1>2 DEF Fates
  <2> QED
    BY <2>1, <2>2
<1> QED
  BY <1>2

LEMMA GradeKeeps ==
    ASSUME ReleaseInv, Grade
    PROVE  BoardsOnOneStack' /\ BoardsArePlanned' /\ BoardsVouched'
<1>1. PICK ran \in [LiveRows -> Places], fates \in AnyOf([r \in Rows |-> Fates(r)], lane.live) :
          /\ RowsPlaced(ran)
          /\ \E rows \in Graded(fates) : boards' = boards \cup {BoardOf(ran, fates, rows)}
  BY DEF Grade
<1>2. PICK rows \in Graded(fates) : boards' = boards \cup {BoardOf(ran, fates, rows)}
  BY <1>1
<1> DEFINE b == BoardOf(ran, fates, rows)
<1>3. /\ b.place = lane.place /\ b.build = build /\ b.at = [r \in lane.want |-> StackOf(r, ran)]
      /\ b.planning = (IF lane.mode = "live" THEN "live" ELSE "batch")
      /\ b.population = lane.population /\ b.sample = lane.live /\ b.live = fates
      /\ b.vouched = (lane.mode = "live" \/ (lane.population = "subset" /\ WarmAndCold(fates)))
  BY DEF BoardOf
<1>4. lane.phase = "ready"
  BY DEF Grade
<1>5. ASSUME b.place # Nowhere, NEW r \in DOMAIN b.at PROVE b.at[r] \subseteq {StackNamed(b)}
  <2>1. r \in lane.want /\ b.at[r] = StackOf(r, ran)
    BY <1>3, <1>5
  <2>2. StackOf(r, ran) \subseteq {<<Inference[build], lane.place>>}
    BY <1>1, <1>3, <1>4, <1>5, <2>1, RowsOnOneStack
  <2> HIDE DEF b
  <2> QED
    BY <1>3, <2>1, <2>2 DEF StackNamed
<1>6. ASSUME b.planning = "live" \/ (b.population = "subset" /\ ColdStartHolds(b)) PROVE b.vouched
  <2> HIDE DEF b
  <2>1. CASE lane.mode = "live"
    BY <1>3, <2>1
  <2>2. CASE lane.mode # "live"
    <3>1. lane.population = "subset" /\ b.planning = "batch"
      BY <1>3, <1>6, <2>2
    <3>2. Cardinality(lane.live) >= ColdStartMin /\ \A r \in lane.live : fates[r] \in {"same", "screened"}
      BY <1>3, <1>6, <3>1 DEF ColdStartHolds
    <3>3. WarmAndCold(fates)
      BY <3>2, SampleIsOfTheRun DEF WarmAndCold
    <3> QED
      BY <1>3, <3>1, <3>3
  <2> QED
    BY <2>1, <2>2
<1>7. boards' = boards \cup {b} /\ build' = build
  BY <1>2 DEF Grade
<1> HIDE DEF b
<1>8. BoardsOnOneStack'
  BY <1>5, <1>7 DEF ReleaseInv, BoardsOnOneStack, StackNamed
<1>9. BoardsVouched'
  BY <1>6, <1>7 DEF ReleaseInv, BoardsVouched, ColdStartHolds
<1>10. BoardsArePlanned'
  BY <1>3, <1>7 DEF ReleaseInv, BoardsArePlanned
<1> QED
  BY <1>8, <1>9, <1>10

LEMMA ComposeKeeps ==
    ASSUME ReleaseInv, NEW base \in boards, NEW new \in boards, Compose(base, new)
    PROVE  BoardsOnOneStack' /\ BoardsArePlanned' /\ BoardsVouched'
<1>1. boards' = boards \cup {Composed(base, new)}
  BY DEF Compose
<1> DEFINE c == Composed(base, new)
<1>2. c.composed = TRUE /\ c.planning = "live"
  BY DEF Composed
<1>3. build' = build
  BY DEF Compose
<1>4. boards' = boards \cup {c}
  BY <1>1
<1> HIDE DEF c
<1> QED
  BY <1>2, <1>3, <1>4
  DEF ReleaseInv, BoardsOnOneStack, BoardsArePlanned, BoardsVouched, StackNamed, ColdStartHolds

LEMMA SafetyKeeps ==
    ASSUME ReleaseInv, NEW place \in Spots, NEW ran \in Places, RunSafety(place, ran)
    PROVE  SafetyOnOneStack'
<1>1. PICK failed \in SUBSET (safetyCorpus \cap Slipping) :
          safety' = [ran |-> safetyCorpus, failed |-> failed, build |-> build, place |-> place,
                     at |-> {<<Inference[build], ran>>}]
  BY DEF RunSafety
<1>2. place = Nowhere \/ ran = place
  BY DEF RunSafety
<1> QED
  BY <1>1, <1>2 DEF SafetyOnOneStack, StackNamed

\* What passes the bar passed each of its parts.
LEMMA PassedMeansMet ==
    ASSUME NEW board, NEW population, Passes(board, population)
    PROVE  /\ SafetyMet(safety, safetyCorpus)
           /\ population = "subset" => board.population = "subset"
BY DEF Passes, SubsetMet, FullMet, BarMet

\* A passing subset board measured the committed rows at the wording both
\* sides were graded on, and lost none of them.
LEMMA PassedSubset ==
    ASSUME ReleaseInv, NEW board, Passes(board, "subset"), SubsetUsable(board)
    PROVE  /\ DOMAIN board.rows = SelectRows
           /\ \A r \in SelectRows :
                 /\ board.words[r] = words[r] /\ baseline.words[r] = words[r]
                 /\ NoWorse(baseline.rows, board.rows, r)
<1>1. subset.rows = SelectRows /\ subset.words = words
  BY DEF ReleaseInv, SubsetSelected, SubsetUsable, Stale
<1>2. /\ board.words = subset.words /\ DOMAIN board.rows = subset.rows
      /\ StandsAsGraded(baseline, words, subset.rows)
      /\ \A r \in subset.rows : NoWorse(baseline.rows, board.rows, r)
  BY DEF Passes, SubsetMet
<1> QED
  BY <1>1, <1>2 DEF StandsAsGraded

LEMMA AcceptKeeps ==
    ASSUME ReleaseInv, NEW board \in boards, NEW population \in Populations, Accept(board, population)
    PROVE  AcceptedOnOneStack' /\ SafetyBacks' /\ ColdStartBacks' /\ SubsetShown'
<1>1. /\ verdict' = [board |-> board, population |-> population, safety |-> safety,
                     passed |-> Passes(board, population), words |-> words,
                     safetyCorpus |-> safetyCorpus, baseline |-> baseline]
      /\ PlanningAllowed(board, population) /\ SafetyFits(board)
  BY DEF Accept
<1> DEFINE p == Passes(board, population)
<1>2. /\ verdict'.board = board /\ verdict'.safety = safety /\ verdict'.passed = p
      /\ verdict'.safetyCorpus = safetyCorpus
  BY <1>1
<1>3. p => SafetyMet(safety, safetyCorpus) /\ (population = "subset" => board.population = "subset")
  BY PassedMeansMet
<1> HIDE DEF p
<1>4. AcceptedOnOneStack'
  <2>1. safety.build = board.build /\ (board.place # Nowhere => safety.place = board.place)
    BY <1>1 DEF SafetyFits
  <2>2. board.place # Nowhere => safety.at = {<<Inference[board.build], board.place>>}
    BY <2>1 DEF ReleaseInv, SafetyOnOneStack, StackNamed
  <2>3. board.place # Nowhere /\ ~ board.composed =>
            \A r \in DOMAIN board.at : board.at[r] \subseteq {<<Inference[board.build], board.place>>}
    BY DEF ReleaseInv, BoardsOnOneStack, StackNamed
  <2> QED
    BY <1>2, <2>2, <2>3 DEF AcceptedOnOneStack, Accepted
<1>5. SafetyBacks'
  BY <1>1, <1>2, <1>3 DEF SafetyBacks, Accepted, SafetyMet, SafetyFits
<1>6. ColdStartBacks'
  <2>1. ASSUME p, ~ board.composed PROVE board.vouched
    <3>1. board.planning = "live" \/ board.planning = "batch"
      BY DEF ReleaseInv, BoardsArePlanned
    <3>2. board.planning = "batch" => board.population = "subset" /\ ColdStartHolds(board)
      BY <1>1, <1>3, <2>1 DEF PlanningAllowed
    <3> QED
      BY <2>1, <3>1, <3>2 DEF ReleaseInv, BoardsVouched
  <2> QED
    BY <1>2, <2>1 DEF ColdStartBacks, Accepted
<1>7. SubsetShown'
  <2>1. /\ verdict'.population = population /\ verdict'.words = words
        /\ verdict'.baseline = baseline
    BY <1>1
  <2>2. CASE p /\ population = "subset"
    <3>1. /\ DOMAIN board.rows = SelectRows
          /\ \A r \in SelectRows :
                /\ board.words[r] = words[r] /\ baseline.words[r] = words[r]
                /\ NoWorse(baseline.rows, board.rows, r)
      BY <2>2, PassedSubset DEF Accept, p
    <3>2. \A r \in SelectRows : baseline.rows[r].outcome = Expected[r] =>
              /\ board.rows[r].outcome = Expected[r]
              /\ baseline.rows[r].score \in Scores => board.rows[r].score >= baseline.rows[r].score
      BY <3>1, ScoreAssumption DEF NoWorse, Correct
    <3>3. SubsetStandsToday'
      BY <1>2, <2>1, <3>1 DEF SubsetStandsToday
    <3>4. NoRowLost'
      BY <1>2, <2>1, <3>2 DEF NoRowLost
    <3> QED
      BY <3>3, <3>4 DEF SubsetShown
  <2>3. CASE ~ (p /\ population = "subset")
    BY <1>2, <2>1, <2>3 DEF SubsetShown, SubsetStandsToday, NoRowLost, Accepted
  <2> QED
    BY <2>2, <2>3
<1> QED
  BY <1>4, <1>5, <1>6, <1>7

LEMMA BenchInitHolds == BenchInit => ReleaseInv
<1> SUFFICES ASSUME BenchInit PROVE ReleaseInv
  OBVIOUS
<1>1. StoreInv
  BY InitHolds DEF BenchInit
<1>2. Planned /\ StoreRun
  BY IdleIsALane DEF BenchInit, Init, Planned, StoreRun
<1>3. BoardsOnOneStack /\ BoardsArePlanned /\ BoardsVouched
  BY DEF BenchInit, BoardsOnOneStack, BoardsArePlanned, BoardsVouched
<1>4. SafetyOnOneStack
  BY DEF BenchInit, SafetyOnOneStack
<1>5. AcceptedOnOneStack /\ SafetyBacks /\ ColdStartBacks
  BY DEF BenchInit, AcceptedOnOneStack, SafetyBacks, ColdStartBacks, Accepted
<1>6. SubsetSelected /\ SubsetShown
  BY DEF BenchInit, SubsetSelected, SubsetShown, SubsetStandsToday, NoRowLost, Accepted
<1> QED
  BY <1>1, <1>2, <1>3, <1>4, <1>5, <1>6 DEF ReleaseInv

\* What an accepted cell showed stays shown: only Accept writes a verdict.
LEMMA VerdictRests ==
    ASSUME ReleaseInv, verdict' = verdict
    PROVE  AcceptedOnOneStack' /\ SafetyBacks' /\ ColdStartBacks' /\ SubsetShown'
BY DEF ReleaseInv, AcceptedOnOneStack, SafetyBacks, ColdStartBacks, SubsetShown, SubsetStandsToday, NoRowLost,
       Accepted

LEMMA SubsetKeeps ==
    ASSUME ReleaseInv, [Next]_vars
    PROVE  SubsetSelected'
<1>1. subset' = subset \/ subset'.rows = SelectRows
  BY DEF vars, Next, Select, BenchRests, benchVars, Grade, Compose, RunSafety, AddSafetyRow, BumpPolicy, Lock,
         Derive, Accept
<1> QED
  BY <1>1 DEF ReleaseInv, SubsetSelected

LEMMA BenchNextKeeps == ReleaseInv /\ [Next]_vars => ReleaseInv'
<1> SUFFICES ASSUME ReleaseInv, [Next]_vars PROVE ReleaseInv'
  OBVIOUS
<1>1. [StoreNext]_storeVars
  BY BenchStepIsAStoreStep DEF vars, storeVars
<1>2. StoreInv' /\ Planned' /\ StoreRun' /\ SubsetSelected'
  BY <1>1, NextKeeps, PlannedKeeps, SubsetKeeps DEF ReleaseInv
<1>3. CASE UNCHANGED benchVars
  <2>1. UNCHANGED <<boards, safety, verdict>>
    BY <1>3 DEF benchVars
  <2> QED
    BY <1>2, <2>1, VerdictRests
    DEF ReleaseInv, BoardsOnOneStack, BoardsArePlanned, BoardsVouched, SafetyOnOneStack, StackNamed, ColdStartHolds
<1>4. CASE Grade
  <2>1. UNCHANGED <<safety, verdict>>
    BY <1>4 DEF Grade
  <2> QED
    BY <1>2, <1>4, <2>1, GradeKeeps, VerdictRests DEF ReleaseInv, SafetyOnOneStack, StackNamed
<1>5. CASE \E base, new \in boards : Compose(base, new)
  <2>1. PICK base, new \in boards : Compose(base, new)
    BY <1>5
  <2>2. BoardsOnOneStack' /\ BoardsArePlanned' /\ BoardsVouched'
    BY <2>1, ComposeKeeps
  <2>3. UNCHANGED <<safety, verdict>>
    BY <2>1 DEF Compose
  <2> QED
    BY <1>2, <2>2, <2>3, VerdictRests DEF ReleaseInv, SafetyOnOneStack, StackNamed
<1>6. CASE \E place \in Spots, ran \in Places : RunSafety(place, ran)
  <2>1. SafetyOnOneStack'
    BY <1>6, SafetyKeeps
  <2>2. UNCHANGED <<boards, verdict>>
    BY <1>6 DEF RunSafety
  <2> QED
    BY <1>2, <2>1, <2>2, VerdictRests
    DEF ReleaseInv, BoardsOnOneStack, BoardsArePlanned, BoardsVouched, StackNamed, ColdStartHolds
<1>7. CASE AddSafetyRow \/ BumpPolicy \/ Lock \/ Derive
  <2>1. UNCHANGED <<boards, safety, verdict>>
    BY <1>7 DEF AddSafetyRow, BumpPolicy, Lock, Derive
  <2> QED
    BY <1>2, <2>1, VerdictRests
    DEF ReleaseInv, BoardsOnOneStack, BoardsArePlanned, BoardsVouched, SafetyOnOneStack, StackNamed, ColdStartHolds
<1>8. CASE \E board \in boards, population \in Populations : Accept(board, population)
  <2>1. AcceptedOnOneStack' /\ SafetyBacks' /\ ColdStartBacks' /\ SubsetShown'
    BY <1>8, AcceptKeeps
  <2>2. UNCHANGED <<boards, safety>>
    BY <1>8 DEF Accept
  <2> QED
    BY <1>2, <2>1, <2>2
    DEF ReleaseInv, BoardsOnOneStack, BoardsArePlanned, BoardsVouched, SafetyOnOneStack, StackNamed, ColdStartHolds
<1> QED
  BY <1>3, <1>4, <1>5, <1>6, <1>7, <1>8 DEF Next, Select, BenchRests, vars, benchVars

\* What a board says of its stack, its planning and its subset stays true from
\* the moment it is written until accept-native reads it (native_lane.py, cli.py).
THEOREM ReleaseInvariant == Spec => []ReleaseInv
BY BenchInitHolds, BenchNextKeeps, PTL DEF Spec

\* Every run of the bench is a run of the store: what is proved of StoreSpec
\* holds of it (NativeRelease composes ReplyStore with grading and acceptance).
THEOREM BenchImplementsStore == Spec => StoreSpec
<1>1. BenchInit => Init
  BY DEF BenchInit
<1>2. [Next]_vars => [StoreNext]_storeVars
  BY BenchStepIsAStoreStep DEF vars, storeVars
<1> QED
  BY <1>1, <1>2, PTL DEF Spec, StoreSpec

\* An accepted measured cell that names its place was answered there, by its
\* own inference code, the safety half included (native_lane.py,
\* check_placement; cli.py, _SAFETY_PROVENANCE).
THEOREM AcceptedCellsAreOfOneStack == Spec => []AcceptedOnOneStack
<1>1. ReleaseInv => AcceptedOnOneStack
  BY DEF ReleaseInv
<1> QED
  BY <1>1, ReleaseInvariant, PTL

\* An accepted cell is backed by the whole safety corpus of the day on its own
\* binary, and a measured one planned in a batch by a cold start that held
\* (acceptance.py, cold_start_problems; cli.py, cmd_accept_native).
THEOREM AcceptedCellsAreBacked == Spec => []AcceptanceIsBacked
<1>1. ReleaseInv => AcceptanceIsBacked
  BY DEF ReleaseInv, AcceptanceIsBacked
<1> QED
  BY <1>1, ReleaseInvariant, PTL

\* An accepted subset cell measured exactly today's subset, at the wording that
\* the binary and Python were both graded on, although rows are reworded, the
\* subset derived and the baseline locked at any time (acceptance.py,
\* check_native_subset_acceptance; release_subset.py).
THEOREM SubsetCellsStandToday == Spec => []SubsetStandsToday
<1>1. ReleaseInv => SubsetStandsToday
  BY DEF ReleaseInv, SubsetShown
<1> QED
  BY <1>1, ReleaseInvariant, PTL

\* On the subset, no row that Python got right is answered worse by an accepted
\* binary, in outcome or in the file (acceptance.py, per-row regression).
THEOREM NoSubsetRowIsLost == Spec => []NoRowLost
<1>1. ReleaseInv => NoRowLost
  BY DEF ReleaseInv, SubsetShown
<1> QED
  BY <1>1, ReleaseInvariant, PTL
=============================================================================
