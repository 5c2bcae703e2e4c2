------------------------------ MODULE MediaRun ------------------------------
(* A console run of the ffmpeg skill: ConsoleRun over MediaSteps.            *)
EXTENDS MediaSteps

CONSTANTS Plans, Folders, Settings, Calls, Newcomers

Tools ==
    EditTools \cup {"prepare_for_platform", "compress_video", "convert_video", "extract_audio", "create_thumbnail",
                    "concat_video"}

\* A plan is a sequence of intents, each with a known tool and a list of files,
\* patterns and folders (tools.yaml).
ASSUME PlansAreWhole ==
    \A p \in Plans :
        /\ p \in Seq(Range(p))
        /\ \A i \in DOMAIN p :
              /\ p[i].tool \in Tools
              /\ p[i].inputs \in Seq(Range(p[i].inputs))
              /\ \A k \in DOMAIN p[i].inputs : p[i].inputs[k].form \in {"file", "pattern", "folder"}

ASSUME FoldersAreFinite == \A held \in Folders : IsFiniteSet(DOMAIN held)

VARIABLES
    plan, setting, call, origin, files, phase, bi, li, bound, results, found, agreed, made, errors, exit

INSTANCE ConsoleRun WITH
    Leaves <- MediaLeaves, Named <- MediaNamed, Preflight <- MediaPreflight,
    Dry <- MediaDry, Do <- MediaDo, Writes <- MediaWrites, ErrorIn <- MediaErrorIn

---------------------------------------------------------------------------
\* What a plan means, second by second: from when to when a cut reaches is
\* said of the clip's own clock, whatever ffmpeg is told.

\* The second s, of a clip of n, lies in what the intent asks to keep.
AskedFor(intent, s, n) ==
    LET start == IF intent.start = NoTime THEN 0
                 ELSE IF intent.start < 0 THEN Max({0, n + intent.start}) ELSE intent.start
        stop  == CASE intent.duration # NoTime -> start + intent.duration
                   [] intent.duration = NoTime /\ intent.end = NoTime -> n
                   [] OTHER -> IF intent.end < 0 \/ (intent.end = 0 /\ intent.start # NoTime /\ intent.start < 0)
                               THEN n + intent.end ELSE intent.end
    IN  IF intent.frames # NoTime THEN s \in start..(start + intent.frames - 1)
        ELSE IF stop <= start THEN s = start
        ELSE start <= s /\ s < stop

\* The pieces at the seconds that satisfy Wants, in order.
Those(pieces, Wants(_)) ==
    LET at == InOrder({i \in DOMAIN pieces : Wants(i - 1)})
    IN  [k \in DOMAIN at |-> pieces[at[k]]]

KeptOf(intent, pieces) == Those(pieces, LAMBDA s : AskedFor(intent, s, Len(pieces)))

PacedAs(speed, pieces) ==
    IF speed = "half" THEN FlattenSeq([i \in DOMAIN pieces |-> <<pieces[i], pieces[i]>>])
    ELSE Those(pieces, LAMBDA s : s % 2 = 0)

\* The picture an intent is to make of its inputs' pictures, and its sound.
PictureMeant(intent, pictures) ==
    LET first == pictures[1]
        n     == Len(first)
    IN  CASE intent.tool = "concat_video"  -> FlattenSeq(pictures)
          [] intent.tool = "trim_video"    -> KeptOf(intent, first)
          [] intent.tool = "extract_audio" -> <<>>
          [] intent.tool = "rotate_video"  -> [i \in 1..n |-> [first[i] EXCEPT !.turn = (@ + intent.turn) % 4]]
          [] intent.tool = "reverse_video" -> [i \in 1..n |-> first[n + 1 - i]]
          [] intent.tool = "adjust_speed"  -> PacedAs(intent.speed, first)
          [] intent.tool = "create_thumbnail" ->
                <<first[IF intent.at = "first" THEN 1 ELSE IF intent.at = "last" THEN n ELSE intent.start + 1]>>
          [] OTHER -> first

\* Of a thumbnail, a picture, a cut to frames and an instant no sound is asked.
SoundMeant(intent, clips) ==
    LET first == clips[1].sound
        n     == Len(first)
    IN  CASE intent.tool = "concat_video"  -> Joined(clips).sound
          [] intent.tool \in {"trim_video", "extract_audio"} -> KeptOf(intent, first)
          [] intent.tool = "reverse_video" -> IF intent.sound THEN [i \in 1..n |-> first[n + 1 - i]] ELSE <<>>
          [] intent.tool = "adjust_volume" -> [i \in 1..n |-> [first[i] EXCEPT !.gain = @ + intent.gain]]
          [] intent.tool = "adjust_speed"  -> PacedAs(intent.speed, first)
          [] intent.tool \in {"strip_audio", "create_thumbnail"} \/ intent.to = ".gif" -> <<>>
          [] OTHER -> first

SoundMatters(intent) ==
    intent.tool = "trim_video" => intent.frames = NoTime /\ ~IsInstant(intent, Given(intent.start, 0))

\* What the commands of intent i reported.
OutputsOf(i) ==
    LET mine == {k \in DOMAIN results : results[k].intent = i /\ "outputs" \in DOMAIN results[k].result}
    IN  IF mine = {} THEN <<>> ELSE results[Max(mine)].result.outputs

\* The intent before i that wrote p last; 0 if the file was there.
MakerOf(p, i) == Max({0} \cup {j \in 1..(i - 1) : \E k \in DOMAIN OutputsOf(j) : OutputsOf(j)[k].output = p})

\* Each output of each intent, had everything been done on paper.
Wanted ==
    LET wanted[i \in DOMAIN plan] ==
            LET meant(p) ==
                    IF MakerOf(p, i) = 0 THEN (origin @@ Newcomers)[p]
                    ELSE wanted[MakerOf(p, i)][Max({k \in DOMAIN OutputsOf(MakerOf(p, i)) :
                                                        OutputsOf(MakerOf(p, i))[k].output = p})]
            IN  [k \in DOMAIN OutputsOf(i) |->
                    LET inputs == OutputsOf(i)[k].inputs
                        clips  == [m \in DOMAIN inputs |-> meant(inputs[m])]
                    IN  Media(PictureMeant(plan[i], [m \in DOMAIN clips |-> clips[m].picture]),
                              SoundMeant(plan[i], clips))]
    IN  wanted

\* The files that intent i was given by name.
GivenTo(i) == {plan[i].inputs[k].path : k \in {m \in DOMAIN plan[i].inputs : plan[i].inputs[m].form = "file"}}

\* The results of intent i that hold what a leaf reports under a key.
Reported(i, key) == {k \in DOMAIN results : results[k].intent = i /\ key \in DOMAIN results[k].result}

WorkedOn(i, p) ==
    \E k \in Reported(i, "outputs") : \E m \in DOMAIN results[k].result.outputs :
        p \in Range(results[k].result.outputs[m].inputs)

\* Its inspection heard nothing in a file whose sound was asked for.
FoundSilent(i, p) ==
    /\ plan[i].tool = "extract_audio"
    /\ \E k \in Reported(i, "probes") : \E m \in DOMAIN results[k].result.probes :
          results[k].result.probes[m].file = p /\ ~results[k].result.probes[m].sound

\* A sample was written to p after the k-th result.
SampledSince(k, p) ==
    \E l \in (k + 1)..Len(results) : "preview" \in DOMAIN results[l].result /\ results[l].result.preview = p

\* Nothing that intent i wrote as its k-th output has been written since.
Stands(i, k) ==
    LET p == OutputsOf(i)[k].output
    IN  /\ MakerOf(p, Len(plan) + 1) = i
        /\ \A m \in DOMAIN OutputsOf(i) : OutputsOf(i)[m].output = p => m <= k

---------------------------------------------------------------------------
\* A run that ends well has made of every clip what was asked for, second by
\* second, through the whole chain and whatever the outputs came to be called
\* (_engine.py:600-671, 756-800, 1278-1505; intents.py:950-1029).
MadeAsAsked ==
    exit = 0 /\ PastLast =>
        \A i \in DOMAIN plan : \A k \in DOMAIN OutputsOf(i) :
            Stands(i, k) =>
                LET path == OutputsOf(i)[k].output
                IN  /\ files[path].picture = Wanted[i][k].picture
                    /\ SoundMatters(plan[i]) => files[path].sound = Wanted[i][k].sound

\* A run that ends well, and was not told to keep quiet, has worked on every
\* file it was given (but for one it found silent whose sound was asked for),
\* and whatever it says it wrote is there and plays, unless a sample of its own
\* was written over it since (steps.py:30-50, 313-360; agent.py:64-80;
\* _reporting.py:215-287).
FailuresAreTold ==
    exit = 0 /\ ~call.silent /\ ~call.verbose =>
        /\ \A i \in 1..(bi - 1) : \A p \in GivenTo(i) : WorkedOn(i, p) \/ FoundSilent(i, p)
        /\ \A i \in DOMAIN plan : \A k \in Reported(i, "outputs") : \A m \in DOMAIN results[k].result.outputs :
              LET told == results[k].result.outputs[m]
              IN  /\ told.ok /\ told.output \in DOMAIN files
                  /\ files[told.output].kind = "media" \/ SampledSince(k, told.output)
=============================================================================
