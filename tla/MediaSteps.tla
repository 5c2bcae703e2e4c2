----------------------------- MODULE MediaSteps -----------------------------
(* skills/ffmpeg/python: what one leaf of the ffmpeg skill does to a folder. *)
(* A media file is [kind, picture, sound]: what a player shows and plays,    *)
(* one frame [of, turn] and one sample [of, gain] a second; `of` is which    *)
(* second of which file it was.                                              *)
(* An intent is its tool and its arguments; a leaf is [tool, intent].  The   *)
(* plan has been linked and cleared of collisions (ChainLinks,               *)
(* OutputCollisions).  Leaves that only load a profile, verify, report, or   *)
(* confirm (the console answers wait_for_confirmation by itself) are left    *)
(* out, and so are codecs, sizes and frame rates.                            *)
EXTENDS PlanFiles, Positions, Integers

CONSTANT NoTime   \* a time, a count or a cap that the plan does not give

VideoExts == {".mp4", ".mkv", ".webm", ".mov", ".gif"}
AudioExts == {".mp3", ".wav", ".flac"}
MediaExts == VideoExts \cup AudioExts

Media(picture, sound) ==
    [kind |-> IF picture = <<>> /\ sound = <<>> THEN "empty" ELSE "media", picture |-> picture, sound |-> sound]

\* What a command that failed half way leaves behind.
Broken == [kind |-> "broken", picture |-> <<>>, sound |-> <<>>]

Silence == [of |-> <<"silence", 0>>, gain |-> 0]

Seconds(file) == Max({Len(file.picture), Len(file.sound)})

---------------------------------------------------------------------------
\* The ways a leaf may end.

Ends(end, files, result) == [end |-> end, files |-> files, result |-> result]
Raises(files) == {Ends("raised", files, <<>>)}
Returns(files, result) == {Ends("ok", files, result)}
Stops(files, result) == {Ends("stops", files, result)}

Written(files, path, file) == [p \in DOMAIN files \cup {path} |-> IF p = path THEN file ELSE files[p]]

---------------------------------------------------------------------------
\* resolve_inputs.  An input is a file, a pattern *.ext or a folder.

Matches(files, input) ==
    {p \in DOMAIN files :
        /\ p.dir = input.dir /\ p.name.ext \in MediaExts
        /\ input.form = "pattern" => p.name.ext = input.ext}

Sorted(paths) == CHOOSE order \in SetToSeqs(paths) : TRUE

\* A pattern is sorted, a folder is not; a missing file is left to inspect_media.
Listings(files, input) ==
    CASE input.form = "file"    -> {<<input.path>>}
      [] input.form = "pattern" -> {Sorted(Matches(files, input))}
      [] input.form = "folder"  -> SetToSeqs(Matches(files, input))

Resolve(intent, files) ==
    LET inputs == intent.inputs
        choices == {pick \in [DOMAIN inputs -> UNION {Listings(files, inputs[k]) : k \in DOMAIN inputs}] :
                       \A k \in DOMAIN inputs : pick[k] \in Listings(files, inputs[k])}
    IN  UNION {Returns(files, [listed |-> FlattenSeq(pick)]) : pick \in choices}

---------------------------------------------------------------------------
\* inspect_media.  A preview takes a file it cannot read, perhaps one that an
\* earlier step has yet to write, for a minute of what its extension says.

Probeable(files, path) == path \in DOMAIN files /\ files[path].kind # "broken"

Probe(files, path) ==
    [file |-> path, duration |-> Seconds(files[path]),
     picture |-> files[path].picture # <<>>, sound |-> files[path].sound # <<>>]

DummyProbe(path) ==
    [file |-> path, duration |-> 60, picture |-> path.name.ext \notin AudioExts, sound |-> TRUE]

Inspect(listed, files, dry) ==
    Returns(files,
        [probes |-> FlattenSeq([k \in DOMAIN listed |->
                        IF Probeable(files, listed[k]) THEN <<Probe(files, listed[k])>>
                        ELSE IF dry THEN <<DummyProbe(listed[k])>> ELSE <<>>]),
         errors |-> ~dry /\ \E k \in DOMAIN listed : ~Probeable(files, listed[k])])

---------------------------------------------------------------------------
\* Where the output of one file goes.

EditTools == {"trim_video", "resize_video", "rotate_video", "strip_audio", "adjust_speed", "adjust_volume",
              "reverse_video"}

SuffixOf(intent) ==
    CASE intent.tool = "prepare_for_platform" -> intent.platform
      [] intent.tool = "compress_video"   -> "compressed"
      [] intent.tool = "convert_video"    -> "converted"
      [] intent.tool = "resize_video"     -> "resized"
      [] intent.tool = "trim_video"       -> "trimmed"
      [] intent.tool = "extract_audio"    -> "audio"
      [] intent.tool = "create_thumbnail" -> "thumb"
      [] intent.tool = "strip_audio"      -> "silent"
      [] intent.tool = "adjust_speed"     -> "speed"
      [] intent.tool = "adjust_volume"    -> "vol"
      [] intent.tool = "rotate_video"     -> "rotated"
      [] intent.tool = "reverse_video"    -> "reversed"

\* An edit keeps its input's container if that holds video, and a sound whose
\* speed or volume changes keeps its own; delivery writes mp4; the others
\* write what they were told to.
ExtOf(intent, probe) ==
    LET own   == probe.file.name.ext
        named == IF intent.out # NoFile /\ intent.out.form # "folder" THEN intent.out.name.ext ELSE ""
    IN  CASE intent.tool \in {"extract_audio", "create_thumbnail", "convert_video"} -> intent.to
          [] intent.tool \in {"adjust_speed", "adjust_volume"} /\ ~probe.picture -> own
          [] intent.tool \in EditTools /\ ~(intent.tool \in {"adjust_speed", "adjust_volume"} /\ ~probe.picture) ->
                IF named \in VideoExts THEN named ELSE IF own \in VideoExts THEN own ELSE ".mp4"
          [] OTHER -> ".mp4"

Derived(intent, probe) ==
    [probe.file EXCEPT !.name = [parts |-> Append(@.parts, SuffixOf(intent)), ext |-> ExtOf(intent, probe)]]

\* An output is a name, a pattern with a star for the input's stem, or a
\* folder.  One that is the input itself gives way to the derived name.
Target(intent, probe) ==
    LET in  == probe.file
        out == Under(in.dir, intent.out)
        at  == CASE intent.out.form = "name" -> out
                 [] intent.out.form = "star" -> [out EXCEPT !.name.parts = @ \o in.name.parts]
                 [] intent.out.form = "folder" ->
                        [out EXCEPT !.name = [parts |-> in.name.parts, ext |-> ExtOf(intent, probe)]]
    IN  IF intent.out = NoFile THEN Derived(intent, probe)
        ELSE IF at = in THEN Derived(intent, probe) ELSE at

---------------------------------------------------------------------------
\* build_recipes.

\* Only a silent input of extract_audio is dropped.
Heard(intent, probes) ==
    LET at == InOrder({k \in DOMAIN probes : intent.tool = "extract_audio" => probes[k].sound})
    IN  [k \in DOMAIN at |-> probes[at[k]]]

BehindEnd(intent, probe) ==
    intent.tool = "trim_video" /\ intent.start # NoTime /\ intent.start >= probe.duration

NeedsPicture(intent, probe) == intent.tool \in {"resize_video", "rotate_video"} /\ ~probe.picture

\* The sound alone is larger than the file may be.
TooSmall(intent, probe) ==
    intent.tool = "compress_video" /\ intent.fits # NoTime /\ probe.duration > intent.fits

\* The length that a preview supposes of a file is not held against a cut.
Unbuildable(intent, probe, dry) ==
    \/ ~dry /\ BehindEnd(intent, probe)
    \/ NeedsPicture(intent, probe)
    \/ TooSmall(intent, probe)
    \/ intent.tool = "rotate_video" /\ intent.turn = 0
    \/ intent.tool = "create_thumbnail" /\ intent.at = "unknown"

Recipes(intent, probes) ==
    LET outputs == Placed([k \in DOMAIN probes |-> probes[k].file],
                          [k \in DOMAIN probes |-> Target(intent, probes[k])])
    IN  [k \in DOMAIN probes |-> [inputs |-> <<probes[k].file>>, output |-> outputs[k]]]

Build(intent, probes, files, dry) ==
    LET kept == Heard(intent, probes)
    IN  IF intent.tool = "extract_audio" /\ kept = <<>> THEN Raises(files)
        ELSE IF \E k \in DOMAIN kept : Unbuildable(intent, kept[k], dry) THEN Raises(files)
        ELSE Returns(files, [recipes |-> Recipes(intent, kept)])

---------------------------------------------------------------------------
\* What a command makes of its input.

\* _normalize_trim and its flags, as the seconds from..to that are cut out of a
\* clip; a count of frames replaces the range, for the picture alone.  A start
\* before the end with a positive end is left out.
Whole == [from |-> 0, to |-> NoTime, frames |-> NoTime]

Given(time, default) == IF time = NoTime THEN default ELSE time

\* A range with nothing in it is one frame.
IsInstant(intent, start) ==
    \/ intent.end # NoTime /\ start >= 0 /\ intent.end <= start
    \/ intent.duration # NoTime /\ intent.duration <= 0

\* A length counts from the start; a negative end counts, as the start, from
\* the end of the clip.
FromEnd(intent, start, length) ==
    LET from == Max({0, length + start})
    IN  [Whole EXCEPT !.from = from,
                      !.to = IF intent.duration # NoTime THEN from + intent.duration
                             ELSE IF start < Given(intent.end, 0) /\ Given(intent.end, 0) < 0
                             THEN from + intent.end - start ELSE NoTime]

Window(intent, length) ==
    LET start == Given(intent.start, 0)
    IN  CASE intent.frames # NoTime -> [Whole EXCEPT !.from = Max({0, start}), !.frames = intent.frames]
          [] intent.frames = NoTime /\ IsInstant(intent, start) ->
                [Whole EXCEPT !.from = Max({0, start}), !.frames = 1]
          [] intent.frames = NoTime /\ ~IsInstant(intent, start) /\ start < 0 -> FromEnd(intent, start, length)
          [] OTHER -> [Whole EXCEPT !.from = start,
                                    !.to = IF intent.duration # NoTime THEN start + intent.duration
                                           ELSE intent.end]

Cut(pieces, from, to) ==
    SubSeq(pieces, from + 1, IF to = NoTime THEN Len(pieces) ELSE Min({to, Len(pieces)}))

\* Mutant: -to stands behind the input and counts from the seek point.
CutOutLate(file, window) ==
    Media(Cut(file.picture, window.from, IF window.frames # NoTime THEN window.from + window.frames
                                         ELSE IF window.to = NoTime THEN NoTime
                                         ELSE window.from + window.to),
          Cut(file.sound, window.from, window.to))

CutOut(file, window) ==
    Media(Cut(file.picture, window.from,
              IF window.frames # NoTime THEN window.from + window.frames ELSE window.to),
          Cut(file.sound, window.from, window.to))

\* extract_audio hands both bounds on as they are.
AudioWindow(intent) ==
    [Whole EXCEPT !.from = Given(intent.start, 0), !.to = intent.end]

Instant(intent, length) ==
    CASE intent.at = "first"  -> 1
      [] intent.at = "middle" -> (length \div 2) + 1
      [] intent.at = "last"   -> length
      [] OTHER -> intent.start + 1

\* Twice the speed drops every other piece, half the speed shows each twice.
Paced(pieces, speed) ==
    IF speed = "double" THEN [i \in 1..((Len(pieces) + 1) \div 2) |-> pieces[2 * i - 1]]
    ELSE [i \in 1..(2 * Len(pieces)) |-> pieces[(i + 1) \div 2]]

Turned(frames, by) == [i \in DOMAIN frames |-> [frames[i] EXCEPT !.turn = (@ + by) % 4]]
Louder(samples, by) == [i \in DOMAIN samples |-> [samples[i] EXCEPT !.gain = @ + by]]

Edited(intent, file) ==
    CASE intent.tool = "trim_video" -> CutOut(file, Window(intent, Seconds(file)))
      [] intent.tool = "extract_audio" -> Media(<<>>, CutOut(file, AudioWindow(intent)).sound)
      [] intent.tool = "create_thumbnail" ->
            Media(<<file.picture[Instant(intent, Len(file.picture))]>>, <<>>)
      [] intent.tool = "strip_audio" -> Media(file.picture, <<>>)
      [] intent.tool = "adjust_speed" -> Media(Paced(file.picture, intent.speed), Paced(file.sound, intent.speed))
      [] intent.tool = "adjust_volume" -> Media(file.picture, Louder(file.sound, intent.gain))
      [] intent.tool = "rotate_video" -> Media(Turned(file.picture, intent.turn), file.sound)
      [] intent.tool = "reverse_video" ->
            Media(Reverse(file.picture), IF intent.sound THEN Reverse(file.sound) ELSE <<>>)
      [] intent.tool = "convert_video" -> Media(file.picture, IF intent.to = ".gif" THEN <<>> ELSE file.sound)
      [] OTHER -> Media(file.picture, file.sound)

\* Silence stands in for the sound of a clip that has none, if another has one.
Joined(clips) ==
    LET sounds == \E k \in DOMAIN clips : clips[k].sound # <<>>
    IN  Media(FlattenSeq([k \in DOMAIN clips |-> clips[k].picture]),
              IF sounds
              THEN FlattenSeq([k \in DOMAIN clips |->
                       IF clips[k].sound # <<>> THEN clips[k].sound
                       ELSE [i \in 1..Seconds(clips[k]) |-> Silence]])
              ELSE <<>>)

---------------------------------------------------------------------------
\* ffmpeg -y.  It fails on an input it cannot read, on one without the stream
\* that is asked of it, and on its own input, or when the disk is full; then
\* the output is as it was or broken.

Works(intent, recipe, files) ==
    /\ \A k \in DOMAIN recipe.inputs :
          /\ Probeable(files, recipe.inputs[k])
          /\ intent.tool \in {"create_thumbnail", "concat_video", "strip_audio"} =>
                files[recipe.inputs[k]].picture # <<>>
          /\ intent.tool = "extract_audio" => files[recipe.inputs[k]].sound # <<>>
    /\ recipe.output \notin Range(recipe.inputs)

Makes(intent, recipe, files) ==
    LET clips == [k \in DOMAIN recipe.inputs |-> files[recipe.inputs[k]]]
    IN  IF intent.tool = "concat_video" THEN Joined(clips) ELSE Edited(intent, clips[1])

\* Each is the folder after the command and whether it returned 0.
Outcomes(intent, recipe, files, path, machine) ==
    (IF Works(intent, recipe, files)
     THEN {[ok |-> TRUE, files |-> Written(files, path, Makes(intent, recipe, files))]} ELSE {}) \cup
    (IF "full" \in machine \/ ~Works(intent, recipe, files)
     THEN {[ok |-> FALSE, files |-> files], [ok |-> FALSE, files |-> Written(files, path, Broken)]} ELSE {})

\* Mutant: an exit code of 0 is taken for a file.
NoStreams(files, path) == FALSE

\* require_streams: returned 0, and nothing is in the file.
LacksStreams(files, path) == files[path].kind = "empty"

\* run_batch and run_concat: one command after the other, the ones behind a
\* failed one too; a file with nothing in it raises.
AfterCommand(state, intent, recipe, machine) ==
    IF state.raised THEN {state}
    ELSE {[files  |-> o.files,
           raised |-> o.ok /\ LacksStreams(o.files, recipe.output),
           outputs |-> Append(state.outputs, [inputs |-> recipe.inputs, output |-> recipe.output, ok |-> o.ok])] :
          o \in Outcomes(intent, recipe, state.files, recipe.output, machine)}

\* _step_failed.
Failed(outputs) == \E k \in DOMAIN outputs : ~outputs[k].ok

Commands(intent, recipes, files, machine) ==
    LET after[k \in 0..Len(recipes)] ==
            IF k = 0 THEN {[files |-> files, raised |-> FALSE, outputs |-> <<>>]}
            ELSE UNION {AfterCommand(state, intent, recipes[k], machine) : state \in after[k - 1]}
    IN  after[Len(recipes)]

AsPlanned(recipes) ==
    [k \in DOMAIN recipes |-> [inputs |-> recipes[k].inputs, output |-> recipes[k].output, ok |-> TRUE]]

EndOf(state) ==
    CASE state.raised -> Raises(state.files)
      [] ~state.raised /\ Failed(state.outputs) -> Stops(state.files, [outputs |-> state.outputs])
      [] ~state.raised /\ ~Failed(state.outputs) -> Returns(state.files, [outputs |-> state.outputs])

Run(intent, recipes, files, dry, machine) ==
    IF dry THEN Returns(files, [outputs |-> AsPlanned(recipes)])
    ELSE UNION {EndOf(state) : state \in Commands(intent, recipes, files, machine)}

\* render_preview_command and run_preview: a sample of the first file, before
\* the others.  A sample that fails stops the plan.
SampleName(intent, recipe, probe) ==
    [recipe.inputs[1] EXCEPT !.name = [parts |-> Append(@.parts, "preview"), ext |-> ExtOf(intent, probe)]]

Sample(intent, probes, recipes, files, dry, machine) ==
    LET name == SampleName(intent, recipes[1], probes[1])
    IN  IF recipes = <<>> THEN Raises(files)
        ELSE IF dry THEN Returns(files, [preview |-> name, ok |-> TRUE])
        ELSE UNION {IF o.ok THEN Returns(o.files, [preview |-> name, ok |-> TRUE])
                    ELSE Stops(o.files, [preview |-> name, ok |-> FALSE])
                    : o \in Outcomes(intent, recipes[1], files, name, machine)}

\* concat_video writes below the working directory.
ConcatRecipe(intent, listed) ==
    <<[inputs |-> listed, output |-> IF intent.out = NoFile
                                     THEN [dir |-> <<>>, name |-> [parts |-> <<"combined">>, ext |-> ".mp4"]]
                                     ELSE Under(<<>>, intent.out)]>>

---------------------------------------------------------------------------
\* The skill, as the console runs it.

LeafOf(tool, intent) == [tool |-> tool, intent |-> intent]

HasSample(intent) == intent.tool = "reverse_video" \/ intent.preview

Look(intent) == <<LeafOf("resolve_inputs", intent), LeafOf("inspect_media", intent)>>

\* A base and what is appended are joined unseen.
ConcatLeaves(intent) ==
    (IF intent.based THEN <<>> ELSE Look(intent)) \o <<LeafOf("run_concat", intent)>>

BatchLeaves(intent) ==
    Look(intent) \o <<LeafOf("build_recipes", intent)>>
    \o (IF HasSample(intent) THEN <<LeafOf("run_preview", intent)>> ELSE <<>>)
    \o <<LeafOf("run_batch", intent)>>

\* An unknown platform is asked about instead.
AsksPlatform(intent) == intent.tool = "prepare_for_platform" /\ intent.platform = "unknown"

\* Intent.expand.
MediaLeaves(intent) ==
    IF AsksPlatform(intent) THEN <<LeafOf("clarify", intent)>>
    ELSE IF intent.tool = "concat_video" THEN ConcatLeaves(intent)
    ELSE BatchLeaves(intent)

Handle(leaf, files, bound, machine, dry) ==
    LET intent == leaf.intent
    IN  CASE leaf.tool = "clarify"        -> Stops(files, [asks |-> TRUE])
          [] leaf.tool = "resolve_inputs" -> Resolve(intent, files)
          [] leaf.tool = "inspect_media"  -> Inspect(bound[1].listed, files, dry)
          [] leaf.tool = "build_recipes"  -> Build(intent, bound[2].probes, files, dry)
          [] leaf.tool = "run_preview"    ->
                Sample(intent, bound[2].probes, bound[3].recipes, files, dry, machine)
          [] leaf.tool = "run_batch"      -> Run(intent, bound[3].recipes, files, dry, machine)
          [] leaf.tool = "run_concat"     ->
                Run(intent, ConcatRecipe(intent, IF intent.based THEN [k \in DOMAIN intent.inputs |-> intent.inputs[k].path]
                                                 ELSE bound[1].listed), files, dry, machine)

MediaDry(leaf, files, bound, machine) == Handle(leaf, files, bound, machine, TRUE)
MediaDo(leaf, files, bound, machine) == Handle(leaf, files, bound, machine, FALSE)

\* _preflight_inputs: a named file is there or an earlier step names it; not
\* every input may be a pattern that matches nothing.
MissingInput(intent, files, planned) ==
    LET inputs == intent.inputs
        some(input) == \E p \in DOMAIN files : p.dir = input.dir /\ p.name.ext = input.ext
    IN  \/ \E k \in DOMAIN inputs : /\ inputs[k].form = "file"
                                    /\ inputs[k].path.name \notin planned
                                    /\ inputs[k].path \notin DOMAIN files
        \/ /\ \A k \in DOMAIN inputs : inputs[k].form = "pattern"
           /\ \A k \in DOMAIN inputs : ~some(inputs[k])

MediaPreflight(plan, files) ==
    \A i \in DOMAIN plan :
        \/ AsksPlatform(plan[i])
        \/ plan[i].tool = "concat_video" /\ plan[i].based
        \/ ~MissingInput(plan[i], files, {plan[j].out.name : j \in {k \in 1..(i - 1) : plan[k].out # NoFile}})

\* _named_outputs, which looks below the working directory.
MediaNamed(intent) ==
    IF intent.out # NoFile THEN (IF intent.out.form = "name" THEN {Under(<<>>, intent.out)} ELSE {}) ELSE {}

\* Mutant: the sample is not looked for.
MediaWritesBatch(result) ==
    (IF "recipes" \in DOMAIN result THEN {result.recipes[k].output : k \in DOMAIN result.recipes} ELSE {}) \cup
    (IF "outputs" \in DOMAIN result THEN {result.outputs[k].output : k \in DOMAIN result.outputs} ELSE {})

\* planned_outputs.
MediaWrites(result) ==
    (IF "preview" \in DOMAIN result THEN {result.preview} ELSE {}) \cup
    (IF "recipes" \in DOMAIN result THEN {result.recipes[k].output : k \in DOMAIN result.recipes} ELSE {}) \cup
    (IF "outputs" \in DOMAIN result THEN {result.outputs[k].output : k \in DOMAIN result.outputs} ELSE {})

\* _format_results: a file that could not be inspected and a failed command
\* are errors; a failed sample is not looked at.
MediaErrorIn(result) ==
    \/ "errors" \in DOMAIN result /\ result.errors
    \/ "outputs" \in DOMAIN result /\ Failed(result.outputs)
=============================================================================
