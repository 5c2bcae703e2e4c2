----------------------------- MODULE MCMediaRun -----------------------------
(* Small instances of MediaRun: clips of two or three seconds, with and      *)
(* without sound, two of one stem, a sound, a file that is no clip, and a    *)
(* folder; some of the names the skill derives already taken.               *)
EXTENDS MediaSeen

Path(parts, ext) == [dir |-> <<>>, name |-> [parts |-> parts, ext |-> ext]]
In(dir, path) == [path EXCEPT !.dir = <<dir>>]

Clip  == Path(<<"clip">>, ".mp4")
Twin  == Path(<<"clip">>, ".mov")
Mute  == Path(<<"mute">>, ".mp4")
Song  == Path(<<"song">>, ".mp3")
Junk  == Path(<<"junk">>, ".mkv")
Late  == In("sub", Path(<<"late">>, ".mp4"))
None  == Path(<<"none">>, ".mp4")
Sub1  == In("sub", Path(<<"tape">>, ".mp4"))
Sub2  == In("sub", Path(<<"tape">>, ".mov"))
Trimmed == Path(<<"clip", "trimmed">>, ".mp4")

Shots(path, n) == [i \in 1..n |-> [of |-> <<path, i>>, turn |-> 0]]
Notes(path, n) == [i \in 1..n |-> [of |-> <<path, i>>, gain |-> 0]]

Film(path, n) == path :> Media(Shots(path, n), Notes(path, n))

Base ==
    Film(Clip, 3) @@ Film(Twin, 2) @@ (Mute :> Media(Shots(Mute, 2), <<>>)) @@
    (Song :> Media(<<>>, Notes(Song, 2))) @@ (Junk :> Broken) @@ Film(Sub1, 2) @@ Film(Sub2, 2)

\* Nothing in the way, or somebody's file at names that the plans derive or name.
MCFolders ==
    {Base,
     Base @@ Film(Trimmed, 1) @@ Film(Path(<<"clip", "preview">>, ".mp4"), 1)
          @@ Film(In("sub", Path(<<"late", "resized">>, ".mp4")), 1) @@ Film(Path(<<"clip", "compressed">>, ".mp4"), 1)
          @@ Film(Path(<<"out">>, ".mp4"), 1)}

MCNewcomers == Film(Late, 1) @@ Film(In("sub", Path(<<"late", "resized">>, ".mp4")), 1)

---------------------------------------------------------------------------
FileIn(path) == [form |-> "file", path |-> path, dir |-> path.dir, ext |-> path.name.ext]
PatternIn(dir, ext) == [form |-> "pattern", path |-> NoFile, dir |-> <<dir>>, ext |-> ext]
FolderIn(dir) == [form |-> "folder", path |-> NoFile, dir |-> <<dir>>, ext |-> ""]

OutAs(form, dir, parts, ext) ==
    [form |-> form, abs |-> FALSE, dir |-> dir, name |-> [parts |-> parts, ext |-> ext]]
Out(parts, ext) == OutAs("name", <<>>, parts, ext)

Of(tool, inputs) ==
    [tool |-> tool, inputs |-> inputs, out |-> NoFile, to |-> "", platform |-> "", preview |-> FALSE,
     based |-> FALSE, start |-> NoTime, end |-> NoTime, duration |-> NoTime, frames |-> NoTime, at |-> "first",
     turn |-> 0, speed |-> "half", gain |-> 0, sound |-> TRUE, fits |-> NoTime]

On(tool, path) == Of(tool, <<FileIn(path)>>)
TrimIt(path, start, end) == [On("trim_video", path) EXCEPT !.start = start, !.end = end]
SoundOf(inputs) == [Of("extract_audio", inputs) EXCEPT !.to = ".mp3"]

MCPlans == {
    <<TrimIt(Clip, 1, 3), On("resize_video", Trimmed)>>,
    <<TrimIt(Clip, -2, NoTime), [On("rotate_video", Trimmed) EXCEPT !.turn = 1]>>,
    <<TrimIt(Clip, -2, -1)>>,
    <<[TrimIt(Clip, 1, NoTime) EXCEPT !.frames = 2]>>,
    <<[TrimIt(Clip, 1, 1) EXCEPT !.preview = TRUE]>>,
    <<[TrimIt(Clip, 1, NoTime) EXCEPT !.duration = 1, !.out = Out(<<"out">>, ".mp4")]>>,
    <<TrimIt(Clip, 5, 6)>>,
    <<[SoundOf(<<FileIn(Clip)>>) EXCEPT !.start = 1, !.end = 2],
      [On("adjust_volume", Path(<<"clip", "audio">>, ".mp3")) EXCEPT !.gain = 2]>>,
    <<SoundOf(<<PatternIn("sub", ".mp4")>>)>>,
    <<SoundOf(<<FileIn(Mute)>>)>>,
    <<[SoundOf(<<FileIn(Clip)>>) EXCEPT !.start = 5, !.end = 6]>>,
    <<[SoundOf(<<FileIn(Clip), FileIn(Mute), FileIn(Twin)>>) EXCEPT !.out = Out(<<"track">>, ".mp3")]>>,
    <<[SoundOf(<<FolderIn("sub")>>) EXCEPT !.out = OutAs("folder", <<"all">>, <<>>, "")]>>,
    <<[Of("convert_video", <<FileIn(Twin), FileIn(Clip)>>) EXCEPT
          !.to = ".mp4", !.out = OutAs("star", <<>>, <<>>, ".mp4")]>>,
    <<[On("convert_video", Clip) EXCEPT !.to = ".gif"]>>,
    <<On("compress_video", Clip), On("resize_video", Song)>>,
    <<[On("compress_video", Clip) EXCEPT !.fits = 10], [On("compress_video", None) EXCEPT !.fits = 10]>>,
    <<[On("prepare_for_platform", Clip) EXCEPT !.platform = "unknown"]>>,
    <<On("strip_audio", Clip), [On("prepare_for_platform", Clip) EXCEPT !.platform = "unknown"]>>,
    <<[Of("prepare_for_platform", <<FileIn(Clip), FileIn(Mute)>>) EXCEPT !.platform = "web", !.preview = TRUE]>>,
    <<On("reverse_video", Clip)>>,
    <<[On("reverse_video", Twin) EXCEPT !.sound = FALSE]>>,
    <<[On("create_thumbnail", Clip) EXCEPT !.to = ".jpg", !.at = "last"],
      [On("create_thumbnail", Twin) EXCEPT !.to = ".jpg", !.at = "time", !.start = 1]>>,
    <<[On("create_thumbnail", Clip) EXCEPT !.to = ".jpg", !.at = "unknown"]>>,
    <<On("strip_audio", Clip), Of("concat_video", <<FileIn(Twin), FileIn(Path(<<"clip", "silent">>, ".mp4"))>>)>>,
    <<[Of("concat_video", <<FileIn(Mute), FileIn(Clip)>>) EXCEPT !.based = TRUE, !.out = Out(<<"out">>, ".mp4")]>>,
    <<Of("concat_video", <<FileIn(Clip), FileIn(Song)>>)>>,
    <<On("adjust_speed", Clip), [On("adjust_speed", Path(<<"clip", "speed">>, ".mp4")) EXCEPT !.speed = "double"]>>,
    <<On("adjust_speed", Song), On("rotate_video", Clip)>>,
    <<Of("resize_video", <<PatternIn("sub", ".mp4")>>)>>,
    <<Of("resize_video", <<FileIn(Junk), FileIn(Clip)>>)>>,
    <<[Of("resize_video", <<FileIn(Junk), FileIn(Clip)>>) EXCEPT !.out = Out(<<"junk">>, ".mkv")]>>,
    <<On("resize_video", None)>> }

MCSettings == {{}, {"full"}}

MCCalls ==
    {[confirm |-> c, silent |-> s, verbose |-> FALSE, terminal |-> TRUE] : c \in BOOLEAN, s \in BOOLEAN}
        \cup {[confirm |-> FALSE, silent |-> FALSE, verbose |-> TRUE, terminal |-> FALSE]}

=============================================================================
