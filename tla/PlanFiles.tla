----------------------------- MODULE PlanFiles -----------------------------
(* The files a plan speaks of, as the Python runtime's string functions take *)
(* them apart.  A name is the sequence of parts its stem is put together     *)
(* from and an extension; a reference is a name under the directories it was *)
(* written with; a path is a reference resolved against a base.              *)
EXTENDS Naturals, Sequences, SequencesExt, FiniteSets, FiniteSetsExt, TLC

CONSTANT NoFile   \* the argument is absent

\* Tools that end a plan and touch no file.
TerminalTools == {"done", "clarify", "reject"}

\* A name whose stem gets one more part: clip -> clip_converted -> clip_converted_2.
Marked(name, part) == [name EXCEPT !.parts = Append(@, part)]

\* clip<mark>, clip<mark>_2, clip<mark>_3, ...: the number is so many more parts.
Numbered(name, mark, n) ==
    [parts |-> Append(name.parts, mark) \o [k \in 1..(n - 1) |-> "_"], ext |-> name.ext]

Bare(name) == [abs |-> FALSE, dir |-> <<>>, name |-> name]

\* An absolute path names itself; a relative one is below the base.
Under(base, ref) == [dir |-> IF ref.abs THEN ref.dir ELSE base \o ref.dir, name |-> ref.name]

IsTerminal(step) == step.tool \in TerminalTools

\* The least number whose candidate is not taken.
FirstFree(Candidate(_), taken) ==
    LET bound == Cardinality(taken) + 1
    IN  Candidate(Min({n \in 1..bound : Candidate(n) \notin taken}))

\* The parts of the input's name that may tell two outputs apart, best first.
BatchNames(input, out) ==
    LET stem == input.name.parts
        ext  == <<input.name.ext>>
        Plus(more) == [out EXCEPT !.name.parts = @ \o more]
    IN  IF stem = out.name.parts
        THEN <<Plus(ext)>>
        ELSE <<Plus(stem), Plus(ext), Plus(stem \o ext)>>

Disambiguated(input, out, seen) ==
    LET tried == BatchNames(input, out)
        free  == SelectSeq(tried, LAMBDA c : c \notin seen)
        Counted(n) == [Last(tried) EXCEPT !.name = Marked(@, ToString(n + 1))]
    IN  CASE out \notin seen -> out
          [] out \in seen /\ free # <<>> -> Head(free)
          [] OTHER -> FirstFree(Counted, seen)

\* disambiguate_outputs: every input is spoken for before any output.
Placed(inputs, targets) ==
    LET placed[k \in 0..Len(inputs)] ==
            LET before == placed[k - 1]
                seen   == Range(inputs) \cup Range(before)
            IN  IF k = 0 THEN <<>> ELSE Append(before, Disambiguated(inputs[k], targets[k], seen))
    IN  placed[Len(inputs)]
=============================================================================
