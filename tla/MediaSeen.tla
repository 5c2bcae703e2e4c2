------------------------------ MODULE MediaSeen ------------------------------
(* MediaRun with a history of what its preview saw.  The console asks about  *)
(* the files that the preview says it would write; what the preview could    *)
(* not know, the run may replace unasked.                                    *)
EXTENDS MediaRun

VARIABLES
    noted,    \* what the preview's leaves returned, for each intent
    shown,    \* the paths the preview said it would write
    sight     \* so far the preview saw what the run works on

seenVars == <<vars, noted, shown, sight>>

\* The preview ended before the plan did, and not with a question.
CutShort == phase = "preview" /\ phase' = "gate" /\ ~PastLast /\ Leaf.tool # "clarify"

\* After the preview somebody takes a name that it said it would write.
Taken == phase # "preview" /\ ~(shown \cap (DOMAIN files' \ DOMAIN files) \subseteq made')

\* As far as names go: extract_audio leaves silent files out, and what changes
\* speed or volume keeps the extension of a file without a picture.
ProbedAlike(intent, probe, supposed) ==
    /\ probe.file = supposed.file
    /\ intent.tool = "extract_audio" => probe.sound = supposed.sound
    /\ intent.tool \in {"adjust_speed", "adjust_volume"} => probe.picture = supposed.picture

\* The inspection of a batch finds what the preview read or supposed.
AsSupposed(i, probes) ==
    LET supposed == noted[i][2].probes
    IN  plan[i].tool # "concat_video" =>
            Len(probes) = Len(supposed) /\ \A k \in DOMAIN probes : ProbedAlike(plan[i], probes[k], supposed[k])

Surprise == phase = "leaf" /\ Len(bound) = 1 /\ Len(bound') = 2 /\ ~AsSupposed(bi, bound'[2].probes)

Remember ==
    /\ noted' = IF phase = "preview" /\ bound' # <<>> THEN [noted EXCEPT ![bi] = bound'] ELSE noted
    /\ shown' = IF phase = "preview" /\ phase' = "gate" THEN found ELSE shown
    /\ sight' = (sight /\ ~CutShort /\ ~Taken /\ ~Surprise)

SeenInit == Init /\ noted = [i \in DOMAIN plan |-> <<>>] /\ shown = {} /\ sight = TRUE
SeenNext == Next /\ Remember
SeenSpec == SeenInit /\ [][SeenNext]_seenVars

\* As long as the preview ran to its end, the run could read of every batch
\* what the preview read or supposed, and nobody else took a name that the
\* preview had shown: nothing is deleted, and a file that was there is replaced
\* only after the user said yes to it, with samples, with batches whose names
\* collide, and with commands that fail (app.py:283-309, 614-621;
\* _engine.py:756-800).
FolderIsKeptWhenSeen == [][~sight' \/ Kept!Agree \/ Kept!Work]_(Kept!keptVars)
=============================================================================
