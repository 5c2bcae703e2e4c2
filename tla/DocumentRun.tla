----------------------------- MODULE DocumentRun -----------------------------
(* A console run of the documents skill: ConsoleRun over DocumentSteps.      *)
EXTENDS DocumentSteps

CONSTANTS Plans, Folders, Settings, Calls, Newcomers

Tools ==
    {"inspect_document", "extract_text", "find_in_document", "merge_pdfs", "split_pdf", "rotate_pages",
     "remove_pages", "reorder_pages", "watermark", "add_page_numbers", "protect_pdf", "unlock_pdf",
     "convert_document", "compress_pdf", "ocr_document"}

\* A plan is a sequence of intents, each a record with a known tool and a list
\* of pages; a merge names its output and lists its inputs (tools.yaml).
ASSUME PlansAreWhole ==
    \A p \in Plans :
        /\ p \in Seq(Range(p))
        /\ \A i \in DOMAIN p :
              /\ p[i] = [field \in DOMAIN p[i] |-> p[i][field]]
              /\ {"tool", "input", "out", "parts"} \subseteq DOMAIN p[i]
              /\ p[i].tool \in Tools
              /\ p[i].parts \in Seq(Range(p[i].parts)) /\ \A k \in DOMAIN p[i].parts : IsPart(p[i].parts[k])
              /\ p[i].tool = "merge_pdfs" =>
                    p[i].out # NoFile /\ p[i].inputs \in Seq(Range(p[i].inputs))

\* The pages of a file that no run has written are its own.
ASSUME PagesAreOwn ==
    \A held \in Folders \cup {Newcomers} : \A p \in DOMAIN held :
        IsFile(held[p]) /\ \A i \in DOMAIN held[p].pages : held[p].pages[i].of[1] = p

\* Nobody else adds a file under a name that a plan gives its own output.
ASSUME NewcomersElsewhere ==
    \A p \in Plans : \A i \in DOMAIN p : DocNamed(p[i]) \cap DOMAIN Newcomers = {}

\* Nobody else adds a file under a name that a plan reads.
Inputs(intent) == IF intent.tool = "merge_pdfs" THEN intent.inputs ELSE <<intent.input>>

ASSUME NewcomersUnread ==
    \A p \in Plans : \A i \in DOMAIN p : Range(Inputs(p[i])) \cap DOMAIN Newcomers = {}

\* A new order is given (tools.yaml:140), a conversion takes no pages (257-261),
\* and of the parts of a split only equal ones get one name (_engine.py:331-338,
\* steps.py:180-183): "1-2" and "1_2", which Python also reads as the number 12,
\* are not in one list.
OwnLabels(parts) == \A k, l \in DOMAIN parts : parts[k].label = parts[l].label => parts[k] = parts[l]

Spelled(intent) ==
    /\ intent.tool = "reorder_pages" => intent.reverse \/ intent.parts # <<>>
    /\ intent.tool = "convert_document" => intent.parts = <<>>
    /\ intent.tool = "split_pdf" =>
          OwnLabels(intent.parts) /\ intent.input.name.parts \in Seq(Range(intent.input.name.parts))

ASSUME PlansAreSpelled == \A p \in Plans : \A i \in DOMAIN p : Spelled(p[i])

VARIABLES
    plan, setting, call, origin, files, phase, bi, li, bound, results, found, agreed, made, errors, exit

INSTANCE ConsoleRun WITH
    Leaves <- DocLeaves, Named <- DocNamed, Preflight <- DocPreflight,
    Dry <- DocDry, Do <- DocDo, Writes <- DocWrites, ErrorIn <- DocErrorIn

---------------------------------------------------------------------------
\* What a plan means, apart from file names and lists of numbers.

Names(part, page, total) ==
    CASE part.span = "all"   -> TRUE
      [] part.span = "one"   -> page = From(part, total)
      [] part.span = "range" -> From(part, total) <= page /\ page <= To(part, total)

NamedBy(part, pages) ==
    LET at == InOrder({i \in DOMAIN pages : Names(part, i, Len(pages))})
    IN  [k \in DOMAIN at |-> pages[at[k]]]

TimesNamed(parts, i, total) ==
    IF parts = <<>> THEN 1 ELSE Cardinality({k \in DOMAIN parts : Names(parts[k], i, total)})

Unnamed(parts, pages) ==
    LET at == InOrder({i \in DOMAIN pages : TimesNamed(parts, i, Len(pages)) = 0})
    IN  [k \in DOMAIN at |-> pages[at[k]]]

\* The documents an intent makes of one document.
Makes(intent, pages) ==
    CASE intent.tool = "rotate_pages" ->
            <<[i \in DOMAIN pages |->
                Turned(pages[i], intent.turn * TimesNamed(intent.parts, i, Len(pages)))]>>
      [] intent.tool = "remove_pages"  -> <<Unnamed(intent.parts, pages)>>
      [] intent.tool = "reorder_pages" ->
            <<IF intent.reverse THEN Reverse(pages)
              ELSE FlattenSeq([k \in DOMAIN intent.parts |-> NamedBy(intent.parts[k], pages)])>>
      [] intent.tool = "split_pdf" -> [k \in DOMAIN intent.parts |-> NamedBy(intent.parts[k], pages)]
      [] intent.tool = "watermark" -> <<[i \in DOMAIN pages |-> Stamped(pages[i], <<"mark", 0>>)]>>
      [] intent.tool = "add_page_numbers" ->
            <<[i \in DOMAIN pages |-> Stamped(pages[i], <<"number", intent.start + i - 1>>)]>>
      [] OTHER -> <<pages>>

\* The paths intent i wrote, in order.
WrittenBy(i) ==
    LET mine == {k \in DOMAIN results : results[k].intent = i /\ DocWrites(results[k].result) # {}}
        told == results[Max(mine)].result
    IN  IF mine = {} THEN <<>>
        ELSE IF "outputs" \in DOMAIN told THEN told.outputs ELSE <<told.output>>

\* The documents intent i was to make: it reads the work of the last intent
\* before it that wrote the path, or the file that was there at the start.
Wanted ==
    LET wanted[i \in DOMAIN plan] ==
            LET maker(p) == Max({0} \cup {j \in 1..(i - 1) : p \in Range(WrittenBy(j))})
                meant(p) == IF maker(p) = 0 THEN origin[p].pages
                            ELSE wanted[maker(p)][CHOOSE k \in DOMAIN WrittenBy(maker(p)) :
                                                      WrittenBy(maker(p))[k] = p]
            IN  Makes(plan[i], FlattenSeq([k \in DOMAIN Inputs(plan[i]) |-> meant(Inputs(plan[i])[k])]))
    IN  wanted

SamePages(a, b) ==
    /\ Len(a) = Len(b)
    /\ \A i \in DOMAIN a : a[i].of = b[i].of /\ a[i].turn = b[i].turn /\ a[i].marks = b[i].marks

---------------------------------------------------------------------------
\* A run that ends well leaves, for every intent, exactly the pages that were
\* asked for, in order, turned and stamped as asked, through the whole chain
\* and whatever the outputs came to be called (_engine.py:58-83, 280-340;
\* steps.py:137-342).
PagesAsAsked ==
    exit = 0 /\ PastLast =>
        \A i \in DOMAIN plan : \A k \in DOMAIN WrittenBy(i) :
            LET path == WrittenBy(i)[k]
            IN  (\A j \in (i + 1)..Len(plan) : path \notin Range(WrittenBy(j))) =>
                    SamePages(files[path].pages, Wanted[i][k])

\* What was under a password is found in a file without one only if the plan
\* removes that password (steps.py:364-378): no other step, copy or OCR opens it.
LockedStaysLocked ==
    \A p \in DOMAIN files : files[p].lock = Open =>
        \A i \in DOMAIN files[p].pages :
            LET source == files[p].pages[i].of[1]
            IN  source \in DOMAIN origin /\ origin[source].lock # Open =>
                    \E k \in DOMAIN plan : /\ plan[k].tool = "unlock_pdf"
                                           /\ plan[k].password = origin[source].lock

\* What a step reports is true of the file that now has the name: its number
\* of pages, that a compressed document kept its pages, and whether it kept
\* its text (steps.py:446-513, 551-572).
ReportIsTrue ==
    results # <<>> /\ exit # 1 =>
        LET last == Last(results)
            told == last.result
            old  == files[plan[last.intent].input].pages
            new  == files[told.output].pages
        IN  /\ DocWrites(told) \subseteq DOMAIN files
            /\ "pages" \in DOMAIN told => told.pages = Len(new)
            /\ last.tool = "verify_output" =>
                  /\ told.exists /\ told.pagesPreserved
                  /\ HasText(old) =>
                        (told.textPreserved <=> \A i \in DOMAIN old : new[i].text = old[i].text)
=============================================================================
