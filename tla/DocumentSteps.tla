---------------------------- MODULE DocumentSteps ----------------------------
(* skills/documents/python: what one leaf of the documents skill does to a   *)
(* folder.  A file holds [kind, lock, pages]; a page is [of, turn, marks,    *)
(* text]: which page of which file it was, its quarter turns, what was       *)
(* stamped on it, and whether its text can be selected.                      *)
(* A leaf is [tool, input, out] and what its tool needs besides.  An output  *)
(* that the plan names and that is the step's own input is left out: the     *)
(* skill's policy refuses to overwrite a source.                             *)
EXTENDS PlanFiles, Positions

Open == "open"    \* the lock of a file that has no password

TextSuffixes == {".txt", ".md"}
ImageSuffixes == {".png", ".jpg", ".jpeg"}
OfficeSuffixes == {".docx", ".pptx", ".xlsx"}

File(kind, lock, pages) == [kind |-> kind, lock |-> lock, pages |-> pages]

IsPage(page) == {"of", "turn", "marks", "text"} \subseteq DOMAIN page /\ page.text \in BOOLEAN

\* Only a PDF has a password, and an image is one page.
IsFile(file) ==
    /\ file.pages \in Seq(Range(file.pages)) /\ \A i \in DOMAIN file.pages : IsPage(file.pages[i])
    /\ file.lock # Open => file.kind = "pdf"
    /\ file.kind = "image" => Len(file.pages) = 1

\* What a tool that failed half way leaves behind.
Broken == File("broken", Open, <<>>)

---------------------------------------------------------------------------
\* The ways a leaf may end.

Ends(end, files, result) == [end |-> end, files |-> files, result |-> result]

Raises(files) == {Ends("raised", files, <<>>)}

Returns(files, result) == {Ends("ok", files, result)}

Written(files, path, file) == [p \in DOMAIN files \cup {path} |-> IF p = path THEN file ELSE files[p]]

\* Files written one after the other: of two under one name the later stays.
WrittenInTurn(files, paths, contents) ==
    [p \in DOMAIN files \cup Range(paths) |->
        IF p \in Range(paths) THEN contents[Max({k \in DOMAIN paths : paths[k] = p})] ELSE files[p]]

---------------------------------------------------------------------------
\* Names.

Nth(path, n) == IF n = 0 THEN path ELSE [path EXCEPT !.name = Marked(@, ToString(n))]

\* _next_free: path, path-1, path-2, ..., the first that does not exist.
NextFree(path, files) ==
    {Nth(path, n) : n \in {m \in 0..Cardinality(DOMAIN files) :
        Nth(path, m) \notin DOMAIN files /\ \A k \in 0..(m - 1) : Nth(path, k) \in DOMAIN files}}

Suffixed(path, part) == [path EXCEPT !.name = [parts |-> Append(@.parts, part), ext |-> ".pdf"]]

WithExt(path, ext) == [path EXCEPT !.name.ext = ext]

\* _output_path: an output the plan names is honoured, a derived one moves.
OutputPath(leaf, derived, files) ==
    IF leaf.out # NoFile THEN {leaf.out} ELSE NextFree(derived, files)

---------------------------------------------------------------------------
\* Opening a file.  pikepdf, pypdf and pdfium look at the content, and none of
\* them, nor soffice, opens a locked file without its password.

\* Mutant: a lock keeps nobody out.
OpensAnyPdf(files, path) == path \in DOMAIN files /\ files[path].kind = "pdf"

OpensPdf(files, path) ==
    path \in DOMAIN files /\ files[path].kind = "pdf" /\ files[path].lock = Open

OpensImage(files, path) == path \in DOMAIN files /\ files[path].kind = "image"

Pages(files, path) == files[path].pages

PageCount(files, path) == Len(Pages(files, path))

HasText(pages) == \E i \in DOMAIN pages : pages[i].text

---------------------------------------------------------------------------
\* _parse_pages.  A part is "all", one endpoint, or a range of two; an endpoint
\* is a number, "first", "last", or nothing in a range that is open there.

Endpoint(e, total, default) ==
    CASE e.word = "number" -> e.n
      [] e.word = "first"  -> 1
      [] e.word = "last"   -> total
      [] e.word = "open"   -> default

IsEndpoint(e) == e.word \in {"number", "first", "last", "open"} /\ e.n \in Nat

IsPart(part) == part.span \in {"all", "one", "range"} /\ IsEndpoint(part.from) /\ IsEndpoint(part.to)

From(part, total) == Endpoint(part.from, total, 1)
To(part, total) == Endpoint(part.to, total, total)

\* Mutant: the last page of a range is not part of it.
PartPagesShort(part, total) ==
    CASE part.span = "all"   -> [i \in 1..total |-> i]
      [] part.span = "one"   -> <<From(part, total)>>
      [] part.span = "range" -> [i \in 1..(To(part, total) - From(part, total)) |->
                                    From(part, total) + i - 1]

PartPages(part, total) ==
    CASE part.span = "all"   -> [i \in 1..total |-> i]
      [] part.span = "one"   -> <<From(part, total)>>
      [] part.span = "range" -> [i \in 1..(To(part, total) - From(part, total) + 1) |->
                                    From(part, total) + i - 1]

Backwards(parts, total) ==
    \E k \in DOMAIN parts : parts[k].span = "range" /\ From(parts[k], total) > To(parts[k], total)

\* The pages an argument lists, in its order; no argument is every page.
ListedPages(parts, total) ==
    IF parts = <<>>
    THEN [i \in 1..total |-> i]
    ELSE FlattenSeq([k \in DOMAIN parts |-> PartPages(parts[k], total)])

InRange(pages, total) == \A i \in DOMAIN pages : pages[i] \in 1..total

\* A backward range, or a page the document does not have.
Refused(parts, total) == Backwards(parts, total) \/ ~InRange(ListedPages(parts, total), total)

---------------------------------------------------------------------------
\* _extract_text_records.

\* OCR reads every page; it needs tesseract and a file that pdfium opens.
OcrPages(files, path, chosen) == [i \in DOMAIN chosen |-> [Pages(files, path)[chosen[i]] EXCEPT !.text = TRUE]]

NoText == [ok |-> FALSE, pages |-> <<>>]

TextOf(files, leaf, tools) ==
    LET path   == leaf.input
        ext    == path.name.ext
        total  == PageCount(files, path)
        chosen == ListedPages(leaf.parts, total)
        read   == [i \in DOMAIN chosen |-> Pages(files, path)[chosen[i]]]
        ocr    == IF "tesseract" \in tools
                  THEN [ok |-> TRUE, pages |-> OcrPages(files, path, chosen)] ELSE NoText
        whole  == [ok |-> TRUE, pages |-> Pages(files, path)]
    IN  CASE path \notin DOMAIN files -> NoText
          [] path \in DOMAIN files /\ ext \in TextSuffixes ->
                IF files[path].kind = "text" THEN whole ELSE NoText
          [] path \in DOMAIN files /\ ext \in ImageSuffixes ->
                IF OpensImage(files, path) /\ "tesseract" \in tools
                THEN [ok |-> TRUE, pages |-> OcrPages(files, path, <<1>>)] ELSE NoText
          [] path \in DOMAIN files /\ ext = ".pdf" ->
                IF ~OpensPdf(files, path) \/ Refused(leaf.parts, total) THEN NoText
                ELSE IF leaf.ocr \/ ~HasText(read) THEN ocr
                ELSE [ok |-> TRUE, pages |-> read]
          [] path \in DOMAIN files /\ ext \in OfficeSuffixes ->
                IF files[path].kind = "office" THEN whole ELSE NoText
          [] OTHER -> NoText

\* extract_text and find_in_document only read, in a preview as well.
ReadText(leaf, files, tools) ==
    LET text == TextOf(files, leaf, tools)
    IN  IF text.ok THEN Returns(files, [text |-> text.pages]) ELSE Raises(files)

---------------------------------------------------------------------------
\* inspect_document.

\* In a preview the file may be the work of a step that has not run.
Stub == [encrypted |-> FALSE, hasText |-> FALSE, pageCount |-> 1]

Inspection(files, path) ==
    LET file == files[path]
        ext  == path.name.ext
    IN  CASE ext = ".pdf" -> [encrypted |-> file.lock # Open,
                              hasText   |-> file.lock = Open /\ HasText(file.pages),
                              pageCount |-> IF file.lock = Open THEN Len(file.pages) ELSE 0]
          [] ext \in {".pptx", ".xlsx"} ->
                [encrypted |-> FALSE, hasText |-> TRUE, pageCount |-> Len(file.pages)]
          [] OTHER -> [encrypted |-> FALSE, hasText |-> ext \in TextSuffixes \cup OfficeSuffixes,
                       pageCount |-> 1]

\* A PDF, slides and a workbook are opened; of any other only the size is read.
Inspectable(files, path) ==
    /\ path \in DOMAIN files
    /\ path.name.ext = ".pdf" => files[path].kind = "pdf"
    /\ path.name.ext \in {".pptx", ".xlsx"} => files[path].kind = "office"

Inspect(leaf, files, dry) ==
    IF dry /\ leaf.input \notin DOMAIN files THEN Returns(files, Stub)
    ELSE IF Inspectable(files, leaf.input) THEN Returns(files, Inspection(files, leaf.input))
    ELSE Raises(files)

---------------------------------------------------------------------------
\* The operations on pages.  Each is the pages it makes of a document's, or a
\* refusal; the page count is taken, and the refusal made, in a preview too.

Made(pages) == [ok |-> TRUE, pages |-> pages]
Refusal == [ok |-> FALSE, pages |-> <<>>]

Turned(page, by) == [page EXCEPT !.turn = (@ + by) % 4]

Occurrences(s, x) == Cardinality({i \in DOMAIN s : s[i] = x})

\* rotate(relative=True): a page listed twice is turned twice.
RotatePages(leaf, pages) ==
    LET chosen == ListedPages(leaf.parts, Len(pages))
    IN  IF Refused(leaf.parts, Len(pages)) THEN Refusal
        ELSE Made([i \in DOMAIN pages |-> Turned(pages[i], leaf.turn * Occurrences(chosen, i))])

RemovePages(leaf, pages) ==
    LET keep == InOrder(DOMAIN pages \ Range(ListedPages(leaf.parts, Len(pages))))
    IN  IF Refused(leaf.parts, Len(pages)) \/ keep = <<>> THEN Refusal
        ELSE Made([i \in DOMAIN keep |-> pages[keep[i]]])

\* Pages that do not exist are dropped: the model cannot know the page count.
ReorderPages(leaf, pages) ==
    LET listed == ListedPages(leaf.parts, Len(pages))
        kept   == InOrder({k \in DOMAIN listed : listed[k] \in DOMAIN pages})
    IN  IF leaf.reverse THEN Made(Reverse(pages))
        ELSE IF Backwards(leaf.parts, Len(pages)) \/ kept = <<>> THEN Refusal
        ELSE Made([i \in DOMAIN kept |-> pages[listed[kept[i]]]])

PageOf(leaf, pages) ==
    CASE leaf.tool = "rotate_pages"  -> RotatePages(leaf, pages)
      [] leaf.tool = "remove_pages"  -> RemovePages(leaf, pages)
      [] leaf.tool = "reorder_pages" -> ReorderPages(leaf, pages)

PageSuffix(tool) ==
    CASE tool = "rotate_pages"  -> "rotated"
      [] tool = "remove_pages"  -> "removed"
      [] tool = "reorder_pages" -> "reordered"

\* The result counts the pages of the document to be written; rotation lists them.
EditPages(leaf, files, dry) ==
    UNION {LET made == PageOf(leaf, Pages(files, leaf.input))
           IN  IF ~OpensPdf(files, leaf.input) THEN Raises(files)
               ELSE IF ~made.ok THEN Raises(files)
               ELSE IF dry THEN Returns(files, [output |-> out, pages |-> Len(made.pages)])
               ELSE Returns(Written(files, out, File("pdf", Open, made.pages)),
                            [output |-> out, pages |-> Len(made.pages)])
           : out \in OutputPath(leaf, Suffixed(leaf.input, PageSuffix(leaf.tool)), files)}

\* merge_pdfs: the output is always named.
Merge(leaf, files, dry) ==
    LET pages == FlattenSeq([k \in DOMAIN leaf.inputs |-> Pages(files, leaf.inputs[k])])
        told  == [output |-> leaf.out, pages |-> Len(pages)]
    IN  IF \E k \in DOMAIN leaf.inputs : ~OpensPdf(files, leaf.inputs[k]) THEN Raises(files)
        ELSE IF dry THEN Returns(files, told)
        ELSE Returns(Written(files, leaf.out, File("pdf", Open, pages)), told)

\* split_pdf: one file per range.  All names are chosen before any is written;
\* one named output serves one range only.
SplitName(leaf, part) ==
    [dir  |-> IF leaf.outDir = NoFile THEN leaf.input.dir ELSE leaf.outDir.dir,
     name |-> [parts |-> leaf.input.name.parts \o <<"pages", part.label>>, ext |-> ".pdf"]]

SplitNames(leaf, files) ==
    IF leaf.out # NoFile /\ Len(leaf.parts) = 1
    THEN {<<leaf.out>>}
    ELSE {outs \in [DOMAIN leaf.parts ->
                      UNION {NextFree(SplitName(leaf, leaf.parts[k]), files) : k \in DOMAIN leaf.parts}] :
            \A k \in DOMAIN leaf.parts : outs[k] \in NextFree(SplitName(leaf, leaf.parts[k]), files)}

Selection(pages, part) ==
    LET listed == PartPages(part, Len(pages))
    IN  [i \in DOMAIN listed |-> pages[listed[i]]]

Split(leaf, files, dry) ==
    IF ~OpensPdf(files, leaf.input) \/ leaf.parts = <<>> THEN Raises(files)
    ELSE IF Refused(leaf.parts, PageCount(files, leaf.input)) THEN Raises(files)
    ELSE UNION {LET told == [outputs |-> outs, count |-> Len(outs)]
                    pieces == [k \in DOMAIN leaf.parts |->
                                  File("pdf", Open, Selection(Pages(files, leaf.input), leaf.parts[k]))]
                IN  IF dry THEN Returns(files, told)
                    ELSE Returns(WrittenInTurn(files, outs, pieces), told)
                : outs \in SplitNames(leaf, files)}

---------------------------------------------------------------------------
\* Overlays and passwords.  A preview looks at nothing.

Stamped(page, mark) == [page EXCEPT !.marks = Append(@, mark)]

\* watermark and add_page_numbers: every page, in order.
Overlay(leaf, pages) ==
    [i \in DOMAIN pages |->
        Stamped(pages[i], IF leaf.tool = "watermark" THEN <<"mark", 0>> ELSE <<"number", leaf.start + i - 1>>)]

\* A picture to stamp has to be there.
OverlayOpens(leaf, files) ==
    OpensPdf(files, leaf.input) /\ (leaf.image = NoFile \/ OpensImage(files, leaf.image))

Unlocks(leaf, files) ==
    /\ leaf.input \in DOMAIN files /\ files[leaf.input].kind = "pdf"
    /\ files[leaf.input].lock \in {Open, leaf.password}

Reworked(leaf, files) ==
    CASE leaf.tool \in {"watermark", "add_page_numbers"} ->
            [ok |-> OverlayOpens(leaf, files), lock |-> Open, pages |-> Overlay(leaf, Pages(files, leaf.input))]
      [] leaf.tool = "protect_pdf" ->
            [ok |-> OpensPdf(files, leaf.input), lock |-> leaf.password, pages |-> Pages(files, leaf.input)]
      [] leaf.tool = "unlock_pdf" ->
            [ok |-> Unlocks(leaf, files), lock |-> Open, pages |-> Pages(files, leaf.input)]

ReworkSuffix(tool) ==
    CASE tool = "watermark" -> "watermarked"
      [] tool = "add_page_numbers" -> "numbered"
      [] tool = "protect_pdf" -> "protected"
      [] tool = "unlock_pdf" -> "unlocked"

Rework(leaf, files, dry) ==
    UNION {IF dry THEN Returns(files, [output |-> out])
           ELSE IF leaf.input \notin DOMAIN files THEN Raises(files)
           ELSE IF ~Reworked(leaf, files).ok THEN Raises(files)
           ELSE LET new == Reworked(leaf, files)
                IN  Returns(Written(files, out, File("pdf", new.lock, new.pages)), [output |-> out])
           : out \in OutputPath(leaf, Suffixed(leaf.input, ReworkSuffix(leaf.tool)), files)}

---------------------------------------------------------------------------
\* convert_document.

AsText(pages) == File("text", Open, pages)

\* Mutant: soffice writes into the folder of the output.
SofficeInPlace(leaf, files, out) ==
    LET beside == [out EXCEPT !.name.parts = leaf.input.name.parts, !.name.ext = ".pdf"]
        new    == File("pdf", Open, Pages(files, leaf.input))
    IN  Written(Written(files, beside, new), out, new)

\* soffice writes <stem>.pdf into a private folder, which is then moved.
SofficeMoves(leaf, files, out) == Written(files, out, File("pdf", Open, Pages(files, leaf.input)))

\* What the file becomes, or an error: nothing installed, no such conversion,
\* or a file that is not what its name says.
ConvertInto(leaf, files, out, tools) ==
    LET ext  == leaf.input.name.ext
        text == TextOf(files, leaf, tools)
    IN  IF leaf.to \in TextSuffixes
        THEN IF text.ok THEN Returns(Written(files, out, AsText(text.pages)), [output |-> out])
             ELSE Raises(files)
        ELSE IF leaf.to = ".pdf" /\ ext \in ImageSuffixes /\ OpensImage(files, leaf.input)
        THEN Returns(Written(files, out, File("pdf", Open, Pages(files, leaf.input))), [output |-> out])
        ELSE IF leaf.to = ".pdf" /\ ext \in OfficeSuffixes /\ "soffice" \in tools
        THEN Raises(files) \cup
             (IF leaf.input \in DOMAIN files /\ files[leaf.input].lock = Open
              THEN Returns(SofficeMoves(leaf, files, out), [output |-> out]) ELSE {})
        ELSE Raises(files)

Convert(leaf, files, dry, tools) ==
    UNION {IF dry THEN Returns(files, [output |-> out]) ELSE ConvertInto(leaf, files, out, tools)
           : out \in OutputPath(leaf, WithExt(leaf.input, leaf.to), files)}

---------------------------------------------------------------------------
\* run_compress.

UsesGs(leaf, tools) == "gs" \in tools /\ leaf.quality \in {"small", "balanced"}

\* Without Ghostscript the smallest quality makes every page a picture.
UsesRaster(leaf, tools) == "gs" \notin tools /\ leaf.quality = "small"

Squeezed(leaf, pages, tools) ==
    IF UsesRaster(leaf, tools) THEN [i \in DOMAIN pages |-> [pages[i] EXCEPT !.text = FALSE]] ELSE pages

\* Mutant: the report is made before the result is weighed.
CompressTold(leaf, out, kept, tools) ==
    [output |-> out, textPreserved |-> ~UsesRaster(leaf, tools), kept |-> kept]

\* A result that is not smaller is replaced by the input's own bytes.
CompressTells(leaf, out, kept, tools) ==
    [output |-> out, textPreserved |-> kept \/ ~UsesRaster(leaf, tools), kept |-> kept]

CompressFails(leaf, files, out, tools) ==
    Raises(files) \cup (IF UsesGs(leaf, tools) THEN Raises(Written(files, out, Broken)) ELSE {})

Compress(leaf, files, dry, tools) ==
    UNION {IF dry THEN Returns(files, CompressTells(leaf, out, FALSE, tools))
           ELSE CompressFails(leaf, files, out, tools) \cup
                (IF ~OpensPdf(files, leaf.input) THEN {}
                 ELSE LET old == Pages(files, leaf.input)
                      IN  UNION {Returns(Written(files, out, File("pdf", Open,
                                             IF kept THEN old ELSE Squeezed(leaf, old, tools))),
                                         CompressTells(leaf, out, kept, tools)) : kept \in BOOLEAN})
           : out \in OutputPath(leaf, Suffixed(leaf.input, "compressed"), files)}

\* verify_output: looks at whatever has the name now, in a preview too.
Verify(leaf, files, inspection, compression) ==
    LET out    == compression.output
        exists == out \in DOMAIN files
    IN  IF exists /\ ~OpensPdf(files, out) THEN Raises(files)
        ELSE Returns(files, [output |-> out, exists |-> exists, textPreserved |-> compression.textPreserved,
                             pagesPreserved |-> exists /\ PageCount(files, out) = inspection.pageCount])

---------------------------------------------------------------------------
\* run_ocr.

\* A PDF in which any page has text is copied.
Skips(leaf, inspection) == leaf.input.name.ext = ".pdf" /\ inspection.hasText

\* What the output holds, or nothing: no tesseract, or a file it cannot read.
OcrOutcome(leaf, files, inspection, tools) ==
    LET ext   == leaf.input.name.ext
        pages == Pages(files, leaf.input)
        every == OcrPages(files, leaf.input, [i \in DOMAIN pages |-> i])
    IN  CASE Skips(leaf, inspection) -> Made(pages)
          [] ~Skips(leaf, inspection) /\ ext = ".pdf" ->
                IF "tesseract" \in tools /\ OpensPdf(files, leaf.input) THEN Made(every) ELSE Refusal
          [] ext \in ImageSuffixes ->
                IF "tesseract" \in tools /\ OpensImage(files, leaf.input) THEN Made(every) ELSE Refusal
          [] OTHER -> Refusal

OcrTells(leaf, inspection, out, pages) == [output |-> out, pages |-> pages, skipped |-> Skips(leaf, inspection)]

Ocr(leaf, files, inspection, dry, tools) ==
    LET planned == IF inspection.pageCount = 0 THEN 1 ELSE inspection.pageCount
    IN  UNION {IF dry THEN Returns(files, OcrTells(leaf, inspection, out, planned))
               ELSE IF leaf.input \notin DOMAIN files THEN Raises(files)
               ELSE LET new == OcrOutcome(leaf, files, inspection, tools)
                    IN  IF ~new.ok THEN Raises(files)
                        ELSE Returns(Written(files, out, File("pdf", Open, new.pages)),
                                     OcrTells(leaf, inspection, out,
                                              IF Skips(leaf, inspection) THEN planned ELSE Len(new.pages)))
               : out \in OutputPath(leaf, Suffixed(leaf.input, "ocr"), files)}

---------------------------------------------------------------------------
\* The skill, as the console runs it.

\* compress_pdf and ocr_document expand; every other tool is its own leaf.
DocLeaves(intent) ==
    CASE intent.tool = "compress_pdf" ->
            <<[intent EXCEPT !.tool = "inspect_document"], [intent EXCEPT !.tool = "run_compress"],
              [intent EXCEPT !.tool = "verify_output"]>>
      [] intent.tool = "ocr_document" ->
            <<[intent EXCEPT !.tool = "inspect_document"], [intent EXCEPT !.tool = "run_ocr"]>>
      [] OTHER -> <<intent>>

\* Step.handle of the leaf.
Handle(leaf, files, bound, tools, dry) ==
    CASE leaf.tool = "inspect_document" -> Inspect(leaf, files, dry)
      [] leaf.tool \in {"extract_text", "find_in_document"} -> ReadText(leaf, files, tools)
      [] leaf.tool = "merge_pdfs" -> Merge(leaf, files, dry)
      [] leaf.tool = "split_pdf" -> Split(leaf, files, dry)
      [] leaf.tool \in {"rotate_pages", "remove_pages", "reorder_pages"} -> EditPages(leaf, files, dry)
      [] leaf.tool \in {"watermark", "add_page_numbers", "protect_pdf", "unlock_pdf"} ->
            Rework(leaf, files, dry)
      [] leaf.tool = "convert_document" -> Convert(leaf, files, dry, tools)
      [] leaf.tool = "run_compress" -> Compress(leaf, files, dry, tools)
      [] leaf.tool = "verify_output" -> Verify(leaf, files, bound[1], bound[2])
      [] leaf.tool = "run_ocr" -> Ocr(leaf, files, bound[1], dry, tools)

DocDry(leaf, files, bound, tools) == Handle(leaf, files, bound, tools, TRUE)
DocDo(leaf, files, bound, tools) == Handle(leaf, files, bound, tools, FALSE)

\* No tool of this skill has a preflight, and none returns an error as a result.
DocPreflight(plan, files) == TRUE
DocErrorIn(result) == FALSE

DocNamed(intent) == {intent.out} \ {NoFile}

\* planned_outputs: the keys `output` and `outputs` of a result.
DocWrites(result) ==
    (IF "output" \in DOMAIN result THEN {result.output} ELSE {}) \cup
    (IF "outputs" \in DOMAIN result THEN Range(result.outputs) ELSE {})
=============================================================================
