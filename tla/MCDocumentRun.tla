---------------------------- MODULE MCDocumentRun ----------------------------
(* Small instances of DocumentRun: seven files, some of the names that the   *)
(* skill would derive already taken, one or two intents.                     *)
EXTENDS DocumentRun

Path(parts, ext) == [dir |-> <<>>, name |-> [parts |-> parts, ext |-> ext]]

Report == Path(<<"report">>, ".pdf")
Scan   == Path(<<"scan">>, ".pdf")
Secret == Path(<<"secret">>, ".pdf")
Notes  == Path(<<"notes">>, ".txt")
Memo   == Path(<<"memo">>, ".docx")
Photo  == Path(<<"photo">>, ".png")
Out    == Path(<<"out">>, ".pdf")
Part   == Path(<<"part">>, ".pdf")

Sheet(path, n, text) ==
    [i \in 1..n |-> [of |-> <<path, i>>, turn |-> 0, marks |-> <<>>, text |-> text]]

Base ==
    (Report :> File("pdf", Open, Sheet(Report, 3, TRUE))) @@
    (Scan   :> File("pdf", Open, Sheet(Scan, 2, FALSE))) @@
    (Secret :> File("pdf", "k1", Sheet(Secret, 2, TRUE))) @@
    (Notes  :> File("text", Open, Sheet(Notes, 1, TRUE))) @@
    (Memo   :> File("office", Open, Sheet(Memo, 2, TRUE))) @@
    (Photo  :> File("image", Open, Sheet(Photo, 1, FALSE)))

Old(path) == path :> File("pdf", Open, Sheet(path, 1, TRUE))

\* Nothing in the way, or somebody's file at every name the plans derive or name.
MCFolders ==
    {Base,
     Base @@ Old(Path(<<"report", "rotated">>, ".pdf")) @@ Old(Path(<<"report", "rotated", "1">>, ".pdf"))
          @@ Old(Path(<<"memo">>, ".pdf")) @@ Old(Path(<<"report", "pages", "1_2">>, ".pdf"))
          @@ Old(Path(<<"report", "compressed">>, ".pdf")) @@ Old(Out)}

MCNewcomers ==
    Old(Path(<<"scan", "ocr">>, ".pdf")) @@ Old(Path(<<"report", "removed">>, ".pdf"))

Number(n) == [word |-> "number", n |-> n]
Word(w) == [word |-> w, n |-> 0]
All == [span |-> "all", from |-> Word("first"), to |-> Word("last"), label |-> "all"]
One(e, label) == [span |-> "one", from |-> e, to |-> e, label |-> label]
Span(e, f, label) == [span |-> "range", from |-> e, to |-> f, label |-> label]

P1 == One(Number(1), "1")
P2 == One(Number(2), "2")
P5 == One(Number(5), "5")
LastPage == One(Word("last"), "last")
P12 == Span(Number(1), Number(2), "1_2")
From2 == Span(Number(2), Word("open"), "2_")
To2 == Span(Word("open"), Number(2), "_2")
Back == Span(Word("last"), Number(1), "last_1")

Intent(tool, input, out) ==
    [tool |-> tool, input |-> input, out |-> out, parts |-> <<>>, inputs |-> <<>>, outDir |-> NoFile,
     turn |-> 0, reverse |-> FALSE, image |-> NoFile, start |-> 1, password |-> "", to |-> "",
     quality |-> "balanced", ocr |-> FALSE]

RotateIt(in, turn, parts, out) == [Intent("rotate_pages", in, out) EXCEPT !.turn = turn, !.parts = parts]
RemoveIt(in, parts, out) == [Intent("remove_pages", in, out) EXCEPT !.parts = parts]
ReorderIt(in, parts, out) == [Intent("reorder_pages", in, out) EXCEPT !.parts = parts]
SplitIt(in, parts, out) == [Intent("split_pdf", in, out) EXCEPT !.parts = parts]
MergeThem(ins, out) == [Intent("merge_pdfs", NoFile, out) EXCEPT !.inputs = ins]
CompressIt(in, quality, out) == [Intent("compress_pdf", in, out) EXCEPT !.quality = quality]
ConvertIt(in, to, out) == [Intent("convert_document", in, out) EXCEPT !.to = to]
WithKey(tool, in, key, out) == [Intent(tool, in, out) EXCEPT !.password = key]

MCPlans == {
    <<RotateIt(Report, 1, <<From2, P2>>, NoFile)>>,
    <<RotateIt(Report, 3, <<>>, NoFile), RotateIt(Report, 1, <<LastPage>>, NoFile)>>,
    <<RemoveIt(Report, <<To2>>, NoFile)>>,
    <<RemoveIt(Report, <<All>>, NoFile)>>,
    <<ReorderIt(Report, <<P5, LastPage, P12>>, Out)>>,
    <<[Intent("reorder_pages", Report, NoFile) EXCEPT !.reverse = TRUE]>>,
    <<ReorderIt(Report, <<Back>>, NoFile)>>,
    <<SplitIt(Report, <<P12, From2>>, NoFile)>>,
    <<SplitIt(Report, <<P12>>, Part), MergeThem(<<Part, Scan>>, Out)>>,
    <<MergeThem(<<Scan, Report>>, Out)>>,
    <<MergeThem(<<Report, Secret>>, Out)>>,
    <<CompressIt(Report, "small", NoFile)>>,
    <<CompressIt(Report, "high", Out)>>,
    <<CompressIt(Scan, "balanced", NoFile), RotateIt(Scan, 2, <<All>>, NoFile)>>,
    <<CompressIt(Secret, "small", Out)>>,
    <<ConvertIt(Notes, ".md", NoFile), ConvertIt(Memo, ".pdf", Out)>>,
    <<ConvertIt(Photo, ".pdf", NoFile), Intent("ocr_document", Photo, NoFile)>>,
    <<ConvertIt(Secret, ".txt", NoFile)>>,
    <<Intent("ocr_document", Scan, NoFile), ConvertIt(Scan, ".txt", NoFile)>>,
    <<Intent("ocr_document", Report, NoFile)>>,
    <<Intent("ocr_document", Secret, NoFile)>>,
    <<WithKey("protect_pdf", Report, "k2", Part), Intent("watermark", Part, NoFile)>>,
    <<WithKey("unlock_pdf", Secret, "k1", Part), Intent("add_page_numbers", Part, Out)>>,
    <<WithKey("unlock_pdf", Secret, "k2", NoFile)>>,
    <<[Intent("watermark", Report, NoFile) EXCEPT !.image = Photo],
      [Intent("split_pdf", Report, NoFile) EXCEPT !.parts = <<P1, P2>>, !.outDir = [Out EXCEPT !.dir = <<"d">>]]>>,
    <<[Intent("add_page_numbers", Scan, NoFile) EXCEPT !.start = 4], Intent("extract_text", Scan, NoFile)>> }

MCSettings == {{}, {"gs", "soffice", "tesseract"}}

MCCalls ==
    {[confirm |-> c, silent |-> FALSE, verbose |-> FALSE, terminal |-> t] : c \in BOOLEAN, t \in BOOLEAN}
=============================================================================
