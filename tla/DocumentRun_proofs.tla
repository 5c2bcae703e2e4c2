------------------------- MODULE DocumentRun_proofs -------------------------
(* The documents skill, run from the console, keeps the promise of           *)
(* KeptFolder.  Each tool writes only names that are free and the output its *)
(* leaf names; a preview that returns reports that output; so what the gate  *)
(* asks about covers everything the run may replace.  What the files then    *)
(* hold is followed in two more invariants: TruthInv for locks and reports,  *)
(* WorkInv for the pages that each intent was to make.                       *)
EXTENDS DocumentRun, Positions_proofs

\* The path a leaf writes even if it is taken.
Replaces(leaf) ==
    IF \/ leaf.out = NoFile
       \/ leaf.tool \in {"inspect_document", "extract_text", "find_in_document", "verify_output"}
       \/ leaf.tool = "split_pdf" /\ Len(leaf.parts) # 1
    THEN {} ELSE {leaf.out}

KeepsBut(old, new, paths) ==
    DOMAIN old \subseteq DOMAIN new /\ \A p \in DOMAIN old \ paths : new[p] = old[p]

PageTools == {"rotate_pages", "remove_pages", "reorder_pages"}
ReworkTools == {"watermark", "add_page_numbers", "protect_pdf", "unlock_pdf"}

Ended(o) == o.end \in {"ok", "raised"}

---------------------------------------------------------------------------
\* Names and single writes.

LEMMA FreeIsFree ==
    ASSUME NEW path, NEW held, NEW out \in NextFree(path, held)
    PROVE  out \notin DOMAIN held
  BY DEF NextFree

LEMMA OutputIsFreeOrNamed ==
    ASSUME NEW leaf, NEW derived, NEW held, NEW out \in OutputPath(leaf, derived, held)
    PROVE  out \notin DOMAIN held \/ (leaf.out # NoFile /\ out = leaf.out)
  BY FreeIsFree DEF OutputPath

LEMMA WrittenKeeps ==
    ASSUME NEW held, NEW path, NEW file, NEW paths, path \notin DOMAIN held \/ path \in paths
    PROVE  KeepsBut(held, Written(held, path, file), paths)
  BY DEF Written, KeepsBut

LEMMA SameKeeps ==
    ASSUME NEW held, NEW paths
    PROVE  KeepsBut(held, held, paths)
  BY DEF KeepsBut

LEMMA RaisesKeeps ==
    ASSUME NEW held, NEW paths, NEW o \in Raises(held)
    PROVE  KeepsBut(held, o.files, paths) /\ o.end = "raised"
  BY SameKeeps DEF Raises, Ends

LEMMA ReturnsIs ==
    ASSUME NEW held, NEW result, NEW o \in Returns(held, result)
    PROVE  o.files = held /\ o.end = "ok" /\ o.result = result
  BY DEF Returns, Ends

LEMMA ReturnsWritten ==
    ASSUME NEW held, NEW path, NEW file, NEW paths, NEW result,
           path \notin DOMAIN held \/ path \in paths,
           NEW o \in Returns(Written(held, path, file), result)
    PROVE  KeepsBut(held, o.files, paths) /\ o.end = "ok" /\ o.result = result
  BY ReturnsIs, WrittenKeeps

\* A leaf that raises, or writes one path and returns.
LEMMA RunOutcome ==
    ASSUME NEW held, NEW path, NEW file, NEW result, NEW paths, path \notin DOMAIN held \/ path \in paths,
           NEW o, o \in Raises(held) \/ o \in Returns(Written(held, path, file), result)
    PROVE  KeepsBut(held, o.files, paths) /\ Ended(o)
<1>1. CASE o \in Raises(held)
  BY <1>1, RaisesKeeps DEF Ended
<1>2. CASE o \in Returns(Written(held, path, file), result)
  <2>1. o.files = Written(held, path, file) /\ o.end = "ok"
    BY <1>2, ReturnsIs
  <2>2. KeepsBut(held, Written(held, path, file), paths)
    BY WrittenKeeps
  <2> QED BY <2>1, <2>2 DEF Ended
<1> QED BY <1>1, <1>2

LEMMA PreviewOutcome ==
    ASSUME NEW held, NEW result, NEW paths, paths \subseteq DocWrites(result),
           NEW o, o \in Raises(held) \/ o \in Returns(held, result)
    PROVE  Ended(o) /\ (o.end = "ok" => paths \subseteq DocWrites(o.result))
<1>1. CASE o \in Raises(held)
  BY <1>1, RaisesKeeps DEF Ended
<1>2. CASE o \in Returns(held, result)
  BY <1>2, ReturnsIs DEF Ended
<1> QED BY <1>1, <1>2

---------------------------------------------------------------------------
\* Each tool: a run keeps every file but the output it names, and a preview
\* that returns reports that output.

LEMMA ReadersOnlyRead ==
    ASSUME NEW leaf, NEW held, NEW tools, NEW dry, NEW paths,
           NEW o, o \in Inspect(leaf, held, dry) \/ o \in ReadText(leaf, held, tools)
    PROVE  KeepsBut(held, o.files, paths) /\ Ended(o)
<1>1. CASE o \in Inspect(leaf, held, dry)
  BY <1>1, RaisesKeeps, ReturnsIs, SameKeeps DEF Inspect, Ended
<1>2. CASE o \in ReadText(leaf, held, tools)
  BY <1>2, RaisesKeeps, ReturnsIs, SameKeeps DEF ReadText, Ended
<1> QED BY <1>1, <1>2

LEMMA VerifyOnlyReads ==
    ASSUME NEW leaf, NEW held, NEW a, NEW b, NEW paths, NEW o \in Verify(leaf, held, a, b)
    PROVE  KeepsBut(held, o.files, paths) /\ Ended(o)
  BY RaisesKeeps, ReturnsIs, SameKeeps DEF Verify, Ended

LEMMA MergeKeeps ==
    ASSUME NEW leaf, NEW held, leaf.tool = "merge_pdfs", leaf.out # NoFile
    PROVE  /\ \A o \in Merge(leaf, held, FALSE) : KeepsBut(held, o.files, Replaces(leaf)) /\ Ended(o)
           /\ \A o \in Merge(leaf, held, TRUE) :
                Ended(o) /\ (o.end = "ok" => Replaces(leaf) \subseteq DocWrites(o.result))
<1> DEFINE pages == FlattenSeq([k \in DOMAIN leaf.inputs |-> Pages(held, leaf.inputs[k])])
           told  == [output |-> leaf.out, pages |-> Len(pages)]
<1>1. Replaces(leaf) = {leaf.out}
  BY DEF Replaces
<1>2. leaf.out \in DocWrites(told)
  BY DEF DocWrites
<1>3. \A dry \in BOOLEAN : Merge(leaf, held, dry) =
        IF \E k \in DOMAIN leaf.inputs : ~OpensPdf(held, leaf.inputs[k]) THEN Raises(held)
        ELSE IF dry THEN Returns(held, told)
        ELSE Returns(Written(held, leaf.out, File("pdf", Open, pages)), told)
  BY DEF Merge
<1> HIDE DEF pages, told
<1>4. ASSUME NEW o \in Merge(leaf, held, FALSE)
      PROVE  KeepsBut(held, o.files, Replaces(leaf)) /\ Ended(o)
  <2>1. o \in Raises(held) \/ o \in Returns(Written(held, leaf.out, File("pdf", Open, pages)), told)
    BY <1>3
  <2>2. CASE o \in Raises(held)
    BY <2>2, RaisesKeeps DEF Ended
  <2>3. CASE o \in Returns(Written(held, leaf.out, File("pdf", Open, pages)), told)
    BY <2>3, <1>1, ReturnsWritten DEF Ended
  <2> QED BY <2>1, <2>2, <2>3
<1>5. ASSUME NEW o \in Merge(leaf, held, TRUE)
      PROVE  Ended(o) /\ (o.end = "ok" => Replaces(leaf) \subseteq DocWrites(o.result))
  <2>1. o \in Raises(held) \/ o \in Returns(held, told)
    BY <1>3
  <2>2. CASE o \in Raises(held)
    BY <2>2, RaisesKeeps DEF Ended
  <2>3. CASE o \in Returns(held, told)
    BY <2>3, <1>1, <1>2, ReturnsIs DEF Ended
  <2> QED BY <2>1, <2>2, <2>3
<1> QED BY <1>4, <1>5

\* What any tool that writes one output may do with the path it has chosen.
LEMMA ChosenOutput ==
    ASSUME NEW leaf, NEW derived, NEW held, NEW out \in OutputPath(leaf, derived, held),
           leaf.tool \notin {"inspect_document", "extract_text", "find_in_document", "verify_output", "split_pdf"}
    PROVE  /\ out \notin DOMAIN held \/ out \in Replaces(leaf)
           /\ Replaces(leaf) \subseteq {out}
  BY FreeIsFree DEF OutputPath, Replaces

LEMMA EditPagesKeeps ==
    ASSUME NEW leaf, NEW held, leaf.tool \in PageTools
    PROVE  /\ \A o \in EditPages(leaf, held, FALSE) : KeepsBut(held, o.files, Replaces(leaf)) /\ Ended(o)
           /\ \A o \in EditPages(leaf, held, TRUE) :
                Ended(o) /\ (o.end = "ok" => Replaces(leaf) \subseteq DocWrites(o.result))
<1> DEFINE outs == OutputPath(leaf, Suffixed(leaf.input, PageSuffix(leaf.tool)), held)
           new == PageOf(leaf, Pages(held, leaf.input))
           told(out) == [output |-> out, pages |-> Len(new.pages)]
           file == File("pdf", Open, new.pages)
<1>1. \A out \in outs : (out \notin DOMAIN held \/ out \in Replaces(leaf)) /\ Replaces(leaf) \subseteq {out}
  BY ChosenOutput DEF PageTools
<1>2. \A out : out \in DocWrites(told(out))
  BY DEF DocWrites
<1>3. \A o \in EditPages(leaf, held, FALSE) :
        \E out \in outs : o \in Raises(held) \/ o \in Returns(Written(held, out, file), told(out))
  BY DEF EditPages
<1>4. \A o \in EditPages(leaf, held, TRUE) :
        \E out \in outs : o \in Raises(held) \/ o \in Returns(held, told(out))
  BY DEF EditPages
<1> HIDE DEF outs, new, told, file
<1>5. ASSUME NEW o \in EditPages(leaf, held, FALSE)
      PROVE  KeepsBut(held, o.files, Replaces(leaf)) /\ Ended(o)
  <2>1. PICK out \in outs : o \in Raises(held) \/ o \in Returns(Written(held, out, file), told(out))
    BY <1>3
  <2>2. out \notin DOMAIN held \/ out \in Replaces(leaf)
    BY <1>1
  <2> QED BY <2>1, <2>2, RunOutcome
<1>6. ASSUME NEW o \in EditPages(leaf, held, TRUE)
      PROVE  Ended(o) /\ (o.end = "ok" => Replaces(leaf) \subseteq DocWrites(o.result))
  <2>1. PICK out \in outs : o \in Raises(held) \/ o \in Returns(held, told(out))
    BY <1>4
  <2>2. Replaces(leaf) \subseteq DocWrites(told(out))
    BY <1>1, <1>2
  <2> QED BY <2>1, <2>2, PreviewOutcome
<1> QED BY <1>5, <1>6

LEMMA ReworkKeeps ==
    ASSUME NEW leaf, NEW held,
           leaf.tool \in ReworkTools
    PROVE  /\ \A o \in Rework(leaf, held, FALSE) : KeepsBut(held, o.files, Replaces(leaf)) /\ Ended(o)
           /\ \A o \in Rework(leaf, held, TRUE) :
                Ended(o) /\ (o.end = "ok" => Replaces(leaf) \subseteq DocWrites(o.result))
<1> DEFINE outs == OutputPath(leaf, Suffixed(leaf.input, ReworkSuffix(leaf.tool)), held)
           new == Reworked(leaf, held)
           told(out) == [output |-> out]
           file == File("pdf", new.lock, new.pages)
<1>1. \A out \in outs : (out \notin DOMAIN held \/ out \in Replaces(leaf)) /\ Replaces(leaf) \subseteq {out}
  BY ChosenOutput DEF ReworkTools
<1>2. \A out : out \in DocWrites(told(out))
  BY DEF DocWrites
<1>3. \A o \in Rework(leaf, held, FALSE) :
        \E out \in outs : o \in Raises(held) \/ o \in Returns(Written(held, out, file), told(out))
  BY DEF Rework
<1>4. \A o \in Rework(leaf, held, TRUE) : \E out \in outs : o \in Returns(held, told(out))
  BY DEF Rework
<1> HIDE DEF outs, new, told, file
<1>5. ASSUME NEW o \in Rework(leaf, held, FALSE)
      PROVE  KeepsBut(held, o.files, Replaces(leaf)) /\ Ended(o)
  <2>1. PICK out \in outs : o \in Raises(held) \/ o \in Returns(Written(held, out, file), told(out))
    BY <1>3
  <2>2. out \notin DOMAIN held \/ out \in Replaces(leaf)
    BY <1>1
  <2> QED BY <2>1, <2>2, RunOutcome
<1>6. ASSUME NEW o \in Rework(leaf, held, TRUE)
      PROVE  Ended(o) /\ (o.end = "ok" => Replaces(leaf) \subseteq DocWrites(o.result))
  <2>1. PICK out \in outs : o \in Raises(held) \/ o \in Returns(held, told(out))
    BY <1>4
  <2>2. Replaces(leaf) \subseteq DocWrites(told(out))
    BY <1>1, <1>2
  <2> QED BY <2>1, <2>2, PreviewOutcome
<1> QED BY <1>5, <1>6

LEMMA ConvertKeeps ==
    ASSUME NEW leaf, NEW held, NEW tools, leaf.tool = "convert_document"
    PROVE  /\ \A o \in Convert(leaf, held, FALSE, tools) :
                KeepsBut(held, o.files, Replaces(leaf)) /\ Ended(o)
           /\ \A o \in Convert(leaf, held, TRUE, tools) :
                Ended(o) /\ (o.end = "ok" => Replaces(leaf) \subseteq DocWrites(o.result))
<1> DEFINE outs == OutputPath(leaf, WithExt(leaf.input, leaf.to), held)
           told(out) == [output |-> out]
<1>1. \A out \in outs : (out \notin DOMAIN held \/ out \in Replaces(leaf)) /\ Replaces(leaf) \subseteq {out}
  BY ChosenOutput
<1>2. \A out : out \in DocWrites(told(out))
  BY DEF DocWrites
<1>3. ASSUME NEW out, NEW o \in ConvertInto(leaf, held, out, tools)
      PROVE  o \in Raises(held) \/ \E file : o \in Returns(Written(held, out, file), told(out))
  BY DEF ConvertInto, SofficeMoves
<1>4. \A o \in Convert(leaf, held, FALSE, tools) : \E out \in outs : o \in ConvertInto(leaf, held, out, tools)
  BY DEF Convert
<1>5. \A o \in Convert(leaf, held, TRUE, tools) : \E out \in outs : o \in Returns(held, told(out))
  BY DEF Convert
<1> HIDE DEF outs, told
<1>6. ASSUME NEW o \in Convert(leaf, held, FALSE, tools)
      PROVE  KeepsBut(held, o.files, Replaces(leaf)) /\ Ended(o)
  <2>1. PICK out \in outs : o \in ConvertInto(leaf, held, out, tools)
    BY <1>4
  <2>2. CASE o \in Raises(held)
    BY <2>2, RaisesKeeps DEF Ended
  <2>3. CASE \E file : o \in Returns(Written(held, out, file), told(out))
    BY <2>1, <2>3, <1>1, ReturnsWritten DEF Ended
  <2> QED BY <1>3, <2>1, <2>2, <2>3
<1>7. ASSUME NEW o \in Convert(leaf, held, TRUE, tools)
      PROVE  Ended(o) /\ (o.end = "ok" => Replaces(leaf) \subseteq DocWrites(o.result))
  <2>1. PICK out \in outs : o \in Raises(held) \/ o \in Returns(held, told(out))
    BY <1>5
  <2>2. Replaces(leaf) \subseteq DocWrites(told(out))
    BY <1>1, <1>2
  <2> QED BY <2>1, <2>2, PreviewOutcome
<1> QED BY <1>6, <1>7

LEMMA CompressKeeps ==
    ASSUME NEW leaf, NEW held, NEW tools, leaf.tool = "run_compress"
    PROVE  /\ \A o \in Compress(leaf, held, FALSE, tools) :
                KeepsBut(held, o.files, Replaces(leaf)) /\ Ended(o)
           /\ \A o \in Compress(leaf, held, TRUE, tools) :
                Ended(o) /\ (o.end = "ok" => Replaces(leaf) \subseteq DocWrites(o.result))
<1> DEFINE outs == OutputPath(leaf, Suffixed(leaf.input, "compressed"), held)
           told(out) == CompressTells(leaf, out, FALSE, tools)
<1>1. \A out \in outs : (out \notin DOMAIN held \/ out \in Replaces(leaf)) /\ Replaces(leaf) \subseteq {out}
  BY ChosenOutput
<1>2. \A out : out \in DocWrites(told(out))
  BY DEF DocWrites, CompressTells
<1>3. \A o \in Compress(leaf, held, FALSE, tools) : \E out \in outs :
        \/ o \in Raises(held)
        \/ o \in Raises(Written(held, out, Broken))
        \/ \E file, result : o \in Returns(Written(held, out, file), result)
  BY DEF Compress, CompressFails
<1>4. \A o \in Compress(leaf, held, TRUE, tools) : \E out \in outs : o \in Returns(held, told(out))
  BY DEF Compress
<1> HIDE DEF outs, told
<1>5. ASSUME NEW o \in Compress(leaf, held, FALSE, tools)
      PROVE  KeepsBut(held, o.files, Replaces(leaf)) /\ Ended(o)
  <2>1. PICK out \in outs :
        \/ o \in Raises(held)
        \/ o \in Raises(Written(held, out, Broken))
        \/ \E file, result : o \in Returns(Written(held, out, file), result)
    BY <1>3
  <2>2. out \notin DOMAIN held \/ out \in Replaces(leaf)
    BY <1>1
  <2>3. CASE o \in Raises(held)
    BY <2>2, <2>3, RunOutcome
  <2>4. CASE o \in Raises(Written(held, out, Broken))
    <3>1. o.files = Written(held, out, Broken) /\ o.end = "raised"
      BY <2>4 DEF Raises, Ends
    <3>2. KeepsBut(held, Written(held, out, Broken), Replaces(leaf))
      BY <2>2, WrittenKeeps
    <3> QED BY <3>1, <3>2 DEF Ended
  <2>5. CASE \E file, result : o \in Returns(Written(held, out, file), result)
    BY <2>2, <2>5, RunOutcome
  <2> QED BY <2>1, <2>3, <2>4, <2>5
<1>6. ASSUME NEW o \in Compress(leaf, held, TRUE, tools)
      PROVE  Ended(o) /\ (o.end = "ok" => Replaces(leaf) \subseteq DocWrites(o.result))
  <2>1. PICK out \in outs : o \in Raises(held) \/ o \in Returns(held, told(out))
    BY <1>4
  <2>2. Replaces(leaf) \subseteq DocWrites(told(out))
    BY <1>1, <1>2
  <2> QED BY <2>1, <2>2, PreviewOutcome
<1> QED BY <1>5, <1>6

LEMMA OcrKeeps ==
    ASSUME NEW leaf, NEW held, NEW inspection, NEW tools, leaf.tool = "run_ocr"
    PROVE  /\ \A o \in Ocr(leaf, held, inspection, FALSE, tools) :
                KeepsBut(held, o.files, Replaces(leaf)) /\ Ended(o)
           /\ \A o \in Ocr(leaf, held, inspection, TRUE, tools) :
                Ended(o) /\ (o.end = "ok" => Replaces(leaf) \subseteq DocWrites(o.result))
<1> DEFINE outs == OutputPath(leaf, Suffixed(leaf.input, "ocr"), held)
           planned == IF inspection.pageCount = 0 THEN 1 ELSE inspection.pageCount
           told(out) == OcrTells(leaf, inspection, out, planned)
<1>1. \A out \in outs : (out \notin DOMAIN held \/ out \in Replaces(leaf)) /\ Replaces(leaf) \subseteq {out}
  BY ChosenOutput
<1>2. \A out : out \in DocWrites(told(out))
  BY DEF DocWrites, OcrTells
<1>3. \A o \in Ocr(leaf, held, inspection, FALSE, tools) : \E out \in outs : \E file, result :
        o \in Raises(held) \/ o \in Returns(Written(held, out, file), result)
  BY DEF Ocr
<1>4. \A o \in Ocr(leaf, held, inspection, TRUE, tools) : \E out \in outs : o \in Returns(held, told(out))
  BY DEF Ocr
<1> HIDE DEF outs, told, planned
<1>5. ASSUME NEW o \in Ocr(leaf, held, inspection, FALSE, tools)
      PROVE  KeepsBut(held, o.files, Replaces(leaf)) /\ Ended(o)
  <2>1. PICK out \in outs : \E file, result :
            o \in Raises(held) \/ o \in Returns(Written(held, out, file), result)
    BY <1>3
  <2>2. out \notin DOMAIN held \/ out \in Replaces(leaf)
    BY <1>1
  <2> QED BY <2>1, <2>2, RunOutcome
<1>6. ASSUME NEW o \in Ocr(leaf, held, inspection, TRUE, tools)
      PROVE  Ended(o) /\ (o.end = "ok" => Replaces(leaf) \subseteq DocWrites(o.result))
  <2>1. PICK out \in outs : o \in Raises(held) \/ o \in Returns(held, told(out))
    BY <1>4
  <2>2. Replaces(leaf) \subseteq DocWrites(told(out))
    BY <1>1, <1>2
  <2> QED BY <2>1, <2>2, PreviewOutcome
<1> QED BY <1>5, <1>6

\* All names of a split are free, unless its one range has a named output.
LEMMA SplitNamesFree ==
    ASSUME NEW leaf, NEW held, leaf.tool = "split_pdf", NEW outs \in SplitNames(leaf, held)
    PROVE  /\ Range(outs) \cap DOMAIN held \subseteq Replaces(leaf)
           /\ Replaces(leaf) \subseteq Range(outs)
<1>1. CASE leaf.out # NoFile /\ Len(leaf.parts) = 1
  <2>1. outs = <<leaf.out>> /\ Replaces(leaf) = {leaf.out}
    BY <1>1 DEF SplitNames, Replaces
  <2> QED BY <2>1 DEF Range
<1>2. CASE ~(leaf.out # NoFile /\ Len(leaf.parts) = 1)
  <2>1. Replaces(leaf) = {}
    BY <1>2 DEF Replaces
  <2>2. \A k \in DOMAIN outs : outs[k] \in NextFree(SplitName(leaf, leaf.parts[k]), held)
    BY <1>2 DEF SplitNames
  <2>3. \A k \in DOMAIN outs : outs[k] \notin DOMAIN held
    BY <2>2, FreeIsFree
  <2> QED BY <2>1, <2>3 DEF Range
<1> QED BY <1>1, <1>2

LEMMA SplitKeeps ==
    ASSUME NEW leaf, NEW held, leaf.tool = "split_pdf"
    PROVE  /\ \A o \in Split(leaf, held, FALSE) : KeepsBut(held, o.files, Replaces(leaf)) /\ Ended(o)
           /\ \A o \in Split(leaf, held, TRUE) :
                Ended(o) /\ (o.end = "ok" => Replaces(leaf) \subseteq DocWrites(o.result))
<1> DEFINE told(outs) == [outputs |-> outs, count |-> Len(outs)]
           pieces == [k \in DOMAIN leaf.parts |->
                         File("pdf", Open, Selection(Pages(held, leaf.input), leaf.parts[k]))]
           new(outs) == WrittenInTurn(held, outs, pieces)
<1>1. \A o \in Split(leaf, held, FALSE) :
        o \in Raises(held) \/ \E outs \in SplitNames(leaf, held) : o \in Returns(new(outs), told(outs))
  BY DEF Split
<1>2. \A o \in Split(leaf, held, TRUE) :
        o \in Raises(held) \/ \E outs \in SplitNames(leaf, held) : o \in Returns(held, told(outs))
  BY DEF Split
<1>3. ASSUME NEW outs \in SplitNames(leaf, held)
      PROVE  KeepsBut(held, new(outs), Replaces(leaf)) /\ Replaces(leaf) \subseteq DocWrites(told(outs))
  <2>1. Range(outs) \cap DOMAIN held \subseteq Replaces(leaf) /\ Replaces(leaf) \subseteq Range(outs)
    BY SplitNamesFree
  <2>2. \A p \in DOMAIN held \ Range(outs) : new(outs)[p] = held[p]
    BY DEF WrittenInTurn
  <2>3. DOMAIN held \subseteq DOMAIN new(outs)
    BY DEF WrittenInTurn
  <2>4. Range(outs) \subseteq DocWrites(told(outs))
    BY DEF DocWrites
  <2> QED BY <2>1, <2>2, <2>3, <2>4 DEF KeepsBut
<1> HIDE DEF told, new
<1>4. ASSUME NEW o \in Split(leaf, held, FALSE)
      PROVE  KeepsBut(held, o.files, Replaces(leaf)) /\ Ended(o)
  <2>1. CASE o \in Raises(held)
    BY <2>1, RaisesKeeps DEF Ended
  <2>2. CASE \E outs \in SplitNames(leaf, held) : o \in Returns(new(outs), told(outs))
    <3>1. PICK outs \in SplitNames(leaf, held) : o \in Returns(new(outs), told(outs))
      BY <2>2
    <3>2. o.files = new(outs) /\ o.end = "ok"
      BY <3>1, ReturnsIs
    <3> QED BY <3>2, <1>3 DEF Ended
  <2> QED BY <1>1, <2>1, <2>2
<1>5. ASSUME NEW o \in Split(leaf, held, TRUE)
      PROVE  Ended(o) /\ (o.end = "ok" => Replaces(leaf) \subseteq DocWrites(o.result))
  <2>1. CASE o \in Raises(held)
    BY <2>1, RaisesKeeps DEF Ended
  <2>2. CASE \E outs \in SplitNames(leaf, held) : o \in Returns(held, told(outs))
    <3>1. PICK outs \in SplitNames(leaf, held) : o \in Returns(held, told(outs))
      BY <2>2
    <3> QED BY <3>1, <1>3, PreviewOutcome
  <2> QED BY <1>2, <2>1, <2>2
<1> QED BY <1>4, <1>5

---------------------------------------------------------------------------
\* Any leaf.

LeafTools ==
    (Tools \ {"compress_pdf", "ocr_document"}) \cup {"run_compress", "verify_output", "run_ocr"}

WholeLeaf(leaf) ==
    leaf.tool \in LeafTools /\ (leaf.tool = "merge_pdfs" => leaf.out # NoFile)

LEMMA LeafKeeps ==
    ASSUME NEW leaf, WholeLeaf(leaf), NEW held, NEW told, NEW tools, NEW o \in DocDo(leaf, held, told, tools)
    PROVE  KeepsBut(held, o.files, Replaces(leaf)) /\ Ended(o)
<1>1. CASE leaf.tool = "inspect_document"
  <2>1. o \in Inspect(leaf, held, FALSE)
    BY <1>1 DEF DocDo, Handle
  <2> QED BY <1>1, <2>1, ReadersOnlyRead
<1>2. CASE leaf.tool \in {"extract_text", "find_in_document"}
  <2>1. o \in ReadText(leaf, held, tools)
    BY <1>2 DEF DocDo, Handle
  <2> QED BY <1>2, <2>1, ReadersOnlyRead
<1>3. CASE leaf.tool = "merge_pdfs"
  <2>1. o \in Merge(leaf, held, FALSE)
    BY <1>3 DEF DocDo, Handle
  <2> QED BY <1>3, <2>1, MergeKeeps DEF WholeLeaf
<1>4. CASE leaf.tool = "split_pdf"
  <2>1. o \in Split(leaf, held, FALSE)
    BY <1>4 DEF DocDo, Handle
  <2> QED BY <1>4, <2>1, SplitKeeps
<1>5. CASE leaf.tool \in PageTools
  <2>1. o \in EditPages(leaf, held, FALSE)
    BY <1>5 DEF DocDo, Handle, PageTools
  <2>2. \A x \in EditPages(leaf, held, FALSE) : KeepsBut(held, x.files, Replaces(leaf)) /\ Ended(x)
    BY <1>5, EditPagesKeeps
  <2> QED BY <2>1, <2>2
<1>6. CASE leaf.tool \in ReworkTools
  <2>1. o \in Rework(leaf, held, FALSE)
    BY <1>6 DEF DocDo, Handle, ReworkTools
  <2>2. \A x \in Rework(leaf, held, FALSE) : KeepsBut(held, x.files, Replaces(leaf)) /\ Ended(x)
    BY <1>6, ReworkKeeps
  <2> QED BY <2>1, <2>2
<1>7. CASE leaf.tool = "convert_document"
  <2>1. o \in Convert(leaf, held, FALSE, tools)
    BY <1>7 DEF DocDo, Handle
  <2> QED BY <1>7, <2>1, ConvertKeeps
<1>8. CASE leaf.tool = "run_compress"
  <2>1. o \in Compress(leaf, held, FALSE, tools)
    BY <1>8 DEF DocDo, Handle
  <2> QED BY <1>8, <2>1, CompressKeeps
<1>9. CASE leaf.tool = "verify_output"
  <2>1. o \in Verify(leaf, held, told[1], told[2])
    BY <1>9 DEF DocDo, Handle
  <2> QED BY <1>9, <2>1, VerifyOnlyReads
<1>10. CASE leaf.tool = "run_ocr"
  <2>1. o \in Ocr(leaf, held, told[1], FALSE, tools)
    BY <1>10 DEF DocDo, Handle
  <2> QED BY <1>10, <2>1, OcrKeeps
<1> QED BY <1>1, <1>2, <1>3, <1>4, <1>5, <1>6, <1>7, <1>8, <1>9, <1>10
        DEF WholeLeaf, LeafTools, Tools, PageTools, ReworkTools

LEMMA LeafTells ==
    ASSUME NEW leaf, WholeLeaf(leaf), NEW held, NEW told, NEW tools, NEW o \in DocDry(leaf, held, told, tools)
    PROVE  Ended(o) /\ (o.end = "ok" => Replaces(leaf) \subseteq DocWrites(o.result))
<1> DEFINE reads == {"inspect_document", "extract_text", "find_in_document", "verify_output"}
<1>0. leaf.tool \in reads => Replaces(leaf) = {}
  BY DEF Replaces
<1>1. CASE leaf.tool = "inspect_document"
  <2>1. o \in Inspect(leaf, held, TRUE)
    BY <1>1 DEF DocDry, Handle
  <2> QED BY <1>0, <1>1, <2>1, ReadersOnlyRead
<1>2. CASE leaf.tool \in {"extract_text", "find_in_document"}
  <2>1. o \in ReadText(leaf, held, tools)
    BY <1>2 DEF DocDry, Handle
  <2> QED BY <1>0, <1>2, <2>1, ReadersOnlyRead
<1>3. CASE leaf.tool = "merge_pdfs"
  <2>1. o \in Merge(leaf, held, TRUE)
    BY <1>3 DEF DocDry, Handle
  <2> QED BY <1>3, <2>1, MergeKeeps DEF WholeLeaf
<1>4. CASE leaf.tool = "split_pdf"
  <2>1. o \in Split(leaf, held, TRUE)
    BY <1>4 DEF DocDry, Handle
  <2> QED BY <1>4, <2>1, SplitKeeps
<1>5. CASE leaf.tool \in PageTools
  <2>1. o \in EditPages(leaf, held, TRUE)
    BY <1>5 DEF DocDry, Handle, PageTools
  <2>2. \A x \in EditPages(leaf, held, TRUE) : Ended(x) /\ (x.end = "ok" => Replaces(leaf) \subseteq DocWrites(x.result))
    BY <1>5, EditPagesKeeps
  <2> QED BY <2>1, <2>2
<1>6. CASE leaf.tool \in ReworkTools
  <2>1. o \in Rework(leaf, held, TRUE)
    BY <1>6 DEF DocDry, Handle, ReworkTools
  <2>2. \A x \in Rework(leaf, held, TRUE) : Ended(x) /\ (x.end = "ok" => Replaces(leaf) \subseteq DocWrites(x.result))
    BY <1>6, ReworkKeeps
  <2> QED BY <2>1, <2>2
<1>7. CASE leaf.tool = "convert_document"
  <2>1. o \in Convert(leaf, held, TRUE, tools)
    BY <1>7 DEF DocDry, Handle
  <2> QED BY <1>7, <2>1, ConvertKeeps
<1>8. CASE leaf.tool = "run_compress"
  <2>1. o \in Compress(leaf, held, TRUE, tools)
    BY <1>8 DEF DocDry, Handle
  <2> QED BY <1>8, <2>1, CompressKeeps
<1>9. CASE leaf.tool = "verify_output"
  <2>1. o \in Verify(leaf, held, told[1], told[2])
    BY <1>9 DEF DocDry, Handle
  <2> QED BY <1>0, <1>9, <2>1, VerifyOnlyReads
<1>10. CASE leaf.tool = "run_ocr"
  <2>1. o \in Ocr(leaf, held, told[1], TRUE, tools)
    BY <1>10 DEF DocDry, Handle
  <2> QED BY <1>10, <2>1, OcrKeeps
<1> QED BY <1>1, <1>2, <1>3, <1>4, <1>5, <1>6, <1>7, <1>8, <1>9, <1>10
        DEF WholeLeaf, LeafTools, Tools, PageTools, ReworkTools

\* The leaves of an intent are whole and replace no more than it names.
LEMMA LeavesAreWhole ==
    ASSUME NEW p \in Plans, NEW i \in DOMAIN p
    PROVE  /\ Len(DocLeaves(p[i])) \in Nat \ {0}
           /\ DOMAIN DocLeaves(p[i]) = 1..Len(DocLeaves(p[i]))
           /\ \A k \in DOMAIN DocLeaves(p[i]) :
                WholeLeaf(DocLeaves(p[i])[k]) /\ Replaces(DocLeaves(p[i])[k]) \subseteq DocNamed(p[i])
<1> DEFINE it == p[i]
           As(tool) == [it EXCEPT !.tool = tool]
<1>1. /\ it = [field \in DOMAIN it |-> it[field]] /\ {"tool", "out", "parts"} \subseteq DOMAIN it
      /\ it.tool \in Tools /\ (it.tool = "merge_pdfs" => it.out # NoFile)
  BY PlansAreWhole
<1> HIDE DEF it
<1>2. \A tool : As(tool).tool = tool /\ As(tool).out = it.out
  BY <1>1
<1>3. \A tool \in {"inspect_document", "run_compress", "verify_output", "run_ocr"} :
        WholeLeaf(As(tool)) /\ Replaces(As(tool)) \subseteq DocNamed(it)
  BY <1>2 DEF WholeLeaf, LeafTools, Tools, Replaces, DocNamed
<1> HIDE DEF As
<1>4. CASE it.tool = "compress_pdf"
  <2>1. DocLeaves(it) = <<As("inspect_document"), As("run_compress"), As("verify_output")>>
    BY <1>4 DEF DocLeaves, As
  <2> QED BY <2>1, <1>3 DEF it
<1>5. CASE it.tool = "ocr_document"
  <2>1. DocLeaves(it) = <<As("inspect_document"), As("run_ocr")>>
    BY <1>5 DEF DocLeaves, As
  <2> QED BY <2>1, <1>3 DEF it
<1>6. CASE it.tool \notin {"compress_pdf", "ocr_document"}
  <2>1. DocLeaves(it) = <<it>>
    BY <1>6 DEF DocLeaves
  <2>2. WholeLeaf(it) /\ Replaces(it) \subseteq DocNamed(it)
    BY <1>1, <1>6 DEF WholeLeaf, LeafTools, Replaces, DocNamed
  <2> QED BY <2>1, <2>2 DEF it
<1> QED BY <1>4, <1>5, <1>6

---------------------------------------------------------------------------
\* The inductive invariant: the previewed leaves have reported what they would
\* replace, the gate holds all of it, and past the gate all of it is agreed to
\* or made by this run.

LeafReplaces(i, k) == Replaces(DocLeaves(plan[i])[k])

IsLeaf(i, k) == i \in DOMAIN plan /\ k \in DOMAIN DocLeaves(plan[i])

Covered(paths) == \A i, k : IsLeaf(i, k) => LeafReplaces(i, k) \cap DOMAIN files \subseteq paths

Previewed(i, k) == i < bi \/ (i = bi /\ k < li)

AtLeaf ==
    /\ plan \in Plans
    /\ bi \in 1..(Len(plan) + 1) /\ li \in Nat \ {0}
    /\ bi \in DOMAIN plan => li \in DOMAIN DocLeaves(plan[bi])

Phases == {"preview", "gate", "check", "intent", "leaf", "over"}

GateInv ==
    /\ AtLeaf
    /\ phase \in Phases
    /\ agreed \subseteq DOMAIN files
    /\ phase = "preview" => \A i, k : IsLeaf(i, k) /\ Previewed(i, k) => LeafReplaces(i, k) \subseteq found
    /\ phase = "gate" => found \subseteq DOMAIN files /\ Covered(found \cup agreed)
    /\ phase \in {"check", "intent", "leaf"} => Covered(made \cup agreed)
    /\ phase = "leaf" => bi \in DOMAIN plan

LEMMA PlanIsSeq ==
    ASSUME AtLeaf
    PROVE  Len(plan) \in Nat /\ DOMAIN plan = 1..Len(plan)
<1>1. plan \in Seq(Range(plan))
  BY PlansAreWhole DEF AtLeaf
<1> QED BY <1>1

\* The leaves of the plan, as LeavesAreWhole tells them.
LEMMA PlanLeaves ==
    ASSUME AtLeaf, NEW i \in DOMAIN plan
    PROVE  /\ Len(DocLeaves(plan[i])) \in Nat \ {0}
           /\ DOMAIN DocLeaves(plan[i]) = 1..Len(DocLeaves(plan[i]))
           /\ \A k \in DOMAIN DocLeaves(plan[i]) :
                WholeLeaf(DocLeaves(plan[i])[k]) /\ LeafReplaces(i, k) \subseteq DocNamed(plan[i])
  BY LeavesAreWhole DEF AtLeaf, LeafReplaces

LEMMA FirstLeaf ==
    ASSUME AtLeaf
    PROVE  /\ 1 \in 1..(Len(plan) + 1)
           /\ 1 \in DOMAIN plan => 1 \in DOMAIN DocLeaves(plan[1])
  BY PlanIsSeq, PlanLeaves

\* Advancing stays on a leaf or goes past the last, and passes the leaf it was on.
LEMMA AdvanceMoves ==
    ASSUME AtLeaf, bi \in DOMAIN plan, NEW told, Advance(told), UNCHANGED plan
    PROVE  /\ AtLeaf'
           /\ \A i, k : IsLeaf(i, k) /\ Previewed(i, k)' => Previewed(i, k) \/ (i = bi /\ k = li)
<1>1. /\ Len(plan) \in Nat /\ DOMAIN plan = 1..Len(plan)
  BY PlanIsSeq
<1>2. /\ Len(DocLeaves(plan[bi])) \in Nat \ {0}
      /\ DOMAIN DocLeaves(plan[bi]) = 1..Len(DocLeaves(plan[bi]))
  BY PlanLeaves
<1>3. \A i \in DOMAIN plan : 1 \in DOMAIN DocLeaves(plan[i])
  BY PlanLeaves
<1>4. li \in 1..Len(DocLeaves(plan[bi])) /\ bi \in 1..Len(plan) /\ plan \in Plans
  BY <1>1, <1>2 DEF AtLeaf
<1>5. CASE li < Len(DocLeaves(plan[bi]))
  <2>1. li' = li + 1 /\ bi' = bi
    BY <1>5 DEF Advance, Block
  <2>2. AtLeaf'
    BY <1>1, <1>2, <1>4, <1>5, <2>1 DEF AtLeaf
  <2>3. ASSUME NEW i, NEW k, IsLeaf(i, k), Previewed(i, k)'
        PROVE  Previewed(i, k) \/ (i = bi /\ k = li)
    <3>1. i \in 1..Len(plan)
      BY <1>1, <2>3 DEF IsLeaf
    <3>2. k \in Nat
      BY <2>3, PlanLeaves DEF IsLeaf
    <3> QED BY <1>4, <2>1, <2>3, <3>1, <3>2 DEF Previewed
  <2> QED BY <2>2, <2>3
<1>6. CASE ~(li < Len(DocLeaves(plan[bi])))
  <2>1. bi' = bi + 1 /\ li' = 1
    BY <1>6 DEF Advance, Block
  <2>2. AtLeaf'
    BY <1>1, <1>3, <1>4, <2>1 DEF AtLeaf
  <2>3. ASSUME NEW i, NEW k, IsLeaf(i, k), Previewed(i, k)'
        PROVE  Previewed(i, k) \/ (i = bi /\ k = li)
    <3>1. i \in 1..Len(plan)
      BY <1>1, <2>3 DEF IsLeaf
    <3>2. k \in 1..Len(DocLeaves(plan[i]))
      BY <2>3, PlanLeaves DEF IsLeaf
    <3>3. li = Len(DocLeaves(plan[bi]))
      <4>1. \A n \in Nat : \A m \in 1..n : ~(m < n) => m = n
        OBVIOUS
      <4> QED BY <4>1, <1>2, <1>4, <1>6
    <3>4. CASE i = bi
      BY <3>2, <3>3, <3>4, <1>2, <1>4 DEF Previewed
    <3>5. CASE i # bi
      <4>1. i < bi + 1
        BY <2>1, <2>3, <3>2, <3>1 DEF Previewed
      <4> QED BY <4>1, <3>1, <3>5, <1>4 DEF Previewed
    <3> QED BY <3>4, <3>5
  <2> QED BY <2>2, <2>3
<1> QED BY <1>5, <1>6

---------------------------------------------------------------------------
\* The invariant holds at the start and every action keeps it.

LEMMA InitHolds ==
    ASSUME Init
    PROVE  GateInv
<1>1. plan \in Plans /\ bi = 1 /\ li = 1
  BY DEF Init
<1>2. plan \in Seq(Range(plan))
  BY <1>1, PlansAreWhole
<1>3. Len(plan) \in Nat /\ DOMAIN plan = 1..Len(plan)
  BY <1>2
<1>4. \A i \in DOMAIN plan :
        DOMAIN DocLeaves(plan[i]) = 1..Len(DocLeaves(plan[i])) /\ Len(DocLeaves(plan[i])) \in Nat \ {0}
  BY <1>1, LeavesAreWhole
<1>5. AtLeaf
  BY <1>1, <1>3, <1>4 DEF AtLeaf
<1>6. ASSUME NEW i, NEW k, IsLeaf(i, k)
      PROVE  ~Previewed(i, k)
  <2>1. i \in 1..Len(plan) /\ k \in 1..Len(DocLeaves(plan[i]))
    BY <1>3, <1>4, <1>6 DEF IsLeaf
  <2> QED BY <1>1, <1>3, <1>4, <2>1, <1>6 DEF Previewed, IsLeaf
<1>7. phase = "preview" /\ agreed = {}
  BY DEF Init
<1> QED BY <1>5, <1>6, <1>7 DEF GateInv, Phases

\* The gate asks about what the preview found, or about all that is named.
LEMMA ToGateHolds ==
    ASSUME AtLeaf, NEW paths, ToGate(paths), UNCHANGED <<plan, files, agreed>>,
           agreed \subseteq DOMAIN files,
           \A i, k : IsLeaf(i, k) => LeafReplaces(i, k) \subseteq paths
    PROVE  GateInv'
<1>1. bi' = 1 /\ li' = 1 /\ phase' = "gate" /\ found' = paths \cap DOMAIN files
  BY DEF ToGate
<1>2. AtLeaf'
  BY <1>1, FirstLeaf, PlanIsSeq DEF AtLeaf
<1>3. Covered(found \cup agreed)'
  BY <1>1 DEF Covered, IsLeaf, LeafReplaces
<1> QED BY <1>1, <1>2, <1>3 DEF GateInv, Phases

LEMMA PreviewHolds ==
    ASSUME GateInv, PreviewLeaf
    PROVE  GateInv'
<1>1. /\ phase = "preview" /\ AtLeaf /\ agreed \subseteq DOMAIN files
      /\ UNCHANGED <<plan, files, agreed>>
      /\ \A i, k : IsLeaf(i, k) /\ Previewed(i, k) => LeafReplaces(i, k) \subseteq found
  BY DEF GateInv, PreviewLeaf, request
<1>2. bi \in DOMAIN plan /\ li \in DOMAIN DocLeaves(plan[bi])
  <2>1. bi \in 1..(Len(plan) + 1) /\ ~(bi > Len(plan))
    BY <1>1 DEF AtLeaf, PreviewLeaf, PastLast
  <2>2. bi \in DOMAIN plan
    BY <1>1, <2>1, PlanIsSeq
  <2> QED BY <1>1, <2>2 DEF AtLeaf
<1>3. PICK o \in DocDry(Leaf, files, bound, setting) :
        CASE o.end = "raised" -> ToGate(NamedOutputs)
          [] o.end = "ok"     -> /\ found' = found \cup DocWrites(o.result)
                                 /\ Advance(o.result)
                                 /\ UNCHANGED phase
          [] OTHER            -> ToGate(found \cup DocWrites(o.result))
  BY DEF PreviewLeaf
<1>4. WholeLeaf(Leaf)
  BY <1>1, <1>2, PlanLeaves DEF Leaf, Block
<1>5. Ended(o) /\ (o.end = "ok" => Replaces(Leaf) \subseteq DocWrites(o.result))
  BY <1>4, LeafTells
<1>6. CASE o.end = "raised"
  <2>1. ToGate(NamedOutputs)
    BY <1>3, <1>6
  <2>2. \A i, k : IsLeaf(i, k) => LeafReplaces(i, k) \subseteq NamedOutputs
    BY <1>1, PlanLeaves DEF IsLeaf, NamedOutputs
  <2> QED BY <1>1, <2>1, <2>2, ToGateHolds
<1>7. CASE o.end = "ok"
  <2>1. found' = found \cup DocWrites(o.result) /\ Advance(o.result) /\ phase' = "preview"
    BY <1>1, <1>3, <1>7
  <2>2. /\ AtLeaf'
        /\ \A i, k : IsLeaf(i, k) /\ Previewed(i, k)' => Previewed(i, k) \/ (i = bi /\ k = li)
    BY <1>1, <1>2, <2>1, AdvanceMoves
  <2>3. LeafReplaces(bi, li) \subseteq found'
    BY <1>5, <1>7, <2>1 DEF LeafReplaces, Leaf, Block
  <2>4. \A i, k : (IsLeaf(i, k) /\ Previewed(i, k))' => LeafReplaces(i, k)' \subseteq found'
    BY <1>1, <2>1, <2>2, <2>3 DEF IsLeaf, LeafReplaces
  <2> QED BY <1>1, <2>1, <2>2, <2>4 DEF GateInv, Phases
<1> QED BY <1>5, <1>6, <1>7 DEF Ended

LEMMA PreviewEndHolds ==
    ASSUME GateInv, PreviewEnds
    PROVE  GateInv'
<1>1. /\ phase = "preview" /\ AtLeaf /\ agreed \subseteq DOMAIN files
      /\ UNCHANGED <<plan, files, agreed>> /\ ToGate(found) /\ bi > Len(plan)
      /\ \A i, k : IsLeaf(i, k) /\ Previewed(i, k) => LeafReplaces(i, k) \subseteq found
  BY DEF GateInv, PreviewEnds, PastLast, request
<1>2. \A i, k : IsLeaf(i, k) => Previewed(i, k)
  BY <1>1, PlanIsSeq DEF IsLeaf, Previewed, AtLeaf
<1> QED BY <1>1, <1>2, ToGateHolds

\* An action that leaves the folder and the plan alone, and does not preview.
LEMMA QuietHolds ==
    ASSUME GateInv, UNCHANGED <<plan, files, made, bi, li>>,
           agreed' \subseteq DOMAIN files,
           phase' \in Phases \ {"preview"},
           phase' = "gate" => found' \subseteq DOMAIN files /\ Covered(found' \cup agreed'),
           phase' \in {"check", "intent", "leaf"} => Covered(made \cup agreed'),
           phase' = "leaf" => bi \in DOMAIN plan
    PROVE  GateInv'
<1>1. AtLeaf'
  BY DEF GateInv, AtLeaf
<1>2. \A paths : Covered(paths) => \A i, k : IsLeaf(i, k)' => LeafReplaces(i, k)' \cap DOMAIN files' \subseteq paths
  BY DEF Covered, IsLeaf, LeafReplaces
<1>3. phase' = "gate" => Covered(found \cup agreed)'
  BY <1>2 DEF Covered
<1>4. phase' \in {"check", "intent", "leaf"} => Covered(made \cup agreed)'
  BY <1>2 DEF Covered
<1> QED BY <1>1, <1>3, <1>4 DEF GateInv

LEMMA AskHolds ==
    ASSUME GateInv, NEW yes \in BOOLEAN, AskReplace(yes)
    PROVE  GateInv' /\ Kept!Agree
<1>1. /\ phase = "gate" /\ UNCHANGED <<plan, files, made, bi, li>>
      /\ agreed \subseteq DOMAIN files /\ found \subseteq DOMAIN files /\ Covered(found \cup agreed)
  BY DEF GateInv, AskReplace, request, place
<1>2. PICK p \in found :
        IF yes
        THEN agreed' = agreed \cup {p} /\ found' = found \ {p} /\ UNCHANGED <<phase, exit>>
        ELSE End(0) /\ UNCHANGED <<agreed, found>>
  BY DEF AskReplace
<1>3. CASE yes
  <2>1. phase' = "gate" /\ agreed' = agreed \cup {p} /\ found' = found \ {p}
    BY <1>1, <1>2, <1>3
  <2>2. found' \cup agreed' = found \cup agreed
    BY <2>1
  <2>3. Covered(found' \cup agreed')
    BY <1>1, <2>2
  <2> QED BY <1>1, <2>1, <2>3, QuietHolds DEF Phases, Kept!Agree
<1>4. CASE ~yes
  <2>1. phase' = "over" /\ agreed' = agreed
    BY <1>2, <1>4 DEF End
  <2> QED BY <1>1, <2>1, QuietHolds DEF Phases, Kept!Agree
<1> QED BY <1>3, <1>4

\* Once nothing is left to ask about, what may be replaced is agreed to.
LEMMA GateOpenHolds ==
    ASSUME GateInv, GateOpen
    PROVE  GateInv'
<1>1. /\ phase = "gate" /\ phase' = "check" /\ found = {} /\ UNCHANGED <<plan, files, made, bi, li, agreed>>
      /\ agreed \subseteq DOMAIN files /\ Covered(found \cup agreed)
  BY DEF GateInv, GateOpen, request, place
<1>2. Covered(made \cup agreed')
  BY <1>1 DEF Covered
<1> QED BY <1>1, <1>2, QuietHolds DEF Phases

LEMMA StopHolds ==
    ASSUME GateInv, NobodyToAsk \/ PlanDone
    PROVE  GateInv'
<1>1. /\ phase' = "over" /\ UNCHANGED <<plan, files, made, bi, li, agreed>>
      /\ agreed \subseteq DOMAIN files
  BY DEF GateInv, NobodyToAsk, PlanDone, Finish, End, request, place
<1> QED BY <1>1, QuietHolds DEF Phases

LEMMA CheckHolds ==
    ASSUME GateInv, Check \/ \E ok \in BOOLEAN : ShowIntent(ok)
    PROVE  GateInv'
<1>1. /\ UNCHANGED <<plan, files, made, bi, li, agreed>> /\ agreed \subseteq DOMAIN files
      /\ Covered(made \cup agreed) /\ AtLeaf
  BY DEF GateInv, Check, ShowIntent, request, place
<1>2. phase' \in {"intent", "leaf", "over"}
  BY DEF Check, ShowIntent, Finish, End
<1>3. phase' = "leaf" => bi \in DOMAIN plan
  <2>1. phase' = "leaf" => ~PastLast
    BY DEF Check, ShowIntent, Finish, End
  <2> QED BY <1>1, <2>1, PlanIsSeq DEF AtLeaf, PastLast
<1>4. Covered(made \cup agreed')
  BY <1>1
<1> QED BY <1>1, <1>2, <1>3, <1>4, QuietHolds DEF Phases

\* Everybody's files outlive a step of the run, and what it adds it made.
LEMMA RunHolds ==
    ASSUME GateInv, RunLeaf
    PROVE  GateInv' /\ Kept!Work
<1>1. /\ phase = "leaf" /\ AtLeaf /\ agreed \subseteq DOMAIN files /\ bi \in DOMAIN plan
      /\ Covered(made \cup agreed) /\ UNCHANGED <<plan, agreed>>
  BY DEF GateInv, RunLeaf, request
<1>2. li \in DOMAIN DocLeaves(plan[bi])
  BY <1>1 DEF AtLeaf
<1>3. PICK o \in DocDo(Leaf, files, bound, setting) :
        /\ files' = o.files
        /\ made' = made \cup (DOMAIN o.files \ DOMAIN files)
        /\ IF o.end = "raised"
           THEN End(1) /\ UNCHANGED <<place, results, errors>>
           ELSE IF o.end = "ok"
                THEN Advance(o.result) /\ phase' = (IF bi' # bi THEN "intent" ELSE phase)
                ELSE Finish /\ UNCHANGED place
  BY DEF RunLeaf
<1>4. WholeLeaf(Leaf)
  BY <1>1, <1>2, PlanLeaves DEF Leaf, Block
<1>5. KeepsBut(files, files', Replaces(Leaf)) /\ Ended(o)
  BY <1>3, <1>4, LeafKeeps
<1>6. Replaces(Leaf) \cap DOMAIN files \subseteq made \cup agreed
  BY <1>1, <1>2 DEF Covered, IsLeaf, LeafReplaces, Leaf, Block
<1>7. Kept!Work
  BY <1>1, <1>3, <1>5, <1>6 DEF KeepsBut, Kept!Work, Kept!NoneDeleted, Kept!OthersKept
<1>8. Covered(made \cup agreed)'
  BY <1>1, <1>3, <1>5 DEF KeepsBut, Covered, IsLeaf, LeafReplaces
<1>9. AtLeaf' /\ phase' \in {"intent", "leaf", "over"} /\ (phase' = "leaf" => bi' \in DOMAIN plan')
  <2>1. CASE o.end = "raised"
    <3>1. phase' = "over" /\ UNCHANGED <<bi, li>>
      BY <1>3, <2>1 DEF End, place
    <3> QED BY <1>1, <3>1 DEF AtLeaf
  <2>2. CASE o.end = "ok"
    <3>1. Advance(o.result) /\ phase' = (IF bi' # bi THEN "intent" ELSE phase)
      BY <1>3, <2>2
    <3> QED BY <1>1, <3>1, AdvanceMoves
  <2> QED BY <1>5, <2>1, <2>2 DEF Ended
<1>10. agreed' \subseteq DOMAIN files'
  BY <1>1, <1>5 DEF KeepsBut
<1> QED BY <1>7, <1>8, <1>9, <1>10 DEF GateInv, Phases

\* A newcomer has no name of the plan's.
LEMMA PutHolds ==
    ASSUME GateInv, NEW p \in DOMAIN Newcomers, Put(p)
    PROVE  GateInv' /\ Kept!Work
<1>1. /\ UNCHANGED <<plan, bi, li, phase, found, agreed, made>> /\ p \notin DOMAIN files
      /\ DOMAIN files' = DOMAIN files \cup {p} /\ \A q \in DOMAIN files : files'[q] = files[q]
      /\ AtLeaf
  BY DEF GateInv, Put, request, place
<1>2. \A i, k : IsLeaf(i, k) => p \notin LeafReplaces(i, k)
  <2>1. \A i \in DOMAIN plan : DocNamed(plan[i]) \cap DOMAIN Newcomers = {}
    BY <1>1, NewcomersElsewhere DEF AtLeaf
  <2> QED BY <1>1, <2>1, PlanLeaves DEF IsLeaf
<1>3. \A paths : Covered(paths) =>
        \A i, k : IsLeaf(i, k) => LeafReplaces(i, k) \cap DOMAIN files' \subseteq paths
  BY <1>1, <1>2 DEF Covered
<1>4. \A i, k : (IsLeaf(i, k)' <=> IsLeaf(i, k)) /\ LeafReplaces(i, k)' = LeafReplaces(i, k)
                /\ (Previewed(i, k)' <=> Previewed(i, k))
  BY <1>1 DEF IsLeaf, LeafReplaces, Previewed
<1>5. (phase = "gate" => Covered(found \cup agreed)') /\ (phase \in {"check", "intent", "leaf"} => Covered(made \cup agreed)')
  BY <1>1, <1>3, <1>4 DEF GateInv, Covered
<1>6. AtLeaf'
  BY <1>1 DEF AtLeaf
<1>7. GateInv'
  BY <1>1, <1>4, <1>5, <1>6 DEF GateInv
<1>8. Kept!Work
  BY <1>1 DEF Kept!Work, Kept!NoneDeleted, Kept!OthersKept
<1> QED BY <1>7, <1>8

LEMMA StepHolds ==
    ASSUME GateInv, [Next]_vars
    PROVE  GateInv' /\ [Kept!Agree \/ Kept!Work]_(Kept!keptVars)
<1>1. CASE UNCHANGED vars
  <2>1. UNCHANGED <<plan, files, phase, bi, li, found, agreed, made>>
    BY <1>1 DEF vars, request, place
  <2>2. GateInv'
    BY <2>1 DEF GateInv, AtLeaf, Covered, IsLeaf, LeafReplaces, Previewed
  <2> QED BY <2>1, <2>2 DEF Kept!keptVars
<1>2. CASE PreviewLeaf \/ PreviewEnds \/ NobodyToAsk \/ GateOpen \/ Check
           \/ (\E ok \in BOOLEAN : ShowIntent(ok)) \/ PlanDone
  <2>1. UNCHANGED <<files, made, agreed>>
    BY <1>2 DEF PreviewLeaf, PreviewEnds, NobodyToAsk, GateOpen, Check, ShowIntent, PlanDone
  <2>2. GateInv'
    BY <1>2, PreviewHolds, PreviewEndHolds, GateOpenHolds, StopHolds, CheckHolds
  <2> QED BY <2>1, <2>2 DEF Kept!keptVars
<1>3. CASE \E yes \in BOOLEAN : AskReplace(yes)
  BY <1>3, AskHolds
<1>4. CASE RunLeaf
  BY <1>4, RunHolds
<1>5. CASE \E p \in DOMAIN Newcomers : Put(p)
  BY <1>5, PutHolds
<1> QED BY <1>1, <1>2, <1>3, <1>4, <1>5 DEF Next

\* A console run of the documents skill carries out the promise of KeptFolder,
\* whatever the plan, the folder, the tools installed and the newcomers: no file
\* is deleted, and a file that was there is replaced only after the user said
\* yes to it (app.py:615-620, _engine.py:75-89).
THEOREM DocumentsKeepFolder == Spec => FolderIsKept
<1>1. Init => GateInv /\ Kept!NothingMade
  BY InitHolds DEF Init, Kept!NothingMade
<1>2. GateInv /\ [Next]_vars => GateInv' /\ [Kept!Agree \/ Kept!Work]_(Kept!keptVars)
  BY StepHolds
<1> QED BY <1>1, <1>2, PTL DEF Spec, FolderIsKept, Kept!KeptSpec

---------------------------------------------------------------------------
\* What a leaf makes of what was under a password.  locks tells of each file
\* that nobody may open which password it has.

FreePages(pages, locks) ==
    /\ pages \in Seq(Range(pages))
    /\ \A i \in DOMAIN pages : IsPage(pages[i]) /\ pages[i].of[1] \notin DOMAIN locks

Guarded(file, locks) ==
    /\ IsFile(file)
    /\ \A i \in DOMAIN file.pages :
          file.pages[i].of[1] \in DOMAIN locks => file.lock = locks[file.pages[i].of[1]]

GuardedFolder(held, locks) == \A p \in DOMAIN held : Guarded(held[p], locks)

AreLocks(locks) == \A source \in DOMAIN locks : locks[source] # Open

\* A leaf that returns tells of files that are there, and their number of pages.
Truthful(o) ==
    o.end = "ok" =>
        /\ DocWrites(o.result) \subseteq DOMAIN o.files
        /\ "pages" \in DOMAIN o.result =>
              /\ "output" \in DOMAIN o.result
              /\ o.result.pages = Len(o.files[o.result.output].pages)

LeavesGuarded(o, locks) == GuardedFolder(o.files, locks) /\ Truthful(o)

LEMMA OpenIsFree ==
    ASSUME NEW locks, AreLocks(locks), NEW held, GuardedFolder(held, locks),
           NEW p \in DOMAIN held, held[p].lock = Open
    PROVE  FreePages(held[p].pages, locks)
  BY DEF AreLocks, GuardedFolder, Guarded, IsFile, FreePages

LEMMA FreeIsGuarded ==
    ASSUME NEW locks, NEW pages, FreePages(pages, locks), NEW kind, kind # "image",
           NEW lock, lock # Open => kind = "pdf"
    PROVE  Guarded(File(kind, lock, pages), locks) /\ File(kind, lock, pages).pages = pages
  BY DEF FreePages, Guarded, IsFile, File

LEMMA WrittenGuarded ==
    ASSUME NEW locks, NEW held, GuardedFolder(held, locks), NEW file, Guarded(file, locks), NEW path
    PROVE  GuardedFolder(Written(held, path, file), locks)
  BY DEF GuardedFolder, Written

LEMMA PickedFree ==
    ASSUME NEW locks, NEW pages, FreePages(pages, locks), NEW n \in Nat, NEW at,
           \A k \in 1..n : at[k] \in DOMAIN pages
    PROVE  /\ FreePages([k \in 1..n |-> pages[at[k]]], locks)
           /\ Len([k \in 1..n |-> pages[at[k]]]) = n
<1> DEFINE new == [k \in 1..n |-> pages[at[k]]]
<1>1. new \in [1..n -> Range(new)]
  BY DEF Range
<1>2. new \in Seq(Range(new)) /\ Len(new) = n
  <2> HIDE DEF new
  <2>1. \A S : [1..n -> S] \subseteq Seq(S)
    OBVIOUS
  <2>2. DOMAIN new = 1..n
    BY <1>1
  <2> QED BY <1>1, <2>1, <2>2
<1>3. \A k \in DOMAIN new : new[k] = pages[at[k]] /\ at[k] \in DOMAIN pages
  OBVIOUS
<1> HIDE DEF new
<1>4. FreePages(new, locks)
  BY <1>2, <1>3 DEF FreePages
<1> QED BY <1>2, <1>4 DEF new

LEMMA ChangedFree ==
    ASSUME NEW locks, NEW pages, FreePages(pages, locks), NEW new, new = [i \in DOMAIN pages |-> new[i]],
           \A i \in DOMAIN pages : IsPage(new[i]) /\ new[i].of = pages[i].of
    PROVE  FreePages(new, locks) /\ Len(new) = Len(pages)
<1>1. DOMAIN pages = 1..Len(pages) /\ Len(pages) \in Nat
  BY DEF FreePages
<1>2. new \in [1..Len(pages) -> Range(new)]
  BY <1>1 DEF Range
<1>3. new \in Seq(Range(new)) /\ Len(new) = Len(pages)
  <2>1. \A n \in Nat : \A S : [1..n -> S] \subseteq Seq(S)
    OBVIOUS
  <2>2. DOMAIN new = 1..Len(pages)
    BY <1>2
  <2> QED BY <1>1, <1>2, <2>1, <2>2
<1>4. DOMAIN new = DOMAIN pages
  BY <1>1, <1>2
<1> QED BY <1>3, <1>4 DEF FreePages

LEMMA RaisedGuarded ==
    ASSUME NEW locks, NEW held, GuardedFolder(held, locks), NEW o \in Raises(held)
    PROVE  LeavesGuarded(o, locks)
  BY DEF Raises, Ends, LeavesGuarded, Truthful

\* One file is written, and the result tells its name and its pages.
LEMMA WriteGuarded ==
    ASSUME NEW locks, NEW held, GuardedFolder(held, locks), NEW path, NEW file, Guarded(file, locks),
           NEW result, "output" \in DOMAIN result, result.output = path, "outputs" \notin DOMAIN result,
           "pages" \in DOMAIN result => result.pages = Len(file.pages),
           NEW o \in Returns(Written(held, path, file), result)
    PROVE  LeavesGuarded(o, locks)
<1>1. o.files = Written(held, path, file) /\ o.result = result
  BY ReturnsIs
<1>2. GuardedFolder(o.files, locks)
  BY <1>1, WrittenGuarded
<1>3. path \in DOMAIN o.files /\ o.files[path] = file
  BY <1>1 DEF Written
<1>4. DocWrites(result) = {path}
  BY DEF DocWrites
<1> QED BY <1>1, <1>2, <1>3, <1>4 DEF LeavesGuarded, Truthful

\* Nothing is written, and the result tells of no file.
LEMMA ReadGuarded ==
    ASSUME NEW locks, NEW held, GuardedFolder(held, locks), NEW result,
           "output" \notin DOMAIN result, "outputs" \notin DOMAIN result, "pages" \notin DOMAIN result,
           NEW o \in Returns(held, result)
    PROVE  LeavesGuarded(o, locks)
<1>1. o.files = held /\ o.result = result
  BY ReturnsIs
<1>2. DocWrites(result) = {}
  BY DEF DocWrites
<1> QED BY <1>1, <1>2 DEF LeavesGuarded, Truthful

---------------------------------------------------------------------------
\* Lists of pages.

IsParts(parts) == parts \in Seq(Range(parts)) /\ \A k \in DOMAIN parts : IsPart(parts[k])

LEMMA EndpointIsNumber ==
    ASSUME NEW e, IsEndpoint(e), NEW total \in Nat, NEW default \in Nat
    PROVE  Endpoint(e, total, default) \in Nat
  BY DEF IsEndpoint, Endpoint

LEMMA PartPagesAreNumbers ==
    ASSUME NEW part, IsPart(part), NEW total \in Nat
    PROVE  PartPages(part, total) \in Seq(Int)
<1>1. From(part, total) \in Nat /\ To(part, total) \in Nat
  BY EndpointIsNumber DEF IsPart, From, To
<1>2. \A n \in Int : \A s : DOMAIN s = 1..n /\ (\A i \in 1..n : s[i] \in Int) /\ s = [i \in 1..n |-> s[i]]
                              => s \in Seq(Int)
  <2> SUFFICES ASSUME NEW n \in Int, NEW s, \A i \in 1..n : s[i] \in Int, s = [i \in 1..n |-> s[i]]
               PROVE  s \in Seq(Int)
    OBVIOUS
  <2>1. CASE n \in Nat
    <3>1. s \in [1..n -> Int]
      OBVIOUS
    <3> QED BY <2>1, <3>1
  <2>2. CASE n \notin Nat
    <3>1. 1..n = 1..0
      BY <2>2
    <3>2. s \in [1..0 -> Int]
      BY <3>1
    <3> QED BY <3>2
  <2> QED BY <2>1, <2>2
<1>3. CASE part.span = "all"
  <2> DEFINE s == [i \in 1..total |-> i]
  <2>1. PartPages(part, total) = s
    BY <1>3 DEF PartPages
  <2>2. s \in [1..total -> Int]
    OBVIOUS
  <2> QED BY <2>1, <2>2
<1>4. CASE part.span = "one"
  BY <1>1, <1>4 DEF PartPages
<1>5. CASE part.span = "range"
  <2> DEFINE n == To(part, total) - From(part, total) + 1
             s == [i \in 1..n |-> From(part, total) + i - 1]
  <2>1. PartPages(part, total) = s
    BY <1>5 DEF PartPages
  <2>2. n \in Int /\ DOMAIN s = 1..n /\ s = [i \in 1..n |-> s[i]]
    BY <1>1
  <2>3. \A i \in 1..n : s[i] \in Int
    BY <1>1
  <2> QED BY <1>2, <2>1, <2>2, <2>3
<1> QED BY <1>3, <1>4, <1>5 DEF IsPart

LEMMA ListedPagesAreNumbers ==
    ASSUME NEW parts, IsParts(parts), NEW total \in Nat
    PROVE  /\ ListedPages(parts, total) \in Seq(Int)
           /\ parts # <<>> => Range(ListedPages(parts, total)) =
                                UNION {Range(PartPages(parts[k], total)) : k \in DOMAIN parts}
<1>1. CASE parts = <<>>
  <2>1. ListedPages(parts, total) = [i \in 1..total |-> i]
    BY <1>1 DEF ListedPages
  <2>2. [i \in 1..total |-> i] \in [1..total -> Int]
    OBVIOUS
  <2> QED BY <1>1, <2>1, <2>2
<1>2. CASE parts # <<>>
  <2> DEFINE s == [k \in DOMAIN parts |-> PartPages(parts[k], total)]
  <2>1. DOMAIN parts = 1..Len(parts) /\ Len(parts) \in Nat
    BY DEF IsParts
  <2>2. s \in Seq(Seq(Int))
    <3>1. s \in [1..Len(parts) -> Seq(Int)]
      BY <2>1, PartPagesAreNumbers DEF IsParts
    <3> QED BY <2>1, <3>1
  <2>3. DOMAIN s = DOMAIN parts /\ \A k \in DOMAIN parts : s[k] = PartPages(parts[k], total)
    OBVIOUS
  <2>4. ListedPages(parts, total) = FlattenSeq(s)
    BY <1>2 DEF ListedPages
  <2> HIDE DEF s
  <2>5. FlattenSeq(s) \in Seq(Int) /\ Range(FlattenSeq(s)) = UNION {Range(s[k]) : k \in DOMAIN s}
    BY <2>2, FlattenElements
  <2> QED BY <2>3, <2>4, <2>5
<1> QED BY <1>1, <1>2

\* The pages that are not refused are pages of the document.
LEMMA ListedInDocument ==
    ASSUME NEW locks, NEW pages, FreePages(pages, locks), NEW parts, IsParts(parts),
           ~Refused(parts, Len(pages))
    PROVE  LET listed == ListedPages(parts, Len(pages))
           IN  /\ Len(listed) \in Nat /\ DOMAIN listed = 1..Len(listed)
               /\ \A k \in 1..Len(listed) : listed[k] \in DOMAIN pages
<1>1. Len(pages) \in Nat /\ DOMAIN pages = 1..Len(pages)
  BY DEF FreePages
<1>2. ListedPages(parts, Len(pages)) \in Seq(Int)
  BY <1>1, ListedPagesAreNumbers
<1> QED BY <1>1, <1>2 DEF Refused, InRange

---------------------------------------------------------------------------
\* The operations on pages, tool by tool.

LEMMA PositionsInOrder ==
    ASSUME NEW n \in Nat, NEW S \in SUBSET (1..n)
    PROVE  /\ Cardinality(S) \in Nat /\ DOMAIN InOrder(S) = 1..Cardinality(S)
           /\ \A k \in 1..Cardinality(S) : InOrder(S)[k] \in S
<1>1. IsFiniteSet(1..n)
  BY FS_Interval
<1>2. IsFiniteSet(S)
  BY <1>1, FS_Subset
<1>3. S \in SUBSET Nat
  OBVIOUS
<1> QED BY <1>2, <1>3, InOrderRanks, RankBounds

LEMMA RotatedFree ==
    ASSUME NEW locks, NEW pages, FreePages(pages, locks), NEW leaf, RotatePages(leaf, pages).ok
    PROVE  FreePages(RotatePages(leaf, pages).pages, locks)
<1> DEFINE by(i) == leaf.turn * Occurrences(ListedPages(leaf.parts, Len(pages)), i)
           new == [i \in DOMAIN pages |-> Turned(pages[i], by(i))]
<1>1. RotatePages(leaf, pages).pages = new
  BY DEF RotatePages, Made, Refusal
<1> HIDE DEF by
<1>2. \A i \in DOMAIN pages : new[i] = Turned(pages[i], by(i)) /\ IsPage(pages[i])
  BY DEF FreePages
<1>3. \A i \in DOMAIN pages : IsPage(new[i]) /\ new[i].of = pages[i].of
  BY <1>2 DEF Turned, IsPage
<1>4. new = [i \in DOMAIN pages |-> new[i]]
  OBVIOUS
<1> HIDE DEF new
<1> QED BY <1>1, <1>3, <1>4, ChangedFree

LEMMA RemovedFree ==
    ASSUME NEW locks, NEW pages, FreePages(pages, locks), NEW leaf, RemovePages(leaf, pages).ok
    PROVE  FreePages(RemovePages(leaf, pages).pages, locks)
<1> DEFINE S == DOMAIN pages \ Range(ListedPages(leaf.parts, Len(pages)))
           keep == InOrder(S)
<1>1. RemovePages(leaf, pages).pages = [k \in DOMAIN keep |-> pages[keep[k]]]
  BY DEF RemovePages, Made, Refusal
<1>2. S \in SUBSET (1..Len(pages)) /\ Len(pages) \in Nat /\ S \subseteq DOMAIN pages
  BY DEF FreePages
<1> HIDE DEF S
<1>3. /\ Cardinality(S) \in Nat /\ DOMAIN keep = 1..Cardinality(S)
      /\ \A k \in 1..Cardinality(S) : keep[k] \in DOMAIN pages
  BY <1>2, PositionsInOrder
<1> HIDE DEF keep
<1> QED BY <1>1, <1>3, PickedFree

LEMMA ReorderedFree ==
    ASSUME NEW locks, NEW pages, FreePages(pages, locks), NEW leaf, IsParts(leaf.parts),
           ReorderPages(leaf, pages).ok
    PROVE  FreePages(ReorderPages(leaf, pages).pages, locks)
<1>1. Len(pages) \in Nat /\ DOMAIN pages = 1..Len(pages)
  BY DEF FreePages
<1>2. CASE leaf.reverse
  <2> DEFINE at == [k \in 1..Len(pages) |-> Len(pages) - k + 1]
  <2>1. PICK n \in Nat : n = Len(pages)
    BY <1>1
  <2>2. Reverse(pages) = [k \in 1..n |-> pages[n - k + 1]]
    BY <2>1 DEF Reverse
  <2>3. \A k \in 1..n : at[k] = n - k + 1
    BY <2>1
  <2>4. \A k \in 1..n : at[k] \in DOMAIN pages
    BY <1>1, <2>1, <2>3
  <2>5. Reverse(pages) = [k \in 1..n |-> pages[at[k]]]
    BY <2>2, <2>3
  <2> HIDE DEF at
  <2>6. FreePages([k \in 1..n |-> pages[at[k]]], locks)
    BY <2>4, PickedFree
  <2>7. ReorderPages(leaf, pages).pages = Reverse(pages)
    BY <1>2 DEF ReorderPages, Made
  <2> QED BY <2>5, <2>6, <2>7
<1>3. CASE ~leaf.reverse
  <2> DEFINE listed == ListedPages(leaf.parts, Len(pages))
             S == {k \in DOMAIN listed : listed[k] \in DOMAIN pages}
             kept == InOrder(S)
             at == [k \in DOMAIN kept |-> listed[kept[k]]]
  <2>1. listed \in Seq(Int)
    BY <1>1, ListedPagesAreNumbers
  <2>2. ReorderPages(leaf, pages).pages = [k \in DOMAIN kept |-> pages[listed[kept[k]]]]
    BY <1>3 DEF ReorderPages, Made, Refusal
  <2> HIDE DEF listed
  <2>3. Len(listed) \in Nat /\ S \in SUBSET (1..Len(listed)) /\ \A k \in S : listed[k] \in DOMAIN pages
    BY <2>1
  <2> HIDE DEF S
  <2>4. /\ Cardinality(S) \in Nat /\ DOMAIN kept = 1..Cardinality(S)
        /\ \A k \in 1..Cardinality(S) : kept[k] \in S
    BY <2>3, PositionsInOrder
  <2> HIDE DEF kept
  <2>5. \A k \in 1..Cardinality(S) : at[k] \in DOMAIN pages /\ at[k] = listed[kept[k]]
    BY <2>3, <2>4
  <2>6. ReorderPages(leaf, pages).pages = [k \in 1..Cardinality(S) |-> pages[at[k]]]
    BY <2>2, <2>4
  <2> HIDE DEF at
  <2> QED BY <2>4, <2>5, <2>6, PickedFree
<1> QED BY <1>2, <1>3

LEMMA PageOfFree ==
    ASSUME NEW locks, NEW pages, FreePages(pages, locks), NEW leaf, IsParts(leaf.parts),
           leaf.tool \in PageTools, PageOf(leaf, pages).ok
    PROVE  FreePages(PageOf(leaf, pages).pages, locks)
<1>1. CASE leaf.tool = "rotate_pages"
  <2>1. PageOf(leaf, pages) = RotatePages(leaf, pages)
    BY <1>1 DEF PageOf
  <2> QED BY <2>1, RotatedFree
<1>2. CASE leaf.tool = "remove_pages"
  <2>1. PageOf(leaf, pages) = RemovePages(leaf, pages)
    BY <1>2 DEF PageOf
  <2> QED BY <2>1, RemovedFree
<1>3. CASE leaf.tool = "reorder_pages"
  <2>1. PageOf(leaf, pages) = ReorderPages(leaf, pages)
    BY <1>3 DEF PageOf
  <2> QED BY <2>1, ReorderedFree
<1> QED BY <1>1, <1>2, <1>3 DEF PageTools

LEMMA EditPagesGuarded ==
    ASSUME NEW locks, AreLocks(locks), NEW held, GuardedFolder(held, locks),
           NEW leaf, leaf.tool \in PageTools, IsParts(leaf.parts), NEW o \in EditPages(leaf, held, FALSE)
    PROVE  LeavesGuarded(o, locks)
<1> DEFINE new == PageOf(leaf, Pages(held, leaf.input))
           told(out) == [output |-> out, pages |-> Len(new.pages)]
           file == File("pdf", Open, new.pages)
<1>1. PICK out :
        \/ o \in Raises(held)
        \/ OpensPdf(held, leaf.input) /\ new.ok /\ o \in Returns(Written(held, out, file), told(out))
  BY DEF EditPages
<1>2. CASE o \in Raises(held)
  BY <1>2, RaisedGuarded
<1>3. CASE OpensPdf(held, leaf.input) /\ new.ok /\ o \in Returns(Written(held, out, file), told(out))
  <2>1. FreePages(Pages(held, leaf.input), locks)
    BY <1>3, OpenIsFree DEF OpensPdf, Pages
  <2>2. FreePages(new.pages, locks)
    BY <1>3, <2>1, PageOfFree
  <2>3. /\ "output" \in DOMAIN told(out) /\ told(out).output = out /\ "outputs" \notin DOMAIN told(out)
        /\ told(out).pages = Len(new.pages)
    OBVIOUS
  <2> HIDE DEF new
  <2>4. Guarded(file, locks) /\ file.pages = new.pages
    BY <2>2, FreeIsGuarded
  <2> HIDE DEF told, file
  <2> QED BY <1>3, <2>3, <2>4, WriteGuarded
<1> QED BY <1>1, <1>2, <1>3

\* A password that no file of the start has does not keep its pages in.
LEMMA UnlockableIsFree ==
    ASSUME NEW locks, AreLocks(locks), NEW held, GuardedFolder(held, locks),
           NEW p \in DOMAIN held, held[p].lock \notin Range(locks)
    PROVE  FreePages(held[p].pages, locks)
<1>1. Guarded(held[p], locks)
  BY DEF GuardedFolder
<1>2. \A i \in DOMAIN held[p].pages : held[p].pages[i].of[1] \notin DOMAIN locks
  BY <1>1 DEF Guarded, Range
<1> QED BY <1>1, <1>2 DEF Guarded, IsFile, FreePages

LEMMA StampedFree ==
    ASSUME NEW locks, NEW pages, FreePages(pages, locks), NEW leaf
    PROVE  FreePages(Overlay(leaf, pages), locks)
<1> DEFINE mark(i) == IF leaf.tool = "watermark" THEN <<"mark", 0>> ELSE <<"number", leaf.start + i - 1>>
           new == [i \in DOMAIN pages |-> Stamped(pages[i], mark(i))]
<1>1. Overlay(leaf, pages) = new
  BY DEF Overlay
<1> HIDE DEF mark
<1>2. \A i \in DOMAIN pages : new[i] = Stamped(pages[i], mark(i)) /\ IsPage(pages[i])
  BY DEF FreePages
<1>3. \A i \in DOMAIN pages : IsPage(new[i]) /\ new[i].of = pages[i].of
  BY <1>2 DEF Stamped, IsPage
<1>4. new = [i \in DOMAIN pages |-> new[i]]
  OBVIOUS
<1> HIDE DEF new
<1> QED BY <1>1, <1>3, <1>4, ChangedFree

LEMMA ReworkedFree ==
    ASSUME NEW locks, AreLocks(locks), NEW held, GuardedFolder(held, locks),
           NEW leaf, leaf.tool \in ReworkTools,
           leaf.tool = "unlock_pdf" => leaf.password \notin Range(locks), Reworked(leaf, held).ok
    PROVE  FreePages(Reworked(leaf, held).pages, locks)
<1> DEFINE old == Pages(held, leaf.input)
<1>1. CASE leaf.tool \in {"watermark", "add_page_numbers"}
  <2>1. OpensPdf(held, leaf.input) /\ Reworked(leaf, held).pages = Overlay(leaf, old)
    BY <1>1 DEF Reworked, OverlayOpens
  <2>2. FreePages(old, locks)
    BY <2>1, OpenIsFree DEF OpensPdf, Pages
  <2> QED BY <2>1, <2>2, StampedFree
<1>2. CASE leaf.tool = "protect_pdf"
  <2>1. OpensPdf(held, leaf.input) /\ Reworked(leaf, held).pages = old
    BY <1>2 DEF Reworked
  <2> QED BY <2>1, OpenIsFree DEF OpensPdf, Pages
<1>3. CASE leaf.tool = "unlock_pdf"
  <2>1. Unlocks(leaf, held) /\ Reworked(leaf, held).pages = old
    BY <1>3 DEF Reworked
  <2>2. CASE held[leaf.input].lock = Open
    BY <2>1, <2>2, OpenIsFree DEF Unlocks, Pages
  <2>3. CASE held[leaf.input].lock = leaf.password
    BY <1>3, <2>1, <2>3, UnlockableIsFree DEF Unlocks, Pages
  <2> QED BY <2>1, <2>2, <2>3 DEF Unlocks
<1> QED BY <1>1, <1>2, <1>3 DEF ReworkTools

LEMMA ReworkGuarded ==
    ASSUME NEW locks, AreLocks(locks), NEW held, GuardedFolder(held, locks),
           NEW leaf, leaf.tool \in ReworkTools,
           leaf.tool = "unlock_pdf" => leaf.password \notin Range(locks),
           NEW o \in Rework(leaf, held, FALSE)
    PROVE  LeavesGuarded(o, locks)
<1> DEFINE new == Reworked(leaf, held)
           told(out) == [output |-> out]
           file == File("pdf", new.lock, new.pages)
<1>1. PICK out : \/ o \in Raises(held)
                 \/ new.ok /\ o \in Returns(Written(held, out, file), told(out))
  BY DEF Rework
<1>2. CASE o \in Raises(held)
  BY <1>2, RaisedGuarded
<1>3. CASE new.ok /\ o \in Returns(Written(held, out, file), told(out))
  <2>1. FreePages(new.pages, locks)
    BY <1>3, ReworkedFree
  <2>2. /\ "output" \in DOMAIN told(out) /\ told(out).output = out
        /\ "outputs" \notin DOMAIN told(out) /\ "pages" \notin DOMAIN told(out)
    OBVIOUS
  <2> HIDE DEF new
  <2>3. Guarded(file, locks)
    BY <2>1, FreeIsGuarded
  <2> HIDE DEF told, file
  <2> QED BY <1>3, <2>2, <2>3, WriteGuarded
<1> QED BY <1>1, <1>2, <1>3

LEMMA MergedFree ==
    ASSUME NEW locks, NEW s, Len(s) \in Nat, DOMAIN s = 1..Len(s), s = [k \in DOMAIN s |-> s[k]],
           \A k \in DOMAIN s : FreePages(s[k], locks)
    PROVE  FreePages(FlattenSeq(s), locks)
<1> DEFINE S == UNION {Range(s[k]) : k \in DOMAIN s}
<1>1. \A k \in DOMAIN s : s[k] \in Seq(S)
  <2> SUFFICES ASSUME NEW k \in DOMAIN s PROVE s[k] \in Seq(S)
    OBVIOUS
  <2>1. s[k] \in Seq(Range(s[k])) /\ Range(s[k]) \subseteq S
    BY DEF FreePages
  <2> HIDE DEF S
  <2> QED BY <2>1
<1>2. \A x \in S : IsPage(x) /\ x.of[1] \notin DOMAIN locks
  <2> SUFFICES ASSUME NEW x \in S PROVE IsPage(x) /\ x.of[1] \notin DOMAIN locks
    OBVIOUS
  <2>1. PICK k \in DOMAIN s : x \in Range(s[k])
    OBVIOUS
  <2>2. PICK i \in DOMAIN s[k] : x = s[k][i]
    BY <2>1 DEF Range
  <2>3. FreePages(s[k], locks)
    BY <2>1
  <2> HIDE DEF S
  <2> QED BY <2>2, <2>3 DEF FreePages
<1> HIDE DEF S
<1>3. s \in Seq(Seq(S))
  <2>1. s \in [1..Len(s) -> Seq(S)]
    BY <1>1
  <2> QED BY <2>1
<1>4. FlattenSeq(s) \in Seq(S)
  BY <1>3, FlattenElements
<1>5. PICK new : new = FlattenSeq(s)
  OBVIOUS
<1>6. new \in Seq(S)
  BY <1>4, <1>5
<1>7. new \in Seq(Range(new)) /\ \A i \in DOMAIN new : new[i] \in S
  <2>1. \A i \in 1..Len(new) : new[i] \in Range(new)
    BY <1>6 DEF Range
  <2>2. Len(new) \in Nat /\ new \in [1..Len(new) -> Range(new)]
    BY <1>6, <2>1
  <2> QED BY <1>6, <2>2
<1>8. FreePages(new, locks)
  BY <1>2, <1>7 DEF FreePages
<1> QED BY <1>5, <1>8

LEMMA MergeGuarded ==
    ASSUME NEW locks, AreLocks(locks), NEW held, GuardedFolder(held, locks),
           NEW leaf, leaf.inputs \in Seq(Range(leaf.inputs)), NEW o \in Merge(leaf, held, FALSE)
    PROVE  LeavesGuarded(o, locks)
<1> DEFINE s == [k \in DOMAIN leaf.inputs |-> Pages(held, leaf.inputs[k])]
           pages == FlattenSeq(s)
           told == [output |-> leaf.out, pages |-> Len(pages)]
           file == File("pdf", Open, pages)
<1>1. \/ o \in Raises(held)
      \/ /\ \A k \in DOMAIN leaf.inputs : OpensPdf(held, leaf.inputs[k])
         /\ o \in Returns(Written(held, leaf.out, file), told)
  BY DEF Merge
<1>2. CASE o \in Raises(held)
  BY <1>2, RaisedGuarded
<1>3. CASE /\ \A k \in DOMAIN leaf.inputs : OpensPdf(held, leaf.inputs[k])
           /\ o \in Returns(Written(held, leaf.out, file), told)
  <2>1. \A k \in DOMAIN leaf.inputs : FreePages(Pages(held, leaf.inputs[k]), locks)
    BY <1>3, OpenIsFree DEF OpensPdf, Pages
  <2>2. DOMAIN s = DOMAIN leaf.inputs /\ s = [k \in DOMAIN s |-> s[k]]
        /\ \A k \in DOMAIN s : FreePages(s[k], locks)
    BY <2>1
  <2>3. DOMAIN leaf.inputs = 1..Len(leaf.inputs) /\ Len(leaf.inputs) \in Nat
    OBVIOUS
  <2> HIDE DEF s
  <2>4. Len(s) \in Nat /\ DOMAIN s = 1..Len(s)
    <3>1. s \in [1..Len(leaf.inputs) -> Range(s)]
      BY <2>2, <2>3 DEF Range
    <3>2. \A n \in Nat : \A S : [1..n -> S] \subseteq Seq(S)
      OBVIOUS
    <3>3. s \in Seq(Range(s))
      BY <2>3, <3>1, <3>2
    <3> QED BY <3>3
  <2>5. FreePages(pages, locks)
    BY <2>2, <2>4, MergedFree
  <2>6. /\ "output" \in DOMAIN told /\ told.output = leaf.out /\ "outputs" \notin DOMAIN told
        /\ told.pages = Len(pages)
    OBVIOUS
  <2> HIDE DEF pages
  <2>7. Guarded(file, locks) /\ file.pages = pages
    BY <2>5, FreeIsGuarded
  <2> HIDE DEF told, file
  <2> QED BY <1>3, <2>6, <2>7, WriteGuarded
<1> QED BY <1>1, <1>2, <1>3

---------------------------------------------------------------------------
\* Splitting: of the names, each keeps the last piece written under it.

LEMMA GreatestIs ==
    ASSUME NEW n \in Nat, NEW S \in SUBSET (0..n), S # {}
    PROVE  Max(S) \in S /\ \A y \in S : Max(S) >= y
<1> DEFINE T == {n - x : x \in S}
<1>1. T \in SUBSET Nat /\ T # {}
  <2>1. \A x \in S : n - x \in Nat
    OBVIOUS
  <2> QED BY <2>1
<1>2. PICK d \in T : \A m \in T : d <= m
  BY <1>1, LeastNumber
<1>3. PICK g \in S : d = n - g
  OBVIOUS
<1>4. \A y \in S : g >= y
  <2> SUFFICES ASSUME NEW y \in S PROVE g >= y
    OBVIOUS
  <2>1. d <= n - y
    BY <1>2
  <2> QED BY <1>3, <2>1
<1> HIDE DEF T
<1> QED BY <1>3, <1>4 DEF Max

LEMMA GreatestNumber ==
    ASSUME NEW n \in Nat, NEW S \in SUBSET (1..n), S # {}
    PROVE  Max(S) \in S
<1>1. S \in SUBSET (0..n)
  OBVIOUS
<1> QED BY <1>1, GreatestIs

LEMMA SelectedFree ==
    ASSUME NEW locks, NEW pages, FreePages(pages, locks), NEW parts, IsParts(parts),
           ~Refused(parts, Len(pages)), NEW k \in DOMAIN parts
    PROVE  FreePages(Selection(pages, parts[k]), locks)
<1>1. Len(pages) \in Nat /\ DOMAIN pages = 1..Len(pages)
  BY DEF FreePages
<1>2. PICK listed \in Seq(Int) : listed = PartPages(parts[k], Len(pages))
  BY <1>1, PartPagesAreNumbers DEF IsParts
<1>3. parts # <<>>
  BY DEF IsParts
<1>4. Range(ListedPages(parts, Len(pages))) = UNION {Range(PartPages(parts[j], Len(pages))) : j \in DOMAIN parts}
  BY <1>1, <1>3, ListedPagesAreNumbers
<1>5. Range(listed) \subseteq Range(ListedPages(parts, Len(pages)))
  BY <1>2, <1>4
<1>6. \A x \in Range(ListedPages(parts, Len(pages))) : x \in DOMAIN pages
  BY <1>1 DEF Refused, InRange, Range
<1>7. PICK n \in Nat : DOMAIN listed = 1..n
  OBVIOUS
<1>8. \A i \in 1..n : listed[i] \in DOMAIN pages
  BY <1>5, <1>6, <1>7 DEF Range
<1>9. Selection(pages, parts[k]) = [i \in 1..n |-> pages[listed[i]]]
  BY <1>2, <1>7 DEF Selection
<1>10. FreePages([i \in 1..n |-> pages[listed[i]]], locks)
  BY <1>8, PickedFree
<1> QED BY <1>9, <1>10

LEMMA SplitGuarded ==
    ASSUME NEW locks, AreLocks(locks), NEW held, GuardedFolder(held, locks),
           NEW leaf, IsParts(leaf.parts), NEW o \in Split(leaf, held, FALSE)
    PROVE  LeavesGuarded(o, locks)
<1> DEFINE told(outs) == [outputs |-> outs, count |-> Len(outs)]
           old == Pages(held, leaf.input)
           piece(k) == File("pdf", Open, Selection(old, leaf.parts[k]))
           pieces == [k \in DOMAIN leaf.parts |-> piece(k)]
           new(outs) == WrittenInTurn(held, outs, pieces)
<1>1. \/ o \in Raises(held)
      \/ /\ OpensPdf(held, leaf.input) /\ ~Refused(leaf.parts, Len(old))
         /\ \E outs \in SplitNames(leaf, held) : o \in Returns(new(outs), told(outs))
  BY DEF Split, PageCount
<1>2. CASE o \in Raises(held)
  BY <1>2, RaisedGuarded
<1>3. CASE /\ OpensPdf(held, leaf.input) /\ ~Refused(leaf.parts, Len(old))
           /\ \E outs \in SplitNames(leaf, held) : o \in Returns(new(outs), told(outs))
  <2>1. FreePages(old, locks)
    BY <1>3, OpenIsFree DEF OpensPdf, Pages
  <2>2. \A k \in DOMAIN leaf.parts : FreePages(Selection(old, leaf.parts[k]), locks)
    BY <1>3, <2>1, SelectedFree
  <2>3. \A k \in DOMAIN leaf.parts : Guarded(piece(k), locks)
    BY <2>2, FreeIsGuarded
  <2>4. PICK outs \in SplitNames(leaf, held) : o \in Returns(new(outs), told(outs))
    BY <1>3
  <2>5. DOMAIN leaf.parts = 1..Len(leaf.parts) /\ Len(leaf.parts) \in Nat
    BY DEF IsParts
  <2>6. DOMAIN outs = 1..Len(leaf.parts)
    BY <2>5 DEF SplitNames
  <2>7. ASSUME NEW p \in Range(outs)
        PROVE  Guarded(new(outs)[p], locks)
    <3> DEFINE S == {k \in DOMAIN outs : outs[k] = p}
    <3>1. S \in SUBSET (1..Len(leaf.parts)) /\ S # {}
      BY <2>6, <2>7 DEF Range
    <3>2. Max(S) \in S
      BY <2>5, <3>1, GreatestNumber
    <3>3. Max(S) \in DOMAIN leaf.parts
      BY <2>5, <3>1, <3>2
    <3>4. new(outs)[p] = pieces[Max(S)]
      BY <2>7 DEF WrittenInTurn
    <3> HIDE DEF S
    <3>5. new(outs)[p] = piece(Max(S))
      BY <3>3, <3>4
    <3> HIDE DEF piece, pieces, new
    <3> QED BY <2>3, <3>3, <3>5
  <2>8. \A p \in DOMAIN held \ Range(outs) : new(outs)[p] = held[p]
    BY DEF WrittenInTurn
  <2>9. DOMAIN new(outs) = DOMAIN held \cup Range(outs)
    BY DEF WrittenInTurn
  <2> HIDE DEF new
  <2>10. GuardedFolder(new(outs), locks)
    BY <2>7, <2>8, <2>9 DEF GuardedFolder
  <2>11. o.files = new(outs) /\ o.result = told(outs)
    BY <2>4, ReturnsIs
  <2>12. DocWrites(told(outs)) = Range(outs) /\ "pages" \notin DOMAIN told(outs)
    BY DEF DocWrites
  <2> HIDE DEF told
  <2> QED BY <2>9, <2>10, <2>11, <2>12 DEF LeavesGuarded, Truthful
<1> QED BY <1>1, <1>2, <1>3

---------------------------------------------------------------------------
\* Reading: text is taken from open files only.

LEMMA OcrReadFree ==
    ASSUME NEW locks, NEW held, NEW path, FreePages(Pages(held, path), locks),
           NEW n \in Nat, NEW chosen, DOMAIN chosen = 1..n,
           \A k \in 1..n : chosen[k] \in DOMAIN Pages(held, path)
    PROVE  /\ FreePages(OcrPages(held, path, chosen), locks)
           /\ Len(OcrPages(held, path, chosen)) = n
<1> DEFINE old == Pages(held, path)
           picked == [k \in 1..n |-> old[chosen[k]]]
           new == [k \in 1..n |-> [old[chosen[k]] EXCEPT !.text = TRUE]]
<1>1. FreePages(picked, locks) /\ Len(picked) = n
  BY PickedFree
<1>2. OcrPages(held, path, chosen) = new
  BY DEF OcrPages
<1>3. DOMAIN picked = 1..n /\ \A k \in 1..n : new[k] = [picked[k] EXCEPT !.text = TRUE]
  OBVIOUS
<1>4. new = [k \in DOMAIN picked |-> new[k]]
  BY <1>3
<1> HIDE DEF new, picked
<1>5. \A k \in DOMAIN picked : IsPage(new[k]) /\ new[k].of = picked[k].of
  <2>1. \A k \in DOMAIN picked : IsPage(picked[k])
    BY <1>1 DEF FreePages
  <2> QED BY <1>3, <2>1 DEF IsPage
<1> QED BY <1>1, <1>2, <1>4, <1>5, ChangedFree

\* The whole document in order, as the OCR of a file reads it.
LEMMA EveryPageFree ==
    ASSUME NEW locks, NEW held, NEW path, FreePages(Pages(held, path), locks)
    PROVE  LET every == OcrPages(held, path, [i \in DOMAIN Pages(held, path) |-> i])
           IN  FreePages(every, locks) /\ Len(every) = Len(Pages(held, path))
<1> DEFINE chosen == [i \in DOMAIN Pages(held, path) |-> i]
<1>1. PICK n \in Nat : DOMAIN Pages(held, path) = 1..n /\ n = Len(Pages(held, path))
  BY DEF FreePages
<1>2. DOMAIN chosen = 1..n /\ \A k \in 1..n : chosen[k] \in DOMAIN Pages(held, path)
  BY <1>1
<1> HIDE DEF chosen
<1>3. FreePages(OcrPages(held, path, chosen), locks) /\ Len(OcrPages(held, path, chosen)) = n
  BY <1>2, OcrReadFree
<1> QED BY <1>1, <1>3 DEF chosen

LEMMA ReadPagesFree ==
    ASSUME NEW locks, NEW held, NEW path, FreePages(Pages(held, path), locks), NEW parts, IsParts(parts),
           ~Refused(parts, PageCount(held, path))
    PROVE  LET chosen == ListedPages(parts, PageCount(held, path))
           IN  /\ FreePages([i \in DOMAIN chosen |-> Pages(held, path)[chosen[i]]], locks)
               /\ FreePages(OcrPages(held, path, chosen), locks)
<1>1. PICK chosen : chosen = ListedPages(parts, PageCount(held, path))
  OBVIOUS
<1>2. /\ Len(chosen) \in Nat /\ DOMAIN chosen = 1..Len(chosen)
      /\ \A k \in 1..Len(chosen) : chosen[k] \in DOMAIN Pages(held, path)
  BY <1>1, ListedInDocument DEF PageCount
<1>3. PICK n \in Nat : n = Len(chosen)
  BY <1>2
<1>4. DOMAIN chosen = 1..n /\ \A k \in 1..n : chosen[k] \in DOMAIN Pages(held, path)
  BY <1>2, <1>3
<1>5. FreePages(OcrPages(held, path, chosen), locks)
  BY <1>4, OcrReadFree
<1>6. FreePages([k \in 1..n |-> Pages(held, path)[chosen[k]]], locks)
  BY <1>4, PickedFree
<1> QED BY <1>1, <1>4, <1>5, <1>6

\* An image is open, and one page.
LEMMA ImageRead ==
    ASSUME NEW locks, AreLocks(locks), NEW held, GuardedFolder(held, locks), NEW path, OpensImage(held, path)
    PROVE  FreePages(Pages(held, path), locks) /\ FreePages(OcrPages(held, path, <<1>>), locks)
<1>1. path \in DOMAIN held /\ IsFile(held[path]) /\ held[path].kind = "image"
  BY DEF OpensImage, GuardedFolder, Guarded
<1>2. held[path].lock = Open /\ Len(Pages(held, path)) = 1
  BY <1>1 DEF IsFile, Pages
<1>3. FreePages(Pages(held, path), locks)
  BY <1>1, <1>2, OpenIsFree DEF Pages
<1>4. 1 \in DOMAIN Pages(held, path)
  BY <1>2, <1>3 DEF FreePages
<1>5. PICK chosen : chosen = <<1>>
  OBVIOUS
<1>6. PICK n \in Nat : n = 1
  OBVIOUS
<1>7. DOMAIN chosen = 1..n /\ \A k \in 1..n : chosen[k] \in DOMAIN Pages(held, path)
  BY <1>4, <1>5, <1>6
<1>8. FreePages(OcrPages(held, path, chosen), locks)
  BY <1>3, <1>7, OcrReadFree
<1> QED BY <1>3, <1>5, <1>8

LEMMA TextFree ==
    ASSUME NEW locks, AreLocks(locks), NEW held, GuardedFolder(held, locks), NEW tools,
           NEW leaf, IsParts(leaf.parts), TextOf(held, leaf, tools).ok
    PROVE  FreePages(TextOf(held, leaf, tools).pages, locks)
<1> DEFINE path   == leaf.input
           ext    == path.name.ext
           total  == PageCount(held, path)
           chosen == ListedPages(leaf.parts, total)
           read   == [i \in DOMAIN chosen |-> Pages(held, path)[chosen[i]]]
           text   == TextOf(held, leaf, tools)
<1>1. CASE path \notin DOMAIN held
  BY <1>1 DEF TextOf, NoText
<1>2. CASE path \in DOMAIN held /\ ext \in TextSuffixes
  <2>0. text = IF held[path].kind = "text" THEN [ok |-> TRUE, pages |-> Pages(held, path)]
               ELSE [ok |-> FALSE, pages |-> <<>>]
    BY <1>2 DEF TextOf, NoText, TextSuffixes, ImageSuffixes, OfficeSuffixes
  <2>1. held[path].kind = "text" /\ text.pages = Pages(held, path)
    BY <2>0
  <2>2. held[path].lock = Open
    BY <1>2, <2>1 DEF GuardedFolder, Guarded, IsFile
  <2> QED BY <1>2, <2>1, <2>2, OpenIsFree DEF Pages
<1>3. CASE path \in DOMAIN held /\ ext \in ImageSuffixes
  <2>0. text = IF OpensImage(held, path) /\ "tesseract" \in tools
               THEN [ok |-> TRUE, pages |-> OcrPages(held, path, <<1>>)] ELSE [ok |-> FALSE, pages |-> <<>>]
    BY <1>3 DEF TextOf, NoText, TextSuffixes, ImageSuffixes, OfficeSuffixes
  <2>1. OpensImage(held, path) /\ text.pages = OcrPages(held, path, <<1>>)
    BY <2>0
  <2> QED BY <2>1, ImageRead
<1>4. CASE path \in DOMAIN held /\ ext = ".pdf"
  <2>1. /\ OpensPdf(held, path) /\ ~Refused(leaf.parts, total)
        /\ text.pages \in {read, OcrPages(held, path, chosen)}
    <3>1. text = IF ~OpensPdf(held, path) \/ Refused(leaf.parts, total) THEN [ok |-> FALSE, pages |-> <<>>]
                 ELSE IF leaf.ocr \/ ~HasText(read)
                 THEN IF "tesseract" \in tools
                      THEN [ok |-> TRUE, pages |-> OcrPages(held, path, chosen)]
                      ELSE [ok |-> FALSE, pages |-> <<>>]
                 ELSE [ok |-> TRUE, pages |-> read]
      BY <1>4 DEF TextOf, NoText, TextSuffixes, ImageSuffixes, OfficeSuffixes
    <3> HIDE DEF read, chosen, total
    <3> QED BY <3>1
  <2>2. FreePages(Pages(held, path), locks)
    BY <2>1, OpenIsFree DEF OpensPdf, Pages
  <2>3. FreePages(read, locks) /\ FreePages(OcrPages(held, path, chosen), locks)
    BY <2>1, <2>2, ReadPagesFree
  <2> HIDE DEF read, chosen
  <2> QED BY <2>1, <2>3
<1>5. CASE path \in DOMAIN held /\ ext \in OfficeSuffixes
  <2>1. held[path].kind = "office" /\ text.pages = Pages(held, path)
    BY <1>5 DEF TextOf, NoText, TextSuffixes, ImageSuffixes, OfficeSuffixes
  <2>2. held[path].lock = Open
    BY <1>5, <2>1 DEF GuardedFolder, Guarded, IsFile
  <2> QED BY <1>5, <2>1, <2>2, OpenIsFree DEF Pages
<1>6. CASE path \in DOMAIN held /\ ext \notin TextSuffixes \cup ImageSuffixes \cup OfficeSuffixes \cup {".pdf"}
  BY <1>6 DEF TextOf, NoText
<1> QED BY <1>1, <1>2, <1>3, <1>4, <1>5, <1>6

LEMMA ConvertGuarded ==
    ASSUME NEW locks, AreLocks(locks), NEW held, GuardedFolder(held, locks), NEW tools,
           NEW leaf, IsParts(leaf.parts), NEW o \in Convert(leaf, held, FALSE, tools)
    PROVE  LeavesGuarded(o, locks)
<1> DEFINE told(out) == [output |-> out]
           text == TextOf(held, leaf, tools)
           copy == File("pdf", Open, Pages(held, leaf.input))
<1>1. PICK out : o \in ConvertInto(leaf, held, out, tools)
  BY DEF Convert
<1>2. \/ o \in Raises(held)
      \/ text.ok /\ o \in Returns(Written(held, out, AsText(text.pages)), told(out))
      \/ /\ OpensImage(held, leaf.input) \/ (leaf.input \in DOMAIN held /\ held[leaf.input].lock = Open)
         /\ o \in Returns(Written(held, out, copy), told(out))
  BY <1>1 DEF ConvertInto, SofficeMoves
<1>3. /\ "output" \in DOMAIN told(out) /\ told(out).output = out
      /\ "outputs" \notin DOMAIN told(out) /\ "pages" \notin DOMAIN told(out)
  OBVIOUS
<1> HIDE DEF told
<1>4. CASE o \in Raises(held)
  BY <1>4, RaisedGuarded
<1>5. CASE text.ok /\ o \in Returns(Written(held, out, AsText(text.pages)), told(out))
  <2>1. FreePages(text.pages, locks)
    BY <1>5, TextFree
  <2> HIDE DEF text
  <2>2. Guarded(AsText(text.pages), locks)
    BY <2>1, FreeIsGuarded DEF AsText
  <2> QED BY <1>3, <1>5, <2>2, WriteGuarded
<1>6. CASE /\ OpensImage(held, leaf.input) \/ (leaf.input \in DOMAIN held /\ held[leaf.input].lock = Open)
           /\ o \in Returns(Written(held, out, copy), told(out))
  <2>1. FreePages(Pages(held, leaf.input), locks)
    BY <1>6, ImageRead, OpenIsFree DEF Pages
  <2>2. Guarded(copy, locks)
    BY <2>1, FreeIsGuarded
  <2> HIDE DEF copy
  <2> QED BY <1>3, <1>6, <2>2, WriteGuarded
<1> QED BY <1>2, <1>4, <1>5, <1>6

\* Neither what is left of a failed compression nor a made picture opens anything.
LEMMA BrokenGuarded ==
    ASSUME NEW locks
    PROVE  Guarded(Broken, locks)
<1>1. <<>> \in Seq(Range(<<>>))
  <2>1. \A S : <<>> \in Seq(S)
    OBVIOUS
  <2> QED BY <2>1
<1>2. DOMAIN Broken.pages = {} /\ Broken.pages \in Seq(Range(Broken.pages))
  BY <1>1 DEF Broken, File
<1>3. Broken.lock = Open /\ Broken.kind = "broken"
  BY DEF Broken, File
<1> QED BY <1>2, <1>3 DEF Guarded, IsFile

LEMMA SqueezedFree ==
    ASSUME NEW locks, NEW pages, FreePages(pages, locks), NEW leaf, NEW tools
    PROVE  /\ FreePages(Squeezed(leaf, pages, tools), locks)
           /\ Len(Squeezed(leaf, pages, tools)) = Len(pages)
<1> DEFINE new == [i \in DOMAIN pages |-> [pages[i] EXCEPT !.text = FALSE]]
<1>1. \A i \in DOMAIN pages : new[i] = [pages[i] EXCEPT !.text = FALSE] /\ IsPage(pages[i])
  BY DEF FreePages
<1>2. \A i \in DOMAIN pages : IsPage(new[i]) /\ new[i].of = pages[i].of
  BY <1>1 DEF IsPage
<1>3. new = [i \in DOMAIN pages |-> new[i]]
  OBVIOUS
<1>4. Squeezed(leaf, pages, tools) \in {pages, new}
  BY DEF Squeezed
<1> HIDE DEF new
<1>5. FreePages(new, locks) /\ Len(new) = Len(pages)
  BY <1>2, <1>3, ChangedFree
<1> QED BY <1>4, <1>5

\* The ways a compression ends.
LEMMA CompressEnds ==
    ASSUME NEW leaf, NEW held, NEW tools, NEW o \in Compress(leaf, held, FALSE, tools)
    PROVE  \E out :
             \/ o \in Raises(held)
             \/ o \in Raises(Written(held, out, Broken))
             \/ OpensPdf(held, leaf.input) /\ \E kept \in BOOLEAN :
                  o \in Returns(Written(held, out, File("pdf", Open,
                                   IF kept THEN Pages(held, leaf.input)
                                   ELSE Squeezed(leaf, Pages(held, leaf.input), tools))),
                                CompressTells(leaf, out, kept, tools))
<1>1. PICK out \in OutputPath(leaf, Suffixed(leaf.input, "compressed"), held) :
        \/ o \in CompressFails(leaf, held, out, tools)
        \/ OpensPdf(held, leaf.input) /\ \E kept \in BOOLEAN :
             o \in Returns(Written(held, out, File("pdf", Open,
                              IF kept THEN Pages(held, leaf.input)
                              ELSE Squeezed(leaf, Pages(held, leaf.input), tools))),
                           CompressTells(leaf, out, kept, tools))
  BY DEF Compress
<1>2. o \in CompressFails(leaf, held, out, tools) =>
        o \in Raises(held) \/ o \in Raises(Written(held, out, Broken))
  BY DEF CompressFails
<1> QED BY <1>1, <1>2

LEMMA CompressGuarded ==
    ASSUME NEW locks, AreLocks(locks), NEW held, GuardedFolder(held, locks), NEW tools,
           NEW leaf, NEW o \in Compress(leaf, held, FALSE, tools)
    PROVE  LeavesGuarded(o, locks)
<1> DEFINE old == Pages(held, leaf.input)
           new(kept) == IF kept THEN old ELSE Squeezed(leaf, old, tools)
<1>1. PICK out :
        \/ o \in Raises(held)
        \/ o \in Raises(Written(held, out, Broken))
        \/ OpensPdf(held, leaf.input) /\ \E kept \in BOOLEAN :
             o \in Returns(Written(held, out, File("pdf", Open, new(kept))),
                           CompressTells(leaf, out, kept, tools))
  BY CompressEnds
<1>2. CASE o \in Raises(held)
  BY <1>2, RaisedGuarded
<1>3. CASE o \in Raises(Written(held, out, Broken))
  <2>1. GuardedFolder(Written(held, out, Broken), locks)
    BY BrokenGuarded, WrittenGuarded
  <2> QED BY <1>3, <2>1, RaisedGuarded
<1>4. ASSUME OpensPdf(held, leaf.input), NEW kept \in BOOLEAN,
             o \in Returns(Written(held, out, File("pdf", Open, new(kept))), CompressTells(leaf, out, kept, tools))
      PROVE  LeavesGuarded(o, locks)
  <2> DEFINE told == CompressTells(leaf, out, kept, tools)
  <2>1. FreePages(old, locks)
    BY <1>4, OpenIsFree DEF OpensPdf, Pages
  <2>2. FreePages(new(kept), locks)
    BY <2>1, SqueezedFree
  <2>3. Guarded(File("pdf", Open, new(kept)), locks)
    BY <2>2, FreeIsGuarded
  <2>4. /\ "output" \in DOMAIN told /\ told.output = out
        /\ "outputs" \notin DOMAIN told /\ "pages" \notin DOMAIN told
    BY DEF CompressTells
  <2> HIDE DEF new
  <2> QED BY <1>4, <2>3, <2>4, WriteGuarded
<1> QED BY <1>1, <1>2, <1>3, <1>4

\* A document is copied only if the inspection could open it.
LEMMA OcrOutcomeFree ==
    ASSUME NEW locks, AreLocks(locks), NEW held, GuardedFolder(held, locks), NEW tools,
           NEW leaf, leaf.input \in DOMAIN held, NEW inspection, inspection = Inspection(held, leaf.input),
           OcrOutcome(leaf, held, inspection, tools).ok
    PROVE  LET new == OcrOutcome(leaf, held, inspection, tools).pages
           IN  /\ FreePages(new, locks)
               /\ Skips(leaf, inspection) => inspection.pageCount = Len(new) /\ inspection.pageCount # 0
<1> DEFINE old == Pages(held, leaf.input)
           every == OcrPages(held, leaf.input, [i \in DOMAIN old |-> i])
           made1 == OcrOutcome(leaf, held, inspection, tools)
<1>1. CASE Skips(leaf, inspection)
  <2>1. made1.pages = old
    <3>1. leaf.input.name.ext = ".pdf" /\ leaf.input.name.ext \notin ImageSuffixes
      BY <1>1 DEF Skips, ImageSuffixes
    <3>2. made1 = [ok |-> TRUE, pages |-> old]
      BY <1>1, <3>1 DEF OcrOutcome, Made
    <3> QED BY <3>2
  <2>2. /\ held[leaf.input].lock = Open /\ HasText(held[leaf.input].pages)
        /\ inspection.pageCount = Len(held[leaf.input].pages)
    BY <1>1 DEF Skips, Inspection
  <2>3. FreePages(old, locks)
    BY <2>2, OpenIsFree DEF Pages
  <2>4. Len(old) # 0
    BY <2>2, <2>3 DEF HasText, FreePages, Pages
  <2> QED BY <2>1, <2>2, <2>3, <2>4 DEF Pages
<1>2. CASE ~Skips(leaf, inspection) /\ leaf.input.name.ext = ".pdf"
  <2>1. made1 = IF "tesseract" \in tools /\ OpensPdf(held, leaf.input) THEN Made(every) ELSE Refusal
    BY <1>2 DEF OcrOutcome, ImageSuffixes
  <2>2. OpensPdf(held, leaf.input) /\ made1.pages = every
    BY <2>1 DEF Made, Refusal
  <2>3. FreePages(old, locks)
    BY <2>2, OpenIsFree DEF OpensPdf, Pages
  <2> QED BY <1>2, <2>2, <2>3, EveryPageFree
<1>3. CASE ~Skips(leaf, inspection) /\ leaf.input.name.ext \in ImageSuffixes
  <2>1. made1 = IF "tesseract" \in tools /\ OpensImage(held, leaf.input) THEN Made(every) ELSE Refusal
    BY <1>3 DEF OcrOutcome, ImageSuffixes
  <2>2. OpensImage(held, leaf.input) /\ made1.pages = every
    BY <2>1 DEF Made, Refusal
  <2>3. FreePages(old, locks)
    BY <2>2, ImageRead
  <2> QED BY <1>3, <2>2, <2>3, EveryPageFree
<1>4. CASE ~Skips(leaf, inspection) /\ leaf.input.name.ext \notin ImageSuffixes \cup {".pdf"}
  BY <1>4 DEF OcrOutcome, Refusal
<1> QED BY <1>1, <1>2, <1>3, <1>4

LEMMA OcrGuarded ==
    ASSUME NEW locks, AreLocks(locks), NEW held, GuardedFolder(held, locks), NEW tools,
           NEW leaf, NEW inspection, leaf.input \in DOMAIN held => inspection = Inspection(held, leaf.input),
           NEW o \in Ocr(leaf, held, inspection, FALSE, tools)
    PROVE  LeavesGuarded(o, locks)
<1> DEFINE new == OcrOutcome(leaf, held, inspection, tools)
           file == File("pdf", Open, new.pages)
           count == IF Skips(leaf, inspection)
                    THEN IF inspection.pageCount = 0 THEN 1 ELSE inspection.pageCount
                    ELSE Len(new.pages)
           told(out) == OcrTells(leaf, inspection, out, count)
<1>1. PICK out : \/ o \in Raises(held)
                 \/ leaf.input \in DOMAIN held /\ new.ok /\ o \in Returns(Written(held, out, file), told(out))
  BY DEF Ocr
<1>2. CASE o \in Raises(held)
  BY <1>2, RaisedGuarded
<1>3. CASE leaf.input \in DOMAIN held /\ new.ok /\ o \in Returns(Written(held, out, file), told(out))
  <2>1. FreePages(new.pages, locks) /\ count = Len(new.pages)
    BY <1>3, OcrOutcomeFree
  <2> HIDE DEF new
  <2>2. Guarded(file, locks) /\ file.pages = new.pages
    BY <2>1, FreeIsGuarded
  <2>3. /\ "output" \in DOMAIN told(out) /\ told(out).output = out
        /\ "outputs" \notin DOMAIN told(out) /\ told(out).pages = count
    BY DEF OcrTells
  <2> HIDE DEF told, file, count
  <2> QED BY <1>3, <2>1, <2>2, <2>3, WriteGuarded
<1> QED BY <1>1, <1>2, <1>3

\* What only reads reports of no file that is not there.
LEMMA InspectGuarded ==
    ASSUME NEW locks, NEW held, GuardedFolder(held, locks), NEW leaf, NEW o \in Inspect(leaf, held, FALSE)
    PROVE  LeavesGuarded(o, locks)
<1> DEFINE told == Inspection(held, leaf.input)
<1>1. o \in Raises(held) \/ o \in Returns(held, told)
  BY DEF Inspect
<1>2. "output" \notin DOMAIN told /\ "outputs" \notin DOMAIN told /\ "pages" \notin DOMAIN told
  BY DEF Inspection
<1> HIDE DEF told
<1> QED BY <1>1, <1>2, RaisedGuarded, ReadGuarded

LEMMA ReadTextGuarded ==
    ASSUME NEW locks, NEW held, GuardedFolder(held, locks), NEW leaf, NEW tools, NEW o \in ReadText(leaf, held, tools)
    PROVE  LeavesGuarded(o, locks)
<1> DEFINE told == [text |-> TextOf(held, leaf, tools).pages]
<1>1. o \in Raises(held) \/ o \in Returns(held, told)
  BY DEF ReadText
<1>2. "output" \notin DOMAIN told /\ "outputs" \notin DOMAIN told /\ "pages" \notin DOMAIN told
  OBVIOUS
<1> HIDE DEF told
<1> QED BY <1>1, <1>2, RaisedGuarded, ReadGuarded

LEMMA VerifyGuarded ==
    ASSUME NEW locks, NEW held, GuardedFolder(held, locks), NEW leaf, NEW inspection, NEW compression,
           compression.output \in DOMAIN held, NEW o \in Verify(leaf, held, inspection, compression)
    PROVE  LeavesGuarded(o, locks)
<1>1. CASE o \in Raises(held)
  BY <1>1, RaisedGuarded
<1>2. CASE o \notin Raises(held)
  <2>1. PICK told : /\ o \in Returns(held, told)
                    /\ DOMAIN told = {"output", "exists", "textPreserved", "pagesPreserved"}
                    /\ told.output = compression.output
    BY <1>2 DEF Verify
  <2>2. o.files = held /\ o.result = told
    BY <2>1, ReturnsIs
  <2>3. DocWrites(told) = {compression.output} /\ "pages" \notin DOMAIN told
    BY <2>1 DEF DocWrites
  <2> QED BY <2>2, <2>3 DEF LeavesGuarded, Truthful
<1> QED BY <1>1, <1>2

---------------------------------------------------------------------------
\* What the later leaves of an intent are told by the earlier ones.

\* The compressed document at told.output is the one at path, but for its text.
Shrunk(held, path, told) ==
    /\ OpensPdf(held, path) /\ OpensPdf(held, told.output)
    /\ Len(Pages(held, told.output)) = Len(Pages(held, path))
    /\ HasText(Pages(held, path)) =>
          (told.textPreserved <=>
              \A i \in DOMAIN Pages(held, path) :
                  Pages(held, told.output)[i].text = Pages(held, path)[i].text)

\* A compression that leaves its source alone, of a document named as one.
Compresses(leaf) == leaf.input.name.ext = ".pdf" /\ leaf.out # leaf.input

ToldWell(leaf, held, told) ==
    /\ leaf.tool \in {"run_ocr", "run_compress"} =>
          leaf.input \in DOMAIN held /\ told[1] = Inspection(held, leaf.input)
    /\ leaf.tool = "verify_output" =>
          /\ told[2].output \in DOMAIN held
          /\ Compresses(leaf) =>
                told[1] = Inspection(held, leaf.input) /\ Shrunk(held, leaf.input, told[2])

\* A leaf as the plan gives it, whose key opens none of the locks.
Fits(leaf, locks) ==
    /\ WholeLeaf(leaf) /\ IsParts(leaf.parts)
    /\ leaf.tool = "merge_pdfs" => leaf.inputs \in Seq(Range(leaf.inputs))
    /\ leaf.tool = "unlock_pdf" => leaf.password \notin Range(locks)

LEMMA LeafGuarded ==
    ASSUME NEW locks, AreLocks(locks), NEW held, GuardedFolder(held, locks), NEW leaf, Fits(leaf, locks),
           NEW told, ToldWell(leaf, held, told), NEW tools, NEW o \in DocDo(leaf, held, told, tools)
    PROVE  LeavesGuarded(o, locks)
<1>0. IsParts(leaf.parts)
  BY DEF Fits
<1>1. CASE leaf.tool = "inspect_document"
  <2>1. o \in Inspect(leaf, held, FALSE)
    BY <1>1 DEF DocDo, Handle
  <2> QED BY <2>1, InspectGuarded
<1>2. CASE leaf.tool \in {"extract_text", "find_in_document"}
  <2>1. o \in ReadText(leaf, held, tools)
    BY <1>2 DEF DocDo, Handle
  <2> QED BY <2>1, ReadTextGuarded
<1>3. CASE leaf.tool = "merge_pdfs"
  <2>1. o \in Merge(leaf, held, FALSE)
    BY <1>3 DEF DocDo, Handle
  <2> QED BY <1>3, <2>1, MergeGuarded DEF Fits
<1>4. CASE leaf.tool = "split_pdf"
  <2>1. o \in Split(leaf, held, FALSE)
    BY <1>4 DEF DocDo, Handle
  <2> QED BY <1>0, <2>1, SplitGuarded
<1>5. CASE leaf.tool \in PageTools
  <2>1. o \in EditPages(leaf, held, FALSE)
    BY <1>5 DEF DocDo, Handle, PageTools
  <2> QED BY <1>0, <1>5, <2>1, EditPagesGuarded
<1>6. CASE leaf.tool \in ReworkTools
  <2>1. o \in Rework(leaf, held, FALSE)
    BY <1>6 DEF DocDo, Handle, ReworkTools
  <2>2. leaf.tool = "unlock_pdf" => leaf.password \notin Range(locks)
    BY DEF Fits
  <2> QED BY <1>6, <2>1, <2>2, ReworkGuarded
<1>7. CASE leaf.tool = "convert_document"
  <2>1. o \in Convert(leaf, held, FALSE, tools)
    BY <1>7 DEF DocDo, Handle
  <2> QED BY <1>0, <2>1, ConvertGuarded
<1>8. CASE leaf.tool = "run_compress"
  <2>1. o \in Compress(leaf, held, FALSE, tools)
    BY <1>8 DEF DocDo, Handle
  <2> QED BY <2>1, CompressGuarded
<1>9. CASE leaf.tool = "verify_output"
  <2>1. o \in Verify(leaf, held, told[1], told[2])
    BY <1>9 DEF DocDo, Handle
  <2>2. told[2].output \in DOMAIN held
    BY <1>9 DEF ToldWell
  <2> QED BY <2>1, <2>2, VerifyGuarded
<1>10. CASE leaf.tool = "run_ocr"
  <2>1. o \in Ocr(leaf, held, told[1], FALSE, tools)
    BY <1>10 DEF DocDo, Handle
  <2>2. leaf.input \in DOMAIN held => told[1] = Inspection(held, leaf.input)
    BY <1>10 DEF ToldWell
  <2> QED BY <2>1, <2>2, OcrGuarded
<1> QED BY <1>1, <1>2, <1>3, <1>4, <1>5, <1>6, <1>7, <1>8, <1>9, <1>10
        DEF Fits, WholeLeaf, LeafTools, Tools, PageTools, ReworkTools

\* An inspection that returns has told what is there, and changed nothing.
LEMMA InspectTells ==
    ASSUME NEW leaf, NEW held, NEW o \in Inspect(leaf, held, FALSE), o.end = "ok"
    PROVE  o.files = held /\ leaf.input \in DOMAIN held /\ o.result = Inspection(held, leaf.input)
<1>1. o \notin Raises(held)
  BY DEF Raises, Ends
<1>2. o \in Returns(held, Inspection(held, leaf.input)) /\ leaf.input \in DOMAIN held
  BY <1>1 DEF Inspect, Inspectable
<1> QED BY <1>2, ReturnsIs

\* The text of a document made of pictures is gone, and said to be.
Pictures(pages) == [i \in DOMAIN pages |-> [pages[i] EXCEPT !.text = FALSE]]

LEMMA PicturesTell ==
    ASSUME NEW locks, NEW old, FreePages(old, locks), NEW new, NEW preserved,
           \/ new = old /\ preserved = TRUE
           \/ new = Pictures(old) /\ preserved = FALSE
    PROVE  /\ Len(new) = Len(old)
           /\ HasText(old) => (preserved <=> \A i \in DOMAIN old : new[i].text = old[i].text)
<1>1. CASE new = old /\ preserved = TRUE
  BY <1>1
<1>2. CASE new = Pictures(old) /\ preserved = FALSE
  <2>1. \A i \in DOMAIN old : IsPage(old[i]) /\ new[i] = [old[i] EXCEPT !.text = FALSE]
    BY <1>2 DEF FreePages, Pictures
  <2>2. \A i \in DOMAIN old : IsPage(new[i]) /\ new[i].of = old[i].of /\ new[i].text = FALSE
    BY <2>1 DEF IsPage
  <2>3. new = [i \in DOMAIN old |-> new[i]]
    BY <1>2 DEF Pictures
  <2>4. Len(new) = Len(old)
    BY <2>2, <2>3, ChangedFree
  <2>5. \A i \in DOMAIN old : old[i].text => new[i].text # old[i].text
    BY <2>1, <2>2 DEF IsPage
  <2> QED BY <1>2, <2>4, <2>5 DEF HasText
<1> QED BY <1>1, <1>2

LEMMA CompressShrinks ==
    ASSUME NEW locks, AreLocks(locks), NEW held, GuardedFolder(held, locks), NEW tools,
           NEW leaf, leaf.out # leaf.input, NEW o \in Compress(leaf, held, FALSE, tools), o.end = "ok"
    PROVE  /\ leaf.input \in DOMAIN o.files /\ o.files[leaf.input] = held[leaf.input]
           /\ Shrunk(o.files, leaf.input, o.result)
<1> DEFINE old == Pages(held, leaf.input)
           new(kept) == IF kept THEN old ELSE Squeezed(leaf, old, tools)
           outs == OutputPath(leaf, Suffixed(leaf.input, "compressed"), held)
<1>1. PICK out \in outs, kept \in BOOLEAN :
        /\ OpensPdf(held, leaf.input)
        /\ o \in Returns(Written(held, out, File("pdf", Open, new(kept))), CompressTells(leaf, out, kept, tools))
  <2>1. \A h : o \notin Raises(h)
    BY DEF Raises, Ends
  <2> QED BY <2>1 DEF Compress, CompressFails
<1>2. /\ o.files = Written(held, out, File("pdf", Open, new(kept)))
      /\ o.result = CompressTells(leaf, out, kept, tools)
  BY <1>1, ReturnsIs
<1>3. out # leaf.input /\ leaf.input \in DOMAIN held
  BY <1>1, FreeIsFree DEF OutputPath, OpensPdf
<1>4. FreePages(old, locks)
  BY <1>1, OpenIsFree DEF OpensPdf, Pages
<1>5. PICK made1 : made1 = new(kept)
  OBVIOUS
<1>6. PICK preserved : preserved = o.result.textPreserved
  OBVIOUS
<1>7. \/ made1 = old /\ preserved = TRUE
      \/ made1 = Pictures(old) /\ preserved = FALSE
  <2>1. preserved = (kept \/ ~UsesRaster(leaf, tools))
    BY <1>2, <1>6 DEF CompressTells
  <2>2. kept \/ ~UsesRaster(leaf, tools) => made1 = old
    BY <1>5 DEF Squeezed
  <2>3. ~(kept \/ ~UsesRaster(leaf, tools)) => made1 = Pictures(old)
    BY <1>5 DEF Squeezed, Pictures
  <2> QED BY <2>1, <2>2, <2>3
<1> HIDE DEF old, new
<1>8. /\ Len(made1) = Len(old)
      /\ HasText(old) => (preserved <=> \A i \in DOMAIN old : made1[i].text = old[i].text)
  BY <1>4, <1>7, PicturesTell
<1>9. o.result.output = out
  BY <1>2 DEF CompressTells
<1>10. /\ leaf.input \in DOMAIN o.files /\ out \in DOMAIN o.files
       /\ o.files[leaf.input] = held[leaf.input] /\ o.files[out] = File("pdf", Open, made1)
  BY <1>2, <1>3, <1>5 DEF Written, new
<1>11. Pages(o.files, leaf.input) = old /\ Pages(o.files, out) = made1
  BY <1>10 DEF Pages, File, old
<1>12. OpensPdf(o.files, leaf.input) /\ OpensPdf(o.files, out)
  BY <1>1, <1>10 DEF OpensPdf, File
<1> QED BY <1>6, <1>8, <1>9, <1>10, <1>11, <1>12 DEF Shrunk

\* What a verification says of a compression.
Verified(held, path, told) ==
    /\ path \in DOMAIN held /\ told.output \in DOMAIN held
    /\ told.exists /\ told.pagesPreserved
    /\ HasText(held[path].pages) =>
          (told.textPreserved <=>
              \A i \in DOMAIN held[path].pages : held[told.output].pages[i].text = held[path].pages[i].text)

LEMMA VerifyTells ==
    ASSUME NEW held, NEW leaf, Compresses(leaf), NEW told, told[1] = Inspection(held, leaf.input),
           Shrunk(held, leaf.input, told[2]), NEW o \in Verify(leaf, held, told[1], told[2]), o.end = "ok"
    PROVE  o.files = held /\ Verified(held, leaf.input, o.result)
<1> DEFINE out == told[2].output
<1>1. OpensPdf(held, out) /\ OpensPdf(held, leaf.input) /\ out \in DOMAIN held /\ leaf.input \in DOMAIN held
  BY DEF Shrunk, OpensPdf
<1>2. o \in Returns(held, [output |-> out, exists |-> out \in DOMAIN held,
                           textPreserved |-> told[2].textPreserved,
                           pagesPreserved |-> out \in DOMAIN held /\ PageCount(held, out) = told[1].pageCount])
  BY <1>1 DEF Verify
<1>3. o.files = held /\ o.result.output = out /\ o.result.exists = (out \in DOMAIN held)
      /\ o.result.textPreserved = told[2].textPreserved
      /\ o.result.pagesPreserved = (out \in DOMAIN held /\ PageCount(held, out) = told[1].pageCount)
  BY <1>2, ReturnsIs
<1>4. told[1].pageCount = Len(held[leaf.input].pages)
  BY <1>1 DEF Inspection, Compresses, OpensPdf
<1>5. PageCount(held, out) = told[1].pageCount
  BY <1>4 DEF Shrunk, PageCount, Pages
<1>6. o.result.exists /\ o.result.pagesPreserved
  BY <1>1, <1>3, <1>5
<1> QED BY <1>1, <1>3, <1>6 DEF Verified, Shrunk, Pages

---------------------------------------------------------------------------
\* The second invariant: the folder is guarded, each leaf is told what is so,
\* and the last report is true of the folder.

\* What no step of the plan has the key to.
Unopened(source) ==
    /\ origin[source].lock # Open
    /\ \A k \in DOMAIN plan : plan[k].tool = "unlock_pdf" => plan[k].password # origin[source].lock

Locks == [source \in {s \in DOMAIN origin : Unopened(s)} |-> origin[source].lock]

LastIsTrue ==
    results # <<>> =>
        LET last == Last(results)
            told == last.result
        IN  /\ DocWrites(told) \subseteq DOMAIN files
            /\ "pages" \in DOMAIN told =>
                  "output" \in DOMAIN told /\ told.pages = Len(files[told.output].pages)
            /\ last.tool = "verify_output" =>
                  /\ last.intent \in DOMAIN plan /\ plan[last.intent].tool = "compress_pdf"
                  /\ Compresses(plan[last.intent]) => Verified(files, plan[last.intent].input, told)

\* The leaf to run has the results of the leaves before it.
LeafIsTold ==
    /\ bound \in Seq(Range(bound)) /\ Len(bound) = li - 1
    /\ ToldWell(Leaf, files, bound)

TruthInv ==
    /\ GateInv
    /\ DOMAIN origin \subseteq DOMAIN files
    /\ GuardedFolder(files, Locks)
    /\ results \in Seq(Range(results))
    /\ phase # "over" => exit = NoExit
    /\ phase \in {"gate", "check", "intent"} => li = 1 /\ bound = <<>>
    /\ phase = "leaf" => LeafIsTold
    /\ exit # 1 => LastIsTrue

LEMMA LocksAreLocks == AreLocks(Locks)
  BY DEF AreLocks, Locks, Unopened

\* The leaves of an intent, and which of them hear of which.
LEMMA BlockShape ==
    ASSUME AtLeaf, NEW i \in DOMAIN plan, NEW k \in DOMAIN DocLeaves(plan[i])
    PROVE  LET leaf == DocLeaves(plan[i])[k]
           IN  /\ leaf.input = plan[i].input /\ leaf.out = plan[i].out /\ leaf.parts = plan[i].parts
               /\ leaf.tool \in {"run_ocr", "run_compress"} =>
                     k = 2 /\ DocLeaves(plan[i])[1].tool = "inspect_document"
               /\ leaf.tool = "verify_output" =>
                     k = 3 /\ DocLeaves(plan[i])[2].tool = "run_compress" /\ plan[i].tool = "compress_pdf"
               /\ leaf.tool \in {"merge_pdfs", "unlock_pdf"} => leaf = plan[i]
<1> DEFINE it == plan[i]
           As(tool) == [it EXCEPT !.tool = tool]
<1>1. /\ it = [field \in DOMAIN it |-> it[field]] /\ {"tool", "input", "out", "parts"} \subseteq DOMAIN it
      /\ it.tool \in Tools
  BY PlansAreWhole DEF AtLeaf
<1> HIDE DEF it
<1>2. \A tool : As(tool).tool = tool /\ As(tool).input = it.input /\ As(tool).out = it.out /\ As(tool).parts = it.parts
  BY <1>1
<1> HIDE DEF As
<1>3. CASE it.tool = "compress_pdf"
  <2>1. DocLeaves(it) = <<As("inspect_document"), As("run_compress"), As("verify_output")>>
    BY <1>3 DEF DocLeaves, As
  <2> QED BY <2>1, <1>2, <1>3 DEF it
<1>4. CASE it.tool = "ocr_document"
  <2>1. DocLeaves(it) = <<As("inspect_document"), As("run_ocr")>>
    BY <1>4 DEF DocLeaves, As
  <2> QED BY <2>1, <1>2 DEF it
<1>5. CASE it.tool \notin {"compress_pdf", "ocr_document"}
  <2>1. DocLeaves(it) = <<it>>
    BY <1>5 DEF DocLeaves
  <2>2. it.tool \notin {"run_ocr", "run_compress", "verify_output"}
    BY <1>1 DEF Tools
  <2> QED BY <2>1, <2>2 DEF it
<1> QED BY <1>3, <1>4, <1>5

LEMMA LeafFits ==
    ASSUME AtLeaf, NEW i \in DOMAIN plan, NEW k \in DOMAIN DocLeaves(plan[i])
    PROVE  Fits(DocLeaves(plan[i])[k], Locks)
<1> DEFINE leaf == DocLeaves(plan[i])[k]
<1>1. WholeLeaf(leaf)
  BY PlanLeaves
<1>2. leaf.parts = plan[i].parts /\ (leaf.tool \in {"merge_pdfs", "unlock_pdf"} => leaf = plan[i])
  BY BlockShape
<1>3. IsParts(plan[i].parts) /\ (plan[i].tool = "merge_pdfs" => plan[i].inputs \in Seq(Range(plan[i].inputs)))
  BY PlansAreWhole DEF AtLeaf, IsParts
<1> HIDE DEF leaf
<1>4. leaf.tool = "unlock_pdf" => leaf.password \notin Range(Locks)
  BY <1>2 DEF Locks, Unopened, Range
<1>5. Fits(leaf, Locks)
  BY <1>1, <1>2, <1>3, <1>4 DEF Fits
<1> QED BY <1>5 DEF leaf

LEMMA EmptyIsSeq == <<>> \in Seq(Range(<<>>)) /\ Len(<<>>) = 0
<1>1. \A S : <<>> \in Seq(S)
  OBVIOUS
<1> QED BY <1>1

LEMMA AppendedSeq ==
    ASSUME NEW s, s \in Seq(Range(s)), NEW x
    PROVE  /\ Append(s, x) \in Seq(Range(Append(s, x))) /\ Len(Append(s, x)) = Len(s) + 1
           /\ Append(s, x) # <<>> /\ Last(Append(s, x)) = x
           /\ Append(s, x)[Len(s) + 1] = x /\ \A k \in 1..Len(s) : Append(s, x)[k] = s[k]
<1>1. PICK n \in Nat : n = Len(s)
  OBVIOUS
<1>2. PICK t : t = Append(s, x)
  OBVIOUS
<1>3. DOMAIN t = 1..(n + 1) /\ t[n + 1] = x /\ Len(t) = n + 1 /\ \A k \in 1..n : t[k] = s[k]
  BY <1>1, <1>2
<1>4. t \in [1..(n + 1) -> Range(t)]
  <2>1. \E S : t \in Seq(S)
    <3>1. t \in Seq(Range(s) \cup {x})
      <4>1. s \in Seq(Range(s) \cup {x})
        OBVIOUS
      <4> QED BY <1>2, <4>1
    <3> QED BY <3>1
  <2>2. t = [k \in DOMAIN t |-> t[k]]
    BY <2>1
  <2> QED BY <1>3, <2>2 DEF Range
<1>5. t \in Seq(Range(t))
  BY <1>4
<1> QED BY <1>1, <1>2, <1>3, <1>5 DEF Last

\* The first leaf of an intent hears of nothing, and needs nothing.
LEMMA FirstIsTold == AtLeaf /\ bi \in DOMAIN plan /\ li = 1 /\ bound = <<>> => LeafIsTold
<1> SUFFICES ASSUME AtLeaf, bi \in DOMAIN plan, li = 1, bound = <<>>
             PROVE  LeafIsTold
  OBVIOUS
<1>1. 1 \in DOMAIN DocLeaves(plan[bi])
  BY DEF AtLeaf
<1>2. Leaf.tool \notin {"run_ocr", "run_compress", "verify_output"}
  BY <1>1, BlockShape DEF Leaf, Block
<1> QED BY <1>2, EmptyIsSeq DEF LeafIsTold, ToldWell

LEMMA InitTruth ==
    ASSUME Init
    PROVE  TruthInv
<1>1. origin \in Folders /\ files = origin /\ results = <<>> /\ exit = NoExit /\ phase = "preview"
  BY DEF Init
<1>2. GuardedFolder(files, Locks)
  <2> SUFFICES ASSUME NEW p \in DOMAIN origin PROVE Guarded(origin[p], Locks)
    BY <1>1 DEF GuardedFolder
  <2>1. IsFile(origin[p]) /\ \A i \in DOMAIN origin[p].pages : origin[p].pages[i].of[1] = p
    BY <1>1, PagesAreOwn
  <2>2. p \in DOMAIN Locks => Locks[p] = origin[p].lock
    BY DEF Locks
  <2> QED BY <2>1, <2>2 DEF Guarded
<1>3. GateInv
  BY InitHolds
<1> QED BY <1>1, <1>2, <1>3, EmptyIsSeq DEF TruthInv, LastIsTrue

\* A step that writes no file and runs no leaf.
LEMMA QuietTruth ==
    ASSUME TruthInv, GateInv', phase # "over", UNCHANGED <<plan, origin, files, results>>,
           phase' # "over" => exit' = exit,
           phase' \in {"gate", "check", "intent", "leaf"} => li' = 1 /\ bound' = <<>>
    PROVE  TruthInv'
<1>1. /\ exit = NoExit /\ GuardedFolder(files, Locks) /\ results \in Seq(Range(results))
      /\ DOMAIN origin \subseteq DOMAIN files
  BY DEF TruthInv
<1>2. LastIsTrue
  BY <1>1 DEF TruthInv, NoExit
<1>3. LastIsTrue'
  BY <1>2 DEF LastIsTrue
<1>4. Locks' = Locks
  BY DEF Locks, Unopened
<1>5. GuardedFolder(files, Locks)'
  BY <1>1, <1>4 DEF GuardedFolder
<1>6. phase' = "leaf" => LeafIsTold'
  <2> SUFFICES ASSUME phase' = "leaf" PROVE LeafIsTold'
    OBVIOUS
  <2>1. AtLeaf' /\ (bi \in DOMAIN plan)' /\ (li = 1)' /\ (bound = <<>>)'
    BY DEF GateInv
  <2> QED BY <2>1, FirstIsTold, PTL
<1>7. (phase # "over" => exit = NoExit)'
  BY <1>1 DEF NoExit
<1> QED BY <1>1, <1>3, <1>5, <1>6, <1>7 DEF TruthInv

\* A step of the run: what the leaf was told and has to tell.
LEMMA LeafTruth ==
    ASSUME TruthInv, phase = "leaf", NEW o \in DocDo(Leaf, files, bound, setting)
    PROVE  /\ LeavesGuarded(o, Locks) /\ Ended(o) /\ DOMAIN files \subseteq DOMAIN o.files
           /\ li \in DOMAIN DocLeaves(plan[bi]) /\ bi \in DOMAIN plan /\ AtLeaf
<1>1. AtLeaf /\ bi \in DOMAIN plan /\ li \in DOMAIN DocLeaves(plan[bi])
  BY DEF TruthInv, GateInv, AtLeaf
<1>2. Fits(Leaf, Locks) /\ WholeLeaf(Leaf)
  BY <1>1, LeafFits DEF Leaf, Block, Fits
<1>3. ToldWell(Leaf, files, bound) /\ GuardedFolder(files, Locks)
  BY DEF TruthInv, LeafIsTold
<1>4. LeavesGuarded(o, Locks)
  BY <1>2, <1>3, LeafGuarded, LocksAreLocks
<1>5. KeepsBut(files, o.files, Replaces(Leaf)) /\ Ended(o)
  BY <1>2, LeafKeeps
<1> QED BY <1>1, <1>4, <1>5 DEF KeepsBut

\* What a verification reports is so, if the document was compressed to a name of its own.
LEMMA VerifyTruth ==
    ASSUME TruthInv, phase = "leaf", NEW o \in DocDo(Leaf, files, bound, setting), o.end = "ok",
           Leaf.tool = "verify_output"
    PROVE  /\ bi \in DOMAIN plan /\ plan[bi].tool = "compress_pdf"
           /\ Compresses(plan[bi]) => Verified(o.files, plan[bi].input, o.result)
<1>1. AtLeaf /\ bi \in DOMAIN plan /\ li \in DOMAIN DocLeaves(plan[bi])
  BY LeafTruth
<1>2. Leaf.input = plan[bi].input /\ Leaf.out = plan[bi].out /\ plan[bi].tool = "compress_pdf"
  BY <1>1, BlockShape DEF Leaf, Block
<1>3. ASSUME Compresses(plan[bi])
      PROVE  Verified(o.files, plan[bi].input, o.result)
  <2>1. PICK leaf : leaf = Leaf
    OBVIOUS
  <2>2. Compresses(leaf) /\ leaf.tool = "verify_output" /\ leaf.input = plan[bi].input
    BY <1>2, <1>3, <2>1 DEF Compresses
  <2>3. ToldWell(leaf, files, bound)
    BY <2>1 DEF TruthInv, LeafIsTold
  <2>4. bound[1] = Inspection(files, leaf.input) /\ Shrunk(files, leaf.input, bound[2])
    BY <2>2, <2>3 DEF ToldWell
  <2>5. o \in Verify(leaf, files, bound[1], bound[2])
    BY <2>1, <2>2 DEF DocDo, Handle
  <2>6. o.files = files /\ Verified(files, leaf.input, o.result)
    BY <2>2, <2>4, <2>5, VerifyTells
  <2> QED BY <2>2, <2>6
<1> QED BY <1>1, <1>2, <1>3

LEMMA CompressNames ==
    ASSUME NEW leaf, NEW held, NEW tools, NEW o \in Compress(leaf, held, FALSE, tools), o.end = "ok"
    PROVE  o.result.output \in DocWrites(o.result)
<1>1. \A h : o \notin Raises(h)
  BY DEF Raises, Ends
<1>2. \E out, kept, new : o \in Returns(new, CompressTells(leaf, out, kept, tools))
  BY <1>1, CompressEnds
<1>3. PICK out, kept : o.result = CompressTells(leaf, out, kept, tools)
  BY <1>2, ReturnsIs
<1> QED BY <1>3 DEF CompressTells, DocWrites

\* The next leaf of the same intent is told what this one found or did.
LEMMA NextIsTold ==
    ASSUME TruthInv, phase = "leaf", NEW o \in DocDo(Leaf, files, bound, setting), o.end = "ok",
           li < Len(Block), NEW next, next = Block[li + 1]
    PROVE  ToldWell(next, o.files, Append(bound, o.result))
<1> DEFINE here == Leaf
           told == Append(bound, o.result)
<1>1. /\ AtLeaf /\ bi \in DOMAIN plan /\ li \in DOMAIN Block /\ Block = DocLeaves(plan[bi])
      /\ LeavesGuarded(o, Locks) /\ here = Block[li]
  BY LeafTruth DEF Block, Leaf
<1>2. Len(Block) \in Nat /\ DOMAIN Block = 1..Len(Block)
  BY <1>1, PlanLeaves
<1>3. li \in Nat /\ li + 1 \in DOMAIN Block
  BY <1>1, <1>2
<1>4. /\ here.input = plan[bi].input /\ next.input = plan[bi].input
      /\ here.out = plan[bi].out /\ next.out = plan[bi].out
      /\ next.tool \in {"run_ocr", "run_compress"} => li + 1 = 2 /\ Block[1].tool = "inspect_document"
      /\ next.tool = "verify_output" => li + 1 = 3 /\ Block[2].tool = "run_compress"
  BY <1>1, <1>3, BlockShape
<1>5. /\ bound \in Seq(Range(bound)) /\ Len(bound) = li - 1 /\ ToldWell(here, files, bound)
      /\ GuardedFolder(files, Locks)
  BY DEF TruthInv, LeafIsTold
<1>6. told[li] = o.result /\ \A k \in 1..(li - 1) : told[k] = bound[k]
  BY <1>3, <1>5, AppendedSeq
<1> HIDE DEF here, told
<1>7. CASE next.tool \in {"run_ocr", "run_compress"}
  <2>1. li = 1 /\ here.tool = "inspect_document"
    BY <1>1, <1>3, <1>4, <1>7
  <2>2. o \in Inspect(here, files, FALSE)
    BY <2>1 DEF DocDo, Handle, here
  <2>3. o.files = files /\ here.input \in DOMAIN files /\ o.result = Inspection(files, here.input)
    BY <2>2, InspectTells
  <2> QED BY <1>4, <1>6, <1>7, <2>1, <2>3 DEF ToldWell, told
<1>8. CASE next.tool = "verify_output"
  <2>1. li = 2 /\ here.tool = "run_compress"
    BY <1>1, <1>3, <1>4, <1>8
  <2>2. o \in Compress(here, files, FALSE, setting)
    BY <2>1 DEF DocDo, Handle, here
  <2>3. told[2] = o.result /\ told[1] = bound[1]
    BY <1>6, <2>1
  <2>4. bound[1] = Inspection(files, here.input)
    BY <1>5, <2>1 DEF ToldWell
  <2>5. o.result.output \in DOMAIN o.files
    BY <1>1, <2>2, CompressNames DEF LeavesGuarded, Truthful
  <2>6. ASSUME Compresses(next)
        PROVE  told[1] = Inspection(o.files, next.input) /\ Shrunk(o.files, next.input, told[2])
    <3>1. here.out # here.input
      BY <1>4, <2>6 DEF Compresses
    <3>2. o.files[here.input] = files[here.input] /\ Shrunk(o.files, here.input, o.result)
      <4>1. PICK locks : GuardedFolder(files, locks) /\ AreLocks(locks)
        BY <1>5, LocksAreLocks
      <4>2. PICK leaf, held, tools : leaf = here /\ held = files /\ tools = setting
        OBVIOUS
      <4>3. o \in Compress(leaf, held, FALSE, tools) /\ leaf.out # leaf.input
        BY <2>2, <3>1, <4>2
      <4>4. o.files[leaf.input] = held[leaf.input] /\ Shrunk(o.files, leaf.input, o.result)
        BY <4>1, <4>2, <4>3, CompressShrinks
      <4> QED BY <4>2, <4>4
    <3>3. Inspection(o.files, here.input) = Inspection(files, here.input)
      BY <3>2 DEF Inspection
    <3> QED BY <1>4, <2>3, <2>4, <3>2, <3>3
  <2> QED BY <1>8, <2>3, <2>5, <2>6 DEF ToldWell, told
<1>9. CASE next.tool \notin {"run_ocr", "run_compress", "verify_output"}
  BY <1>9 DEF ToldWell
<1> QED BY <1>7, <1>8, <1>9 DEF told

LEMMA RunTruth ==
    ASSUME TruthInv, RunLeaf, GateInv'
    PROVE  TruthInv'
<1>1. phase = "leaf" /\ UNCHANGED <<plan, origin, setting>> /\ exit = NoExit
  BY DEF RunLeaf, request, TruthInv
<1>2. PICK o \in DocDo(Leaf, files, bound, setting) :
        /\ files' = o.files
        /\ IF o.end = "raised"
           THEN End(1) /\ UNCHANGED <<place, results>>
           ELSE /\ results' = Append(results, [intent |-> bi, leaf |-> li, tool |-> Leaf.tool, result |-> o.result])
                /\ IF o.end = "ok"
                   THEN Advance(o.result) /\ phase' = (IF bi' # bi THEN "intent" ELSE phase) /\ UNCHANGED exit
                   ELSE Finish /\ UNCHANGED place
  BY DEF RunLeaf
<1>3. /\ LeavesGuarded(o, Locks) /\ Ended(o) /\ DOMAIN files \subseteq DOMAIN o.files
      /\ li \in DOMAIN DocLeaves(plan[bi]) /\ bi \in DOMAIN plan /\ AtLeaf
  BY <1>1, LeafTruth
<1>4. Locks' = Locks
  BY <1>1 DEF Locks, Unopened
<1>5. GuardedFolder(files, Locks)' /\ (DOMAIN origin \subseteq DOMAIN files)'
  BY <1>1, <1>2, <1>3, <1>4 DEF LeavesGuarded, TruthInv, GuardedFolder
<1>6. results \in Seq(Range(results))
  BY DEF TruthInv
<1>7. CASE o.end = "raised"
  <2>1. phase' = "over" /\ exit' = 1 /\ results' = results
    BY <1>2, <1>7 DEF End
  <2> QED BY <1>5, <1>6, <2>1 DEF TruthInv
<1>8. CASE o.end = "ok"
  <2> DEFINE record == [intent |-> bi, leaf |-> li, tool |-> Leaf.tool, result |-> o.result]
  <2>1. /\ results' = Append(results, record) /\ Advance(o.result) /\ exit' = exit
        /\ phase' = (IF bi' # bi THEN "intent" ELSE phase)
    BY <1>2, <1>8
  <2>2. results' \in Seq(Range(results')) /\ results' # <<>> /\ Last(results') = record
    BY <1>6, <2>1, AppendedSeq
  <2>3. record.intent = bi /\ record.tool = Leaf.tool /\ record.result = o.result
    OBVIOUS
  <2> HIDE DEF record
  <2>4. Leaf.tool = "verify_output" =>
          /\ bi \in DOMAIN plan /\ plan[bi].tool = "compress_pdf"
          /\ Compresses(plan[bi]) => Verified(o.files, plan[bi].input, o.result)
    BY <1>1, <1>8, VerifyTruth
  <2>5. LastIsTrue'
    BY <1>1, <1>2, <1>3, <1>8, <2>2, <2>3, <2>4 DEF LastIsTrue, LeavesGuarded, Truthful
  <2>6. CASE li < Len(Block)
    <3>1. li' = li + 1 /\ bound' = Append(bound, o.result) /\ bi' = bi /\ phase' = "leaf"
      BY <1>1, <2>1, <2>6 DEF Advance
    <3>2. bound \in Seq(Range(bound)) /\ Len(bound) = li - 1 /\ li \in Nat
      BY <1>1, <1>3 DEF TruthInv, LeafIsTold, AtLeaf
    <3>3. Leaf' = Block[li + 1]
      BY <1>1, <3>1 DEF Leaf, Block
    <3>4. ToldWell(Leaf', files', bound')
      BY <1>1, <1>2, <1>8, <2>6, <3>1, <3>3, NextIsTold
    <3>5. bound' \in Seq(Range(bound')) /\ Len(bound') = li' - 1
      BY <3>1, <3>2, AppendedSeq
    <3>6. LeafIsTold'
      BY <3>4, <3>5 DEF LeafIsTold
    <3> QED BY <1>1, <1>5, <2>1, <2>2, <2>5, <3>1, <3>6 DEF TruthInv
  <2>7. CASE ~(li < Len(Block))
    <3>1. li' = 1 /\ bound' = <<>> /\ bi' = bi + 1
      BY <2>1, <2>7 DEF Advance
    <3>2. phase' = "intent"
      BY <1>3, <2>1, <3>1 DEF AtLeaf
    <3> QED BY <1>1, <1>5, <2>1, <2>2, <2>5, <3>1, <3>2 DEF TruthInv
  <2> QED BY <2>6, <2>7
<1> QED BY <1>3, <1>7, <1>8 DEF Ended

\* A newcomer holds its own pages under its own lock.
LEMMA PutTruth ==
    ASSUME TruthInv, NEW p \in DOMAIN Newcomers, Put(p), GateInv'
    PROVE  TruthInv'
<1>1. /\ UNCHANGED <<plan, origin, setting, phase, bi, li, bound, results, exit>> /\ p \notin DOMAIN files
      /\ DOMAIN files' = DOMAIN files \cup {p} /\ files'[p] = Newcomers[p]
      /\ \A q \in DOMAIN files : files'[q] = files[q]
  BY DEF Put, request, place
<1>2. /\ DOMAIN origin \subseteq DOMAIN files /\ GuardedFolder(files, Locks) /\ results \in Seq(Range(results))
      /\ exit = NoExit
  BY DEF TruthInv, Put
<1>3. Locks' = Locks
  BY <1>1 DEF Locks, Unopened
<1>4. Guarded(Newcomers[p], Locks)
  <2>1. IsFile(Newcomers[p]) /\ \A i \in DOMAIN Newcomers[p].pages : Newcomers[p].pages[i].of[1] = p
    BY PagesAreOwn
  <2>2. p \notin DOMAIN Locks
    BY <1>1, <1>2 DEF Locks
  <2> QED BY <2>1, <2>2 DEF Guarded
<1>5. GuardedFolder(files, Locks)'
  BY <1>1, <1>2, <1>3, <1>4 DEF GuardedFolder
<1>6. LastIsTrue'
  <2>1. LastIsTrue
    BY <1>2 DEF TruthInv, NoExit
  <2>2. \A path, told : Verified(files, path, told) => Verified(files', path, told)
    BY <1>1 DEF Verified
  <2>3. ASSUME results # <<>>, "pages" \in DOMAIN Last(results).result
        PROVE  Last(results).result.output \in DOMAIN files
    BY <2>1, <2>3 DEF LastIsTrue, DocWrites
  <2> QED BY <1>1, <2>1, <2>2, <2>3 DEF LastIsTrue
<1>7. phase = "leaf" => LeafIsTold'
  <2> SUFFICES ASSUME phase = "leaf" PROVE LeafIsTold'
    OBVIOUS
  <2>1. LeafIsTold
    BY DEF TruthInv
  <2>2. Leaf' = Leaf
    BY <1>1 DEF Leaf, Block
  <2>3. PICK leaf : leaf = Leaf
    OBVIOUS
  <2>4. ToldWell(leaf, files, bound)
    BY <2>1, <2>3 DEF LeafIsTold
  <2>5. \A path \in DOMAIN files : Inspection(files', path) = Inspection(files, path)
    BY <1>1 DEF Inspection
  <2>6. ASSUME Shrunk(files, leaf.input, bound[2])
        PROVE  leaf.input \in DOMAIN files /\ Shrunk(files', leaf.input, bound[2])
    BY <1>1, <2>6 DEF Shrunk, OpensPdf, Pages
  <2>7. ToldWell(leaf, files', bound)
    BY <1>1, <2>4, <2>5, <2>6 DEF ToldWell
  <2>8. ToldWell(Leaf', files', bound')
    BY <1>1, <2>2, <2>3, <2>7
  <2> QED BY <1>1, <2>1, <2>8 DEF LeafIsTold
<1> QED BY <1>1, <1>2, <1>5, <1>6, <1>7 DEF TruthInv

LEMMA StepTruth ==
    ASSUME TruthInv, GateInv', [Next]_vars
    PROVE  TruthInv'
<1>1. CASE UNCHANGED vars
  <2>1. UNCHANGED <<plan, setting, origin, files, phase, bi, li, bound, results, exit>>
    BY <1>1 DEF vars, request, place
  <2> QED BY <2>1 DEF TruthInv, GuardedFolder, Locks, Unopened, LeafIsTold, Leaf, Block, LastIsTrue
<1>2. CASE PreviewLeaf
  <2>1. phase = "preview" /\ UNCHANGED <<plan, origin, files, results, exit>>
    BY <1>2 DEF PreviewLeaf, request
  <2>2. phase' = "preview" \/ (phase' = "gate" /\ li' = 1 /\ bound' = <<>>)
    BY <1>2, <2>1 DEF PreviewLeaf, ToGate
  <2> QED BY <2>1, <2>2, QuietTruth
<1>3. CASE PreviewEnds
  <2>1. phase = "preview" /\ UNCHANGED <<plan, origin, files, results, exit>> /\ li' = 1 /\ bound' = <<>>
    BY <1>3 DEF PreviewEnds, request, ToGate
  <2> QED BY <2>1, QuietTruth
<1>4. CASE NobodyToAsk \/ GateOpen \/ Check \/ PlanDone \/ (\E yes \in BOOLEAN : AskReplace(yes))
           \/ (\E ok \in BOOLEAN : ShowIntent(ok))
  <2>1. phase \in {"gate", "check", "intent"} /\ UNCHANGED <<plan, origin, files, results, li, bound>>
    BY <1>4 DEF NobodyToAsk, GateOpen, Check, PlanDone, AskReplace, ShowIntent, request, place
  <2>2. phase' # "over" => exit' = exit
    BY <1>4 DEF NobodyToAsk, GateOpen, Check, PlanDone, AskReplace, ShowIntent, End, Finish
  <2>3. li = 1 /\ bound = <<>>
    BY <2>1 DEF TruthInv
  <2> QED BY <2>1, <2>2, <2>3, QuietTruth
<1>5. CASE RunLeaf
  BY <1>5, RunTruth
<1>6. CASE \E p \in DOMAIN Newcomers : Put(p)
  BY <1>6, PutTruth
<1> QED BY <1>1, <1>2, <1>3, <1>4, <1>5, <1>6 DEF Next

LEMMA TruthAlways == Spec => []TruthInv
<1>1. Init => TruthInv
  BY InitTruth
<1>2. TruthInv => GateInv
  BY DEF TruthInv
<1>3. GateInv /\ [Next]_vars => GateInv'
  BY StepHolds
<1>4. TruthInv /\ [Next]_vars => TruthInv'
  BY <1>2, <1>3, StepTruth
<1> QED BY <1>1, <1>4, PTL DEF Spec

\* Whatever the plan does to a document, a page that was under a password is in
\* no file without one, unless the plan itself gives that password to remove it
\* (steps.py:364-378): no rotation, merge, split, copy, OCR or conversion opens it.
THEOREM LockedPagesStayLocked == Spec => []LockedStaysLocked
<1>1. TruthInv => LockedStaysLocked
  <2> SUFFICES ASSUME TruthInv, NEW p \in DOMAIN files, files[p].lock = Open,
                      NEW i \in DOMAIN files[p].pages, NEW source, source = files[p].pages[i].of[1],
                      source \in DOMAIN origin, origin[source].lock # Open
               PROVE  \E k \in DOMAIN plan : /\ plan[k].tool = "unlock_pdf"
                                             /\ plan[k].password = origin[source].lock
    BY DEF LockedStaysLocked
  <2>1. FreePages(files[p].pages, Locks)
    BY LocksAreLocks, OpenIsFree DEF TruthInv
  <2>2. source \notin DOMAIN Locks
    BY <2>1 DEF FreePages
  <2> QED BY <2>2 DEF Locks, Unopened
<1> QED BY <1>1, TruthAlways, PTL

\* A plan compresses documents named as such, and to another name: the planner
\* is told not to name an input as an output (prompt.yaml:14).
CompressesPdfs ==
    \A p \in Plans : \A i \in DOMAIN p : p[i].tool = "compress_pdf" => Compresses(p[i])

\* As long as nothing has failed, the last report is true of the folder as it is
\* now, whoever added files meanwhile: the number of pages it gives is that of
\* the file of that name, and a verified compression has every page of its
\* source, and its text if and only if it says so (steps.py:446-513, 551-572).
THEOREM ReportsStayTrue ==
    ASSUME CompressesPdfs
    PROVE  Spec => []ReportIsTrue
<1>1. TruthInv => ReportIsTrue
  <2> SUFFICES ASSUME TruthInv, results # <<>>, exit # 1 PROVE ReportIsTrue
    BY DEF ReportIsTrue
  <2> DEFINE last == Last(results)
             told == last.result
  <2>1. LastIsTrue /\ plan \in Plans
    BY DEF TruthInv, GateInv, AtLeaf
  <2>2. DocWrites(told) \subseteq DOMAIN files
        /\ ("pages" \in DOMAIN told => told.pages = Len(files[told.output].pages))
    BY <2>1 DEF LastIsTrue
  <2>3. last.tool = "verify_output" => Verified(files, plan[last.intent].input, told)
    BY <2>1 DEF LastIsTrue, CompressesPdfs
  <2> HIDE DEF last
  <2>4. last.tool = "verify_output" =>
          /\ told.exists /\ told.pagesPreserved
          /\ HasText(files[plan[last.intent].input].pages) =>
                (told.textPreserved <=>
                    \A i \in DOMAIN files[plan[last.intent].input].pages :
                        files[told.output].pages[i].text = files[plan[last.intent].input].pages[i].text)
    BY <2>3 DEF Verified
  <2> QED BY <2>2, <2>4 DEF ReportIsTrue, last
<1> QED BY <1>1, TruthAlways, PTL

---------------------------------------------------------------------------
\* Pages as asked.  What the run makes is followed page by page, but for the text.

SamePage(p, q) == IsPage(p) /\ IsPage(q) /\ p.of = q.of /\ p.turn = q.turn /\ p.marks = q.marks

WholePages(s) == s \in Seq(Range(s)) /\ \A i \in DOMAIN s : IsPage(s[i])

AsAsked(a, b) == WholePages(a) /\ WholePages(b) /\ SamePages(a, b)

\* Documents of equal length that agree page by page are the same.
LEMMA SamePageByPage ==
    ASSUME NEW n \in Nat, NEW a, NEW b, a = [i \in 1..n |-> a[i]], b = [i \in 1..n |-> b[i]],
           \A i \in 1..n : SamePage(a[i], b[i])
    PROVE  AsAsked(a, b) /\ Len(a) = n /\ Len(b) = n
<1>1. \A s : s = [i \in 1..n |-> s[i]] => s \in Seq(Range(s)) /\ DOMAIN s = 1..n /\ Len(s) = n
  <2> SUFFICES ASSUME NEW s, s = [i \in 1..n |-> s[i]]
               PROVE  s \in Seq(Range(s)) /\ DOMAIN s = 1..n /\ Len(s) = n
    OBVIOUS
  <2>1. DOMAIN s = 1..n
    OBVIOUS
  <2>2. s \in [1..n -> Range(s)]
    BY <2>1 DEF Range
  <2> QED BY <2>1, <2>2
<1>2. /\ a \in Seq(Range(a)) /\ DOMAIN a = 1..n /\ Len(a) = n
      /\ b \in Seq(Range(b)) /\ DOMAIN b = 1..n /\ Len(b) = n
  BY <1>1
<1> QED BY <1>2 DEF AsAsked, WholePages, SamePages, SamePage

\* And the same documents agree page by page.
LEMMA SamePageAt ==
    ASSUME NEW a, NEW b, AsAsked(a, b)
    PROVE  /\ Len(a) \in Nat /\ Len(b) = Len(a)
           /\ DOMAIN a = 1..Len(a) /\ DOMAIN b = 1..Len(a)
           /\ a = [i \in 1..Len(a) |-> a[i]] /\ b = [i \in 1..Len(a) |-> b[i]]
           /\ \A i \in 1..Len(a) : SamePage(a[i], b[i])
<1>1. a \in Seq(Range(a)) /\ b \in Seq(Range(b)) /\ Len(a) = Len(b)
  BY DEF AsAsked, WholePages, SamePages
<1>2. Len(a) \in Nat /\ DOMAIN a = 1..Len(a) /\ DOMAIN b = 1..Len(a)
      /\ a = [i \in 1..Len(a) |-> a[i]] /\ b = [i \in 1..Len(a) |-> b[i]]
  BY <1>1
<1> QED BY <1>1, <1>2 DEF AsAsked, WholePages, SamePages, SamePage

\* A folder whose files are whole.
LEMMA FreeIsWhole ==
    ASSUME NEW locks, NEW pages, FreePages(pages, locks)
    PROVE  WholePages(pages)
  BY DEF FreePages, WholePages

\* A whole document is the same as itself.
LEMMA WholeIsSame ==
    ASSUME NEW pages, WholePages(pages)
    PROVE  AsAsked(pages, pages)
  BY DEF AsAsked, SamePages

\* Turning, stamping and reading the text of a page keep it the same as its like.
LEMMA SamePageChanged ==
    ASSUME NEW p, NEW q, SamePage(p, q)
    PROVE  /\ \A by : SamePage(Turned(p, by), Turned(q, by))
           /\ \A mark : SamePage(Stamped(p, mark), Stamped(q, mark))
           /\ \A text \in BOOLEAN : SamePage([p EXCEPT !.text = text], q)
  BY DEF SamePage, IsPage, Turned, Stamped

\* Pages picked at the same places make the same document.
LEMMA PickedSame ==
    ASSUME NEW a, NEW b, AsAsked(a, b), NEW n \in Nat, NEW at, \A k \in 1..n : at[k] \in DOMAIN a
    PROVE  AsAsked([k \in 1..n |-> a[at[k]]], [k \in 1..n |-> b[at[k]]])
<1> DEFINE c == [k \in 1..n |-> a[at[k]]]
           d == [k \in 1..n |-> b[at[k]]]
<1>1. c = [k \in 1..n |-> c[k]] /\ d = [k \in 1..n |-> d[k]]
      /\ \A k \in 1..n : c[k] = a[at[k]] /\ d[k] = b[at[k]]
  OBVIOUS
<1>2. DOMAIN a = 1..Len(a) /\ \A i \in 1..Len(a) : SamePage(a[i], b[i])
  BY SamePageAt
<1> HIDE DEF c, d
<1>3. \A k \in 1..n : SamePage(c[k], d[k])
  BY <1>1, <1>2
<1>4. AsAsked(c, d)
  BY <1>1, <1>3, SamePageByPage
<1> QED BY <1>4 DEF c, d

---------------------------------------------------------------------------
\* The pages a part of a list names.

Forward(part, total) == part.span = "range" => From(part, total) <= To(part, total)

\* The numbers of one part go upwards, and are the pages it names and some
\* beyond the document at most (_parse_pages).
LEMMA PartPagesNamed ==
    ASSUME NEW part, IsPart(part), NEW total \in Nat, Forward(part, total)
    PROVE  LET s == PartPages(part, total)
           IN  /\ Len(s) \in Nat /\ DOMAIN s = 1..Len(s) /\ s = [k \in 1..Len(s) |-> s[k]]
               /\ \A k \in 1..Len(s) : s[k] \in Nat
               /\ \A k, l \in 1..Len(s) : k < l => s[k] < s[l]
               /\ \A k \in 1..Len(s) : s[k] \in 1..total => Names(part, s[k], total)
               /\ \A i \in 1..total : Names(part, i, total) => \E k \in 1..Len(s) : s[k] = i
<1>1. From(part, total) \in Nat /\ To(part, total) \in Nat
  BY EndpointIsNumber DEF IsPart, From, To
<1>2. PICK from \in Nat, to \in Nat : from = From(part, total) /\ to = To(part, total)
  BY <1>1
<1>3. \A n \in Nat : \A s : s = [k \in 1..n |-> s[k]] => Len(s) = n /\ DOMAIN s = 1..n
  <2> SUFFICES ASSUME NEW n \in Nat, NEW s, s = [k \in 1..n |-> s[k]]
               PROVE  Len(s) = n /\ DOMAIN s = 1..n
    OBVIOUS
  <2>1. DOMAIN s = 1..n /\ s \in [1..n -> Range(s)]
    <3>1. DOMAIN s = 1..n
      OBVIOUS
    <3> QED BY <3>1 DEF Range
  <2>2. s \in Seq(Range(s))
    BY <2>1
  <2> QED BY <2>1, <2>2
<1>4. CASE part.span = "all"
  <2>1. PICK s : s = [i \in 1..total |-> i]
    OBVIOUS
  <2>2. PartPages(part, total) = s
    BY <1>4, <2>1 DEF PartPages
  <2>3. s = [i \in 1..total |-> s[i]] /\ \A i \in 1..total : s[i] = i
    BY <2>1
  <2>4. Len(s) = total /\ DOMAIN s = 1..total
    BY <1>3, <2>3
  <2>5. \A i : Names(part, i, total)
    BY <1>4 DEF Names
  <2> QED BY <2>2, <2>3, <2>4, <2>5
<1>5. CASE part.span = "one"
  <2>1. PICK s : s = <<from>>
    OBVIOUS
  <2>2. PartPages(part, total) = s
    BY <1>2, <1>5, <2>1 DEF PartPages
  <2>3. s = [i \in 1..1 |-> s[i]] /\ s[1] = from /\ Len(s) = 1 /\ DOMAIN s = 1..1
    BY <2>1
  <2>4. \A i : Names(part, i, total) <=> i = from
    BY <1>2, <1>5 DEF Names
  <2>5. \A k \in 1..1 : k = 1
    OBVIOUS
  <2> QED BY <2>2, <2>3, <2>4, <2>5
<1>6. CASE part.span = "range"
  <2>1. PICK s : s = [i \in 1..(to - from + 1) |-> from + i - 1]
    OBVIOUS
  <2>2. PartPages(part, total) = s
    BY <1>2, <1>6, <2>1 DEF PartPages
  <2>3. from <= to /\ to - from + 1 \in Nat
    BY <1>2, <1>6 DEF Forward
  <2>4. PICK n \in Nat : n = to - from + 1
    BY <2>3
  <2>5. s = [i \in 1..n |-> s[i]] /\ \A i \in 1..n : s[i] = from + i - 1
    BY <2>1, <2>4
  <2>6. Len(s) = n /\ DOMAIN s = 1..n
    BY <1>3, <2>5
  <2>7. \A i : Names(part, i, total) <=> from <= i /\ i <= to
    BY <1>2, <1>6 DEF Names
  <2>8. \A k \in 1..n : s[k] \in Nat /\ from <= s[k] /\ s[k] <= to
    BY <2>4, <2>5
  <2>9. \A k, l \in 1..n : k < l => s[k] < s[l]
    BY <2>5
  <2>10. ASSUME NEW i \in 1..total, from <= i, i <= to
         PROVE  \E k \in 1..n : s[k] = i
    <3>1. i - from + 1 \in 1..n /\ from + (i - from + 1) - 1 = i
      BY <2>4, <2>10
    <3> QED BY <2>5, <3>1
  <2> QED BY <2>2, <2>5, <2>6, <2>7, <2>8, <2>9, <2>10
<1> QED BY <1>4, <1>5, <1>6 DEF IsPart

NamedPages(part, total) == InOrder({i \in 1..total : Names(part, i, total)})

\* As a sequence: what has a finite domain from 1 on.
LEMMA SequenceOf ==
    ASSUME NEW n \in Nat, NEW s, s = [k \in 1..n |-> s[k]]
    PROVE  DOMAIN s = 1..n /\ Len(s) = n /\ (\A S : (\A k \in 1..n : s[k] \in S) => s \in Seq(S))
<1>1. DOMAIN s = 1..n
  OBVIOUS
<1>2. \A S : (\A k \in 1..n : s[k] \in S) => s \in [1..n -> S]
  OBVIOUS
<1>3. \A S : (\A k \in 1..n : s[k] \in S) => s \in Seq(S)
  BY <1>2
<1>4. s \in Seq(Range(s))
  BY <1>1, <1>3 DEF Range
<1> QED BY <1>1, <1>3, <1>4

\* The pages a part names, in order.
LEMMA NamedPagesAre ==
    ASSUME NEW part, NEW total \in Nat
    PROVE  LET t == NamedPages(part, total)
           IN  /\ Len(t) \in Nat /\ DOMAIN t = 1..Len(t) /\ t = [k \in 1..Len(t) |-> t[k]]
               /\ \A k \in 1..Len(t) : t[k] \in 1..total /\ Names(part, t[k], total)
               /\ \A k, l \in 1..Len(t) : k < l => t[k] < t[l]
               /\ \A i \in 1..total : Names(part, i, total) => \E k \in 1..Len(t) : t[k] = i
<1> DEFINE S == {i \in 1..total : Names(part, i, total)}
<1>1. S \in SUBSET Nat /\ S \in SUBSET (1..total)
  OBVIOUS
<1>2. \A i : i \in S <=> i \in 1..total /\ Names(part, i, total)
  OBVIOUS
<1>3. PICK t : t = InOrder(S)
  OBVIOUS
<1>4. NamedPages(part, total) = t
  BY <1>3 DEF NamedPages
<1> HIDE DEF S
<1>5. IsFiniteSet(S)
  <2>1. IsFiniteSet(1..total)
    BY FS_Interval
  <2> QED BY <1>1, <2>1, FS_Subset
<1>6. PICK n : n = Cardinality(S)
  OBVIOUS
<1>7. /\ n \in Nat /\ DOMAIN t = 1..n /\ \A k \in 1..n : t[k] \in S
      /\ \A k, l \in 1..n : k < l => t[k] < t[l]
      /\ \A i \in S : \E k \in 1..n : t[k] = i
  BY <1>1, <1>3, <1>5, <1>6, InOrderIncreases
<1>8. t = [k \in 1..n |-> t[k]]
  BY <1>3, <1>6 DEF InOrder
<1>9. Len(t) = n
  BY <1>7, <1>8, SequenceOf
<1> QED BY <1>2, <1>4, <1>7, <1>8, <1>9

\* NamedBy picks them.
LEMMA NamedByPicks ==
    ASSUME NEW part, NEW pages, DOMAIN pages = 1..Len(pages), Len(pages) \in Nat
    PROVE  NamedBy(part, pages) =
             [k \in 1..Len(NamedPages(part, Len(pages))) |-> pages[NamedPages(part, Len(pages))[k]]]
<1>1. PICK t : t = NamedPages(part, Len(pages))
  OBVIOUS
<1>2. DOMAIN t = 1..Len(t)
  BY <1>1, NamedPagesAre
<1>3. InOrder({i \in DOMAIN pages : Names(part, i, Len(pages))}) = t
  BY <1>1 DEF NamedPages
<1>4. NamedBy(part, pages) = [k \in DOMAIN t |-> pages[t[k]]]
  BY <1>3 DEF NamedBy
<1> QED BY <1>1, <1>2, <1>4

\* A part within the document lists the pages it names.
LEMMA PartWithin ==
    ASSUME NEW part, IsPart(part), NEW total \in Nat, Forward(part, total),
           \A k \in DOMAIN PartPages(part, total) : PartPages(part, total)[k] \in 1..total
    PROVE  NamedPages(part, total) = PartPages(part, total)
<1>1. PICK s : s = PartPages(part, total)
  OBVIOUS
<1>2. PICK n : n = Len(s)
  OBVIOUS
<1>3. /\ n \in Nat /\ DOMAIN s = 1..n /\ s = [k \in 1..n |-> s[k]]
      /\ \A k \in 1..n : s[k] \in Nat
      /\ \A k, l \in 1..n : k < l => s[k] < s[l]
      /\ \A k \in 1..n : s[k] \in 1..total => Names(part, s[k], total)
      /\ \A i \in 1..total : Names(part, i, total) => \E k \in 1..n : s[k] = i
  BY <1>1, <1>2, PartPagesNamed
<1>4. \A k \in 1..n : s[k] \in 1..total
  BY <1>1, <1>3
<1> DEFINE S == {s[k] : k \in 1..n}
<1>5. S = {i \in 1..total : Names(part, i, total)}
  BY <1>3, <1>4
<1>6. Cardinality(S) = n /\ \A k \in 1..n : InOrder(S)[k] = s[k]
  BY <1>3, InOrderIs
<1>7. InOrder(S) = [k \in 1..n |-> InOrder(S)[k]]
  <2> HIDE DEF S
  <2>1. DOMAIN InOrder(S) = 1..n
    BY <1>6 DEF InOrder
  <2>2. InOrder(S) = [k \in DOMAIN InOrder(S) |-> InOrder(S)[k]]
    BY DEF InOrder
  <2> QED BY <2>1, <2>2
<1> HIDE DEF S
<1>8. InOrder(S) = s
  BY <1>3, <1>6, <1>7
<1> QED BY <1>1, <1>5, <1>8 DEF NamedPages

---------------------------------------------------------------------------
\* What a list of parts lists: the parts one after the other.

PartsOf(parts, total) == [k \in DOMAIN parts |-> PartPages(parts[k], total)]

\* A list of parts is their numbers one after the other.
LEMMA ListedJoined ==
    ASSUME NEW parts, IsParts(parts), parts # <<>>, NEW total \in Nat
    PROVE  LET s == PartsOf(parts, total)
           IN  /\ s \in Seq(Seq(Int)) /\ Len(s) = Len(parts) /\ Len(s) \in Nat /\ DOMAIN parts = 1..Len(s)
               /\ \A k \in 1..Len(s) : s[k] = PartPages(parts[k], total) /\ s[k] \in Seq(Int)
               /\ ListedPages(parts, total) = FlattenSeq(s)
<1>1. PICK n \in Nat : n = Len(parts) /\ DOMAIN parts = 1..n
  BY DEF IsParts
<1>2. PICK s : s = PartsOf(parts, total)
  OBVIOUS
<1>3. s = [k \in 1..n |-> s[k]] /\ \A k \in 1..n : s[k] = PartPages(parts[k], total)
  BY <1>1, <1>2 DEF PartsOf
<1>4. \A k \in 1..n : s[k] \in Seq(Int)
  BY <1>1, <1>3, PartPagesAreNumbers DEF IsParts
<1>5. Len(s) = n /\ s \in Seq(Seq(Int))
  BY <1>3, <1>4, SequenceOf
<1>6. ListedPages(parts, total) = FlattenSeq(s)
  BY <1>2 DEF ListedPages, PartsOf
<1> QED BY <1>1, <1>2, <1>3, <1>4, <1>5, <1>6

\* No part of a list that is not backwards is.
LEMMA NotBackwards ==
    ASSUME NEW parts, IsParts(parts), NEW total \in Nat, ~Backwards(parts, total), NEW k \in DOMAIN parts
    PROVE  IsPart(parts[k]) /\ Forward(parts[k], total)
<1>1. IsPart(parts[k])
  BY DEF IsParts
<1>2. From(parts[k], total) \in Nat /\ To(parts[k], total) \in Nat
  BY <1>1, EndpointIsNumber DEF IsPart, From, To
<1>3. parts[k].span = "range" => ~(From(parts[k], total) > To(parts[k], total))
  BY DEF Backwards
<1> QED BY <1>1, <1>2, <1>3 DEF Forward

\* A list that is not refused has each page as often as its parts name it.
LEMMA ListedAsNamed ==
    ASSUME NEW parts, IsParts(parts), parts # <<>>, NEW total \in Nat, ~Refused(parts, total), NEW i \in 1..total
    PROVE  /\ Occurrences(ListedPages(parts, total), i) = TimesNamed(parts, i, total)
           /\ i \in Range(ListedPages(parts, total)) <=> TimesNamed(parts, i, total) # 0
<1>1. PICK s : s = PartsOf(parts, total)
  OBVIOUS
<1>2. PICK n : n = Len(s)
  OBVIOUS
<1>3. /\ s \in Seq(Seq(Int)) /\ n \in Nat /\ DOMAIN parts = 1..n
      /\ \A k \in 1..n : s[k] = PartPages(parts[k], total)
      /\ ListedPages(parts, total) = FlattenSeq(s)
  BY <1>1, <1>2, ListedJoined
<1>4. PICK joined : joined = FlattenSeq(s)
  OBVIOUS
<1>5. PICK o : Offsets(o, s) /\ PlacedAt(o, s, joined, n)
  BY <1>2, <1>3, <1>4, FlattenPlaced
<1>6. /\ \A k \in 1..n : \A j \in 1..Len(s[k]) : o[k - 1] + j \in 1..Len(joined) /\ joined[o[k - 1] + j] = s[k][j]
      /\ \A m \in 1..Len(joined) : \E k \in 1..n : \E j \in 1..Len(s[k]) : m = o[k - 1] + j
  BY <1>5 DEF PlacedAt
<1>7. DOMAIN joined = 1..Len(joined)
  <2>1. joined \in Seq(Int)
    BY <1>3, <1>4, FlattenElements
  <2> QED BY <2>1
<1>8. ~Backwards(parts, total) /\ \A m \in 1..Len(joined) : joined[m] \in 1..total
  BY <1>3, <1>4, <1>7 DEF Refused, InRange
<1>9. ASSUME NEW k \in 1..n
      PROVE  /\ Len(s[k]) \in Nat
             /\ \A j, l \in 1..Len(s[k]) : j < l => s[k][j] < s[k][l]
             /\ \A j \in 1..Len(s[k]) : s[k][j] \in Nat
             /\ Names(parts[k], i, total) <=> \E j \in 1..Len(s[k]) : s[k][j] = i
  <2>1. IsPart(parts[k]) /\ Forward(parts[k], total)
    BY <1>3, <1>8, NotBackwards
  <2>2. /\ Len(s[k]) \in Nat
        /\ \A j \in 1..Len(s[k]) : s[k][j] \in Nat
        /\ \A j, l \in 1..Len(s[k]) : j < l => s[k][j] < s[k][l]
        /\ \A j \in 1..Len(s[k]) : s[k][j] \in 1..total => Names(parts[k], s[k][j], total)
        /\ Names(parts[k], i, total) => \E j \in 1..Len(s[k]) : s[k][j] = i
    BY <1>3, <2>1, PartPagesNamed
  <2> QED BY <2>2
<1>10. \A k \in 1..n : \A j, l \in 1..Len(s[k]) : s[k][j] = s[k][l] => j = l
  <2> SUFFICES ASSUME NEW k \in 1..n, NEW j \in 1..Len(s[k]), NEW l \in 1..Len(s[k]), s[k][j] = s[k][l]
               PROVE  j = l
    OBVIOUS
  <2>1. s[k][j] \in Nat /\ s[k][l] \in Nat
    BY <1>9
  <2>2. ~(j < l) /\ ~(l < j)
    BY <1>9, <2>1
  <2>3. j \in Nat /\ l \in Nat
    BY <1>9
  <2> QED BY <2>2, <2>3
<1> DEFINE A == {m \in DOMAIN joined : joined[m] = i}
           K == {k \in DOMAIN parts : Names(parts[k], i, total)}
           At(k) == CHOOSE j \in 1..Len(s[k]) : s[k][j] = i
           g == [k \in K |-> o[k - 1] + At(k)]
<1>11. \A k \in K : k \in 1..n /\ At(k) \in 1..Len(s[k]) /\ s[k][At(k)] = i
  BY <1>3, <1>9
<1>12. \A k \in 1..n : k \in K <=> Names(parts[k], i, total)
  BY <1>3
<1>13. \A m : m \in A <=> m \in 1..Len(joined) /\ joined[m] = i
  BY <1>7
<1>14. DOMAIN g = K /\ \A k \in K : g[k] = o[k - 1] + At(k)
  OBVIOUS
<1>15. TimesNamed(parts, i, total) = Cardinality(K) /\ Occurrences(joined, i) = Cardinality(A)
  BY DEF TimesNamed, Occurrences
<1>16. IsFiniteSet(K)
  <2>1. IsFiniteSet(1..n) /\ K \in SUBSET (1..n)
    BY <1>3, FS_Interval
  <2> HIDE DEF K
  <2> QED BY <2>1, FS_Subset
<1>25. i \in Range(joined) <=> \E m : m \in A
  BY <1>7, <1>13 DEF Range
<1> HIDE DEF A, K, At, g
<1>17. \A k \in K : g[k] \in A
  <2> SUFFICES ASSUME NEW k \in K PROVE g[k] \in A
    OBVIOUS
  <2>1. k \in 1..n /\ At(k) \in 1..Len(s[k]) /\ s[k][At(k)] = i /\ g[k] = o[k - 1] + At(k)
    BY <1>11, <1>14
  <2>2. o[k - 1] + At(k) \in 1..Len(joined) /\ joined[o[k - 1] + At(k)] = s[k][At(k)]
    BY <1>6, <2>1
  <2> QED BY <1>13, <2>1, <2>2
<1>18. \A k, l \in K : g[k] = g[l] => k = l
  <2> SUFFICES ASSUME NEW k \in K, NEW l \in K, g[k] = g[l] PROVE k = l
    OBVIOUS
  <2>1. PICK x, y : x = At(k) /\ y = At(l)
    OBVIOUS
  <2>2. k \in 1..n /\ l \in 1..n /\ x \in 1..Len(s[k]) /\ y \in 1..Len(s[l]) /\ o[k - 1] + x = o[l - 1] + y
    BY <1>11, <1>14, <2>1
  <2>3. Len(s) \in Nat /\ (\A q \in 1..Len(s) : Len(s[q]) \in Nat) /\ k \in 1..Len(s) /\ l \in 1..Len(s)
    BY <1>2, <1>3, <1>9, <2>2
  <2> QED BY <1>5, <2>2, <2>3, PlacesInOrder
<1>19. \A m \in A : \E k \in K : g[k] = m
  <2> SUFFICES ASSUME NEW m \in A PROVE \E k \in K : g[k] = m
    OBVIOUS
  <2>1. m \in 1..Len(joined) /\ joined[m] = i
    BY <1>13
  <2>2. PICK k \in 1..n : \E j \in 1..Len(s[k]) : m = o[k - 1] + j
    BY <1>6, <2>1
  <2>3. PICK j \in 1..Len(s[k]) : m = o[k - 1] + j
    BY <2>2
  <2>4. s[k][j] = i
    BY <1>6, <2>1, <2>3
  <2>5. k \in K
    BY <1>9, <1>12, <2>4
  <2>6. At(k) = j
    BY <1>10, <1>11, <2>4, <2>5
  <2> QED BY <1>14, <2>3, <2>5, <2>6
<1>20. g \in [K -> A]
  BY <1>14, <1>17, Zenon DEF g
<1>21. g \in Injection(K, A) /\ g \in Surjection(K, A)
  BY <1>18, <1>19, <1>20 DEF Injection, IsInjective, Surjection
<1>22. ExistsBijection(K, A)
  BY <1>21 DEF ExistsBijection, Bijection
<1>23. IsFiniteSet(A) /\ Cardinality(A) = Cardinality(K)
  BY <1>16, <1>22, FS_Bijection
<1>24. A = {} <=> Cardinality(A) = 0
  BY <1>23, FS_EmptySet
<1> QED BY <1>3, <1>4, <1>15, <1>23, <1>24, <1>25

NamedOf(parts, total) == [k \in DOMAIN parts |-> NamedPages(parts[k], total)]

\* What a list keeps of a document is what its parts name, one after the other.
KeepsNamed(parts, total) ==
    LET listed == ListedPages(parts, total)
        kept   == InOrder({k \in DOMAIN listed : listed[k] \in 1..total})
        named  == FlattenSeq(NamedOf(parts, total))
    IN  /\ NamedOf(parts, total) \in Seq(Seq(Nat)) /\ Len(NamedOf(parts, total)) = Len(parts)
        /\ Len(named) \in Nat /\ DOMAIN kept = 1..Len(named)
        /\ \A m \in 1..Len(named) : listed[kept[m]] = named[m] /\ named[m] \in 1..total

\* The numbers of a list that are pages are the pages its parts name, in order.
LEMMA KeptAsNamed ==
    ASSUME NEW parts, IsParts(parts), parts # <<>>, NEW total \in Nat, ~Backwards(parts, total)
    PROVE  KeepsNamed(parts, total)
<1>1. PICK s : s = PartsOf(parts, total)
  OBVIOUS
<1>2. PICK n : n = Len(s)
  OBVIOUS
<1>3. /\ s \in Seq(Seq(Int)) /\ n \in Nat /\ DOMAIN parts = 1..n /\ n = Len(parts)
      /\ \A k \in 1..n : s[k] = PartPages(parts[k], total)
      /\ ListedPages(parts, total) = FlattenSeq(s)
  BY <1>1, <1>2, ListedJoined
<1>4. PICK t : t = NamedOf(parts, total)
  OBVIOUS
<1>5. t = [k \in 1..n |-> t[k]] /\ \A k \in 1..n : t[k] = NamedPages(parts[k], total)
  BY <1>3, <1>4 DEF NamedOf
<1>6. ASSUME NEW k \in 1..n
      PROVE  /\ Len(s[k]) \in Nat /\ Len(t[k]) \in Nat /\ t[k] \in Seq(Nat)
             /\ \A l \in 1..Len(s[k]) : s[k][l] \in Nat
             /\ \A j \in 1..Len(t[k]) : t[k][j] \in 1..total
             /\ \A l, m \in 1..Len(s[k]) : l < m => s[k][l] < s[k][m]
             /\ \A j, m \in 1..Len(t[k]) : j < m => t[k][j] < t[k][m]
             /\ \A j \in 1..Len(t[k]) : \E l \in 1..Len(s[k]) : s[k][l] = t[k][j]
             /\ \A l \in 1..Len(s[k]) : s[k][l] \in 1..total => \E j \in 1..Len(t[k]) : t[k][j] = s[k][l]
  <2>1. IsPart(parts[k]) /\ Forward(parts[k], total)
    BY <1>3, NotBackwards
  <2>2. /\ Len(s[k]) \in Nat
        /\ \A l \in 1..Len(s[k]) : s[k][l] \in Nat
        /\ \A l, m \in 1..Len(s[k]) : l < m => s[k][l] < s[k][m]
        /\ \A l \in 1..Len(s[k]) : s[k][l] \in 1..total => Names(parts[k], s[k][l], total)
        /\ \A i \in 1..total : Names(parts[k], i, total) => \E l \in 1..Len(s[k]) : s[k][l] = i
    BY <1>3, <2>1, PartPagesNamed
  <2>3. /\ Len(t[k]) \in Nat /\ t[k] = [j \in 1..Len(t[k]) |-> t[k][j]]
        /\ \A j \in 1..Len(t[k]) : t[k][j] \in 1..total /\ Names(parts[k], t[k][j], total)
        /\ \A j, m \in 1..Len(t[k]) : j < m => t[k][j] < t[k][m]
        /\ \A i \in 1..total : Names(parts[k], i, total) => \E j \in 1..Len(t[k]) : t[k][j] = i
    BY <1>5, NamedPagesAre
  <2>4. \A j \in 1..Len(t[k]) : t[k][j] \in Nat
    BY <2>3
  <2>5. t[k] \in Seq(Nat)
    BY <2>3, <2>4, SequenceOf
  <2> QED BY <2>2, <2>3, <2>5
<1>7. Len(t) = n /\ t \in Seq(Seq(Nat))
  BY <1>3, <1>5, <1>6, SequenceOf
<1>8. PICK joined, named : joined = FlattenSeq(s) /\ named = FlattenSeq(t)
  OBVIOUS
<1>9. PICK o : Offsets(o, s) /\ PlacedAt(o, s, joined, n)
  BY <1>2, <1>3, <1>8, FlattenPlaced
<1>10. PICK p : Offsets(p, t) /\ PlacedAt(p, t, named, n)
  BY <1>7, <1>8, FlattenPlaced
<1>11. /\ \A k \in 1..n : \A l \in 1..Len(s[k]) : o[k - 1] + l \in 1..Len(joined) /\ joined[o[k - 1] + l] = s[k][l]
       /\ \A x \in 1..Len(joined) : \E k \in 1..n : \E l \in 1..Len(s[k]) : x = o[k - 1] + l
  BY <1>9 DEF PlacedAt
<1>12. /\ \A k \in 1..n : \A j \in 1..Len(t[k]) : p[k - 1] + j \in 1..Len(named) /\ named[p[k - 1] + j] = t[k][j]
       /\ \A m \in 1..Len(named) : \E k \in 1..n : \E j \in 1..Len(t[k]) : m = p[k - 1] + j
  BY <1>10 DEF PlacedAt
<1>13. DOMAIN joined = 1..Len(joined) /\ Len(named) \in Nat
  <2>1. joined \in Seq(Int) /\ named \in Seq(Nat)
    BY <1>3, <1>7, <1>8, FlattenElements
  <2> QED BY <2>1
<1>14. \A k, m \in 1..n : \A i \in 1..Len(s[k]) : \A j \in 1..Len(s[m]) :
          /\ o[k - 1] + i \in Nat
          /\ o[k - 1] + i < o[m - 1] + j <=> k < m \/ (k = m /\ i < j)
  <2> SUFFICES ASSUME NEW k \in 1..n, NEW m \in 1..n, NEW i \in 1..Len(s[k]), NEW j \in 1..Len(s[m])
               PROVE  /\ o[k - 1] + i \in Nat
                      /\ o[k - 1] + i < o[m - 1] + j <=> k < m \/ (k = m /\ i < j)
    OBVIOUS
  <2>1. Len(s) \in Nat /\ (\A q \in 1..Len(s) : Len(s[q]) \in Nat) /\ k \in 1..Len(s) /\ m \in 1..Len(s)
    BY <1>2, <1>3, <1>6
  <2> QED BY <1>9, <2>1, PlacesInOrder
<1>15. \A k, m \in 1..n : \A i \in 1..Len(t[k]) : \A j \in 1..Len(t[m]) :
          /\ p[k - 1] + i \in Nat
          /\ p[k - 1] + i < p[m - 1] + j <=> k < m \/ (k = m /\ i < j)
          /\ p[k - 1] + i = p[m - 1] + j <=> k = m /\ i = j
  <2> SUFFICES ASSUME NEW k \in 1..n, NEW m \in 1..n, NEW i \in 1..Len(t[k]), NEW j \in 1..Len(t[m])
               PROVE  /\ p[k - 1] + i \in Nat
                      /\ p[k - 1] + i < p[m - 1] + j <=> k < m \/ (k = m /\ i < j)
                      /\ p[k - 1] + i = p[m - 1] + j <=> k = m /\ i = j
    OBVIOUS
  <2>1. Len(t) \in Nat /\ (\A q \in 1..Len(t) : Len(t[q]) \in Nat) /\ k \in 1..Len(t) /\ m \in 1..Len(t)
    BY <1>3, <1>6, <1>7
  <2> QED BY <1>10, <2>1, PlacesInOrder
<1> DEFINE Meets(m, x, k, j, l) == m = p[k - 1] + j /\ x = o[k - 1] + l /\ s[k][l] = t[k][j]
           Meet(m, x) == \E k \in 1..n : \E j \in 1..Len(t[k]) : \E l \in 1..Len(s[k]) : Meets(m, x, k, j, l)
           h == [m \in 1..Len(named) |-> CHOOSE x : Meet(m, x)]
<1>16. ASSUME NEW m \in 1..Len(named) PROVE Meet(m, h[m])
  <2>1. PICK k \in 1..n : \E j \in 1..Len(t[k]) : m = p[k - 1] + j
    BY <1>12
  <2>2. PICK j \in 1..Len(t[k]) : m = p[k - 1] + j
    BY <2>1
  <2>3. PICK l \in 1..Len(s[k]) : s[k][l] = t[k][j]
    BY <1>6
  <2>4. \E x : Meet(m, x)
    BY <2>2, <2>3
  <2>5. h[m] = CHOOSE x : Meet(m, x)
    OBVIOUS
  <2> HIDE DEF Meet
  <2> QED BY <2>4, <2>5
<1> HIDE DEF h
<1>17. ASSUME NEW m \in 1..Len(named), NEW q \in 1..Len(named), NEW x, NEW y, Meet(m, x), Meet(q, y)
       PROVE  (m < q => x < y) /\ (m = q => x = y) /\ x \in Nat /\ y \in Nat
  <2>1. PICK k \in 1..n : \E j \in 1..Len(t[k]) : \E l \in 1..Len(s[k]) : Meets(m, x, k, j, l)
    BY <1>17
  <2>2. PICK j \in 1..Len(t[k]) : \E l \in 1..Len(s[k]) : Meets(m, x, k, j, l)
    BY <2>1
  <2>3. PICK l \in 1..Len(s[k]) : m = p[k - 1] + j /\ x = o[k - 1] + l /\ s[k][l] = t[k][j]
    BY <2>2
  <2>4. PICK b \in 1..n : \E c \in 1..Len(t[b]) : \E d \in 1..Len(s[b]) : Meets(q, y, b, c, d)
    BY <1>17
  <2>5. PICK c \in 1..Len(t[b]) : \E d \in 1..Len(s[b]) : Meets(q, y, b, c, d)
    BY <2>4
  <2>6. PICK d \in 1..Len(s[b]) : q = p[b - 1] + c /\ y = o[b - 1] + d /\ s[b][d] = t[b][c]
    BY <2>5
  <2> HIDE DEF Meet, Meets
  <2>7. m < q => k < b \/ (k = b /\ j < c)
    <3>1. p[k - 1] + j < p[b - 1] + c <=> k < b \/ (k = b /\ j < c)
      BY <1>15
    <3> QED BY <2>3, <2>6, <3>1
  <2>8. m = q => k = b /\ j = c
    <3>1. p[k - 1] + j = p[b - 1] + c <=> k = b /\ j = c
      BY <1>15
    <3> QED BY <2>3, <2>6, <3>1
  <2>9. x < y <=> k < b \/ (k = b /\ l < d)
    BY <1>14, <2>3, <2>6
  <2>10. k = b /\ j < c => l < d
    <3> SUFFICES ASSUME k = b, j < c PROVE l < d
      OBVIOUS
    <3>1. s[k][l] < s[k][d] /\ d \in 1..Len(s[k])
      BY <1>6, <2>3, <2>6
    <3>2. d < l => s[k][d] < s[k][l]
      BY <1>6, <3>1
    <3>3. s[k][l] \in Nat /\ s[k][d] \in Nat /\ l \in Nat /\ d \in Nat
      BY <1>6, <3>1
    <3> QED BY <3>1, <3>2, <3>3
  <2>11. k = b /\ j = c => l = d
    <3> SUFFICES ASSUME k = b, j = c PROVE l = d
      OBVIOUS
    <3>1. s[k][l] = s[k][d] /\ d \in 1..Len(s[k])
      BY <2>3, <2>6
    <3>2. (d < l => s[k][d] < s[k][l]) /\ (l < d => s[k][l] < s[k][d])
      BY <1>6, <3>1
    <3>3. s[k][l] \in Nat /\ s[k][d] \in Nat /\ l \in Nat /\ d \in Nat
      BY <1>6, <3>1
    <3> QED BY <3>1, <3>2, <3>3
  <2>12. x \in Nat /\ y \in Nat
    BY <1>14, <2>3, <2>6
  <2>13. m = q => x = y
    BY <2>3, <2>6, <2>8, <2>11
  <2> QED BY <2>7, <2>9, <2>10, <2>12, <2>13
<1>18. ASSUME NEW m \in 1..Len(named)
       PROVE  h[m] \in 1..Len(joined) /\ joined[h[m]] = named[m] /\ named[m] \in 1..total
  <2>1. PICK k \in 1..n : \E j \in 1..Len(t[k]) : \E l \in 1..Len(s[k]) : Meets(m, h[m], k, j, l)
    BY <1>16
  <2>2. PICK j \in 1..Len(t[k]) : \E l \in 1..Len(s[k]) : Meets(m, h[m], k, j, l)
    BY <2>1
  <2>3. PICK l \in 1..Len(s[k]) : m = p[k - 1] + j /\ h[m] = o[k - 1] + l /\ s[k][l] = t[k][j]
    BY <2>2
  <2>4. o[k - 1] + l \in 1..Len(joined) /\ joined[o[k - 1] + l] = s[k][l]
    BY <1>11
  <2>5. named[p[k - 1] + j] = t[k][j] /\ t[k][j] \in 1..total
    BY <1>6, <1>12
  <2> QED BY <2>3, <2>4, <2>5
<1> DEFINE S == {h[m] : m \in 1..Len(named)}
           Q == {x \in DOMAIN joined : joined[x] \in 1..total}
<1>19. S = Q
  <2>1. ASSUME NEW x \in 1..Len(joined), joined[x] \in 1..total PROVE \E m \in 1..Len(named) : h[m] = x
    <3>1. PICK k \in 1..n : \E l \in 1..Len(s[k]) : x = o[k - 1] + l
      BY <1>11
    <3>2. PICK l \in 1..Len(s[k]) : x = o[k - 1] + l
      BY <3>1
    <3>3. s[k][l] \in 1..total
      BY <1>11, <2>1, <3>2
    <3>4. PICK j \in 1..Len(t[k]) : t[k][j] = s[k][l]
      BY <1>6, <3>3
    <3>5. PICK m \in 1..Len(named) : m = p[k - 1] + j
      BY <1>12
    <3>6. Meets(m, x, k, j, l)
      BY <3>2, <3>4, <3>5
    <3>7. Meet(m, x)
      BY <3>6
    <3> HIDE DEF Meet
    <3>8. h[m] = x
      BY <1>16, <1>17, <3>7
    <3> QED BY <3>8
  <2> QED BY <1>13, <1>18, <2>1
<1> HIDE DEF Meet
<1>20. \A m \in 1..Len(named) : h[m] \in Nat
  BY <1>16, <1>17
<1>21. \A m, q \in 1..Len(named) : m < q => h[m] < h[q]
  BY <1>16, <1>17
<1>22. Cardinality(S) = Len(named) /\ \A m \in 1..Len(named) : InOrder(S)[m] = h[m]
  BY <1>13, <1>20, <1>21, InOrderIs
<1> HIDE DEF S, Q
<1>23. DOMAIN InOrder(Q) = 1..Len(named)
  BY <1>19, <1>22 DEF InOrder
<1>24. \A m \in 1..Len(named) : joined[InOrder(Q)[m]] = named[m]
  BY <1>18, <1>19, <1>22
<1> QED BY <1>3, <1>4, <1>7, <1>8, <1>13, <1>18, <1>23, <1>24 DEF Q, KeepsNamed

---------------------------------------------------------------------------
\* What each operation makes is what was asked, if its document was.

\* Without a list every page is listed once.
LEMMA EachPageListedOnce ==
    ASSUME NEW total \in Nat, NEW i \in 1..total
    PROVE  Occurrences(ListedPages(<<>>, total), i) = 1
<1>1. PICK s : s = [k \in 1..total |-> k]
  OBVIOUS
<1>2. ListedPages(<<>>, total) = s
  BY <1>1 DEF ListedPages
<1>3. {k \in DOMAIN s : s[k] = i} = {i}
  BY <1>1
<1>4. Cardinality({i}) = 1
  BY FS_Singleton
<1> QED BY <1>2, <1>3, <1>4 DEF Occurrences

\* A page that is listed twice is turned twice (rotate_pages).
LEMMA RotatedAsAsked ==
    ASSUME NEW leaf, IsParts(leaf.parts), leaf.tool = "rotate_pages", NEW a, NEW b, AsAsked(a, b),
           RotatePages(leaf, a).ok
    PROVE  AsAsked(RotatePages(leaf, a).pages, Makes(leaf, b)[1])
<1>1. PICK n : n = Len(a)
  OBVIOUS
<1>2. n \in Nat /\ Len(b) = n /\ DOMAIN a = 1..n /\ DOMAIN b = 1..n /\ \A i \in 1..n : SamePage(a[i], b[i])
  BY <1>1, SamePageAt
<1>3. ~Refused(leaf.parts, n)
  BY <1>1 DEF RotatePages, Refusal
<1> DEFINE c == [i \in 1..n |-> Turned(a[i], leaf.turn * Occurrences(ListedPages(leaf.parts, n), i))]
           d == [i \in 1..n |-> Turned(b[i], leaf.turn * TimesNamed(leaf.parts, i, n))]
<1>4. RotatePages(leaf, a).pages = c
  BY <1>1, <1>2, <1>3 DEF RotatePages, Made
<1>5. Makes(leaf, b) = <<d>>
  BY <1>2 DEF Makes
<1>6. \A i \in 1..n : Occurrences(ListedPages(leaf.parts, n), i) = TimesNamed(leaf.parts, i, n)
  <2> SUFFICES ASSUME NEW i \in 1..n
               PROVE  Occurrences(ListedPages(leaf.parts, n), i) = TimesNamed(leaf.parts, i, n)
    OBVIOUS
  <2>1. CASE leaf.parts = <<>>
    BY <1>2, <2>1, EachPageListedOnce DEF TimesNamed
  <2>2. CASE leaf.parts # <<>>
    BY <1>2, <1>3, <2>2, ListedAsNamed
  <2> QED BY <2>1, <2>2
<1>7. \A i \in 1..n : SamePage(c[i], d[i])
  BY <1>2, <1>6, SamePageChanged
<1>8. c = [i \in 1..n |-> c[i]] /\ d = [i \in 1..n |-> d[i]]
  OBVIOUS
<1> HIDE DEF c, d
<1>9. AsAsked(c, d)
  BY <1>2, <1>7, <1>8, SamePageByPage
<1> QED BY <1>4, <1>5, <1>9

\* What stays is what no part names (remove_pages).
LEMMA RemovedAsAsked ==
    ASSUME NEW leaf, IsParts(leaf.parts), leaf.tool = "remove_pages", NEW a, NEW b, AsAsked(a, b),
           RemovePages(leaf, a).ok
    PROVE  AsAsked(RemovePages(leaf, a).pages, Makes(leaf, b)[1])
<1>1. PICK n : n = Len(a)
  OBVIOUS
<1>2. n \in Nat /\ Len(b) = n /\ DOMAIN a = 1..n /\ DOMAIN b = 1..n
  BY <1>1, SamePageAt
<1> DEFINE S == (1..n) \ Range(ListedPages(leaf.parts, n))
<1>3. ~Refused(leaf.parts, n) /\ InOrder(S) # <<>>
  BY <1>1, <1>2 DEF RemovePages, Refusal
<1>4. /\ Cardinality(S) \in Nat /\ DOMAIN InOrder(S) = 1..Cardinality(S)
      /\ \A k \in 1..Cardinality(S) : InOrder(S)[k] \in S
  <2>1. S \in SUBSET (1..n)
    OBVIOUS
  <2> HIDE DEF S
  <2> QED BY <1>2, <2>1, PositionsInOrder
<1>5. leaf.parts # <<>>
  <2> SUFFICES ASSUME leaf.parts = <<>> PROVE FALSE
    OBVIOUS
  <2>1. PICK s : s = [k \in 1..n |-> k]
    OBVIOUS
  <2>2. ListedPages(leaf.parts, n) = s
    BY <2>1 DEF ListedPages
  <2>3. Range(s) = 1..n
    BY <2>1 DEF Range
  <2>4. S = {}
    BY <2>2, <2>3
  <2>5. InOrder(S) = <<>>
    <3>1. Cardinality(S) = 0
      BY <2>4, FS_EmptySet
    <3> HIDE DEF S
    <3> QED BY <3>1 DEF InOrder
  <2> QED BY <1>3, <2>5
<1>6. S = {i \in 1..n : TimesNamed(leaf.parts, i, n) = 0}
  <2>1. \A i \in 1..n : i \in Range(ListedPages(leaf.parts, n)) <=> TimesNamed(leaf.parts, i, n) # 0
    BY <1>2, <1>3, <1>5, ListedAsNamed
  <2> QED BY <2>1
<1>7. \A i \in S : i \in 1..n
  OBVIOUS
<1>8. RemovePages(leaf, a).pages = [k \in DOMAIN InOrder(S) |-> a[InOrder(S)[k]]]
  BY <1>1, <1>2, <1>3 DEF RemovePages, Made
<1>9. Makes(leaf, b) = <<[k \in DOMAIN InOrder(S) |-> b[InOrder(S)[k]]]>>
  BY <1>2, <1>6 DEF Makes, Unnamed
<1> HIDE DEF S
<1>10. PICK at, m : at = InOrder(S) /\ m = Cardinality(S)
  OBVIOUS
<1>11. m \in Nat /\ DOMAIN at = 1..m /\ \A k \in 1..m : at[k] \in DOMAIN a
  BY <1>2, <1>4, <1>7, <1>10
<1>12. AsAsked([k \in 1..m |-> a[at[k]]], [k \in 1..m |-> b[at[k]]])
  BY <1>11, PickedSame
<1>13. /\ RemovePages(leaf, a).pages = [k \in 1..m |-> a[at[k]]]
       /\ Makes(leaf, b) = <<[k \in 1..m |-> b[at[k]]]>>
  BY <1>8, <1>9, <1>10, <1>11
<1> QED BY <1>12, <1>13

\* Picking part by part is picking from the joined parts.
LEMMA NamedTogether ==
    ASSUME NEW parts, IsParts(parts), parts # <<>>, NEW b, WholePages(b), ~Backwards(parts, Len(b))
    PROVE  FlattenSeq([k \in DOMAIN parts |-> NamedBy(parts[k], b)]) =
             [m \in 1..Len(FlattenSeq(NamedOf(parts, Len(b)))) |-> b[FlattenSeq(NamedOf(parts, Len(b)))[m]]]
<1>1. PICK n : n = Len(b)
  OBVIOUS
<1>2. n \in Nat /\ DOMAIN b = 1..n
  BY <1>1 DEF WholePages
<1>3. PICK t, s : t = NamedOf(parts, n) /\ s = [k \in DOMAIN parts |-> NamedBy(parts[k], b)]
  OBVIOUS
<1>4. PICK x \in Nat : x = Len(parts) /\ DOMAIN parts = 1..x
  BY DEF IsParts
<1>5. t \in Seq(Seq(Nat)) /\ Len(t) = x /\ \A m \in 1..Len(FlattenSeq(t)) : FlattenSeq(t)[m] \in 1..n
  <2>1. KeepsNamed(parts, n)
    BY <1>1, <1>2, KeptAsNamed
  <2> QED BY <1>3, <1>4, <2>1 DEF KeepsNamed
<1>6. \A k \in 1..x : t[k] = NamedPages(parts[k], n) /\ s[k] = NamedBy(parts[k], b)
  BY <1>3, <1>4 DEF NamedOf
<1>7. ASSUME NEW k \in 1..x
      PROVE  /\ Len(t[k]) \in Nat /\ Len(s[k]) = Len(t[k]) /\ s[k] \in Seq(Range(b))
             /\ \A j \in 1..Len(t[k]) : s[k][j] = b[t[k][j]]
  <2>1. PICK u, v : u = t[k] /\ v = s[k]
    OBVIOUS
  <2>2. Len(u) \in Nat /\ \A j \in 1..Len(u) : u[j] \in 1..n
    BY <1>2, <1>6, <2>1, NamedPagesAre
  <2>3. v = [j \in 1..Len(u) |-> b[u[j]]]
    <3>1. PICK part : part = parts[k]
      OBVIOUS
    <3>2. NamedBy(part, b) = [j \in 1..Len(NamedPages(part, n)) |-> b[NamedPages(part, n)[j]]]
      BY <1>1, <1>2, NamedByPicks
    <3> QED BY <1>6, <2>1, <3>1, <3>2
  <2>4. v = [j \in 1..Len(u) |-> v[j]] /\ \A j \in 1..Len(u) : v[j] = b[u[j]] /\ v[j] \in Range(b)
    BY <1>2, <2>2, <2>3 DEF Range
  <2>5. Len(v) = Len(u) /\ v \in Seq(Range(b))
    BY <2>2, <2>4, SequenceOf
  <2> QED BY <2>1, <2>2, <2>4, <2>5
<1>8. s = [k \in 1..x |-> s[k]]
  BY <1>3, <1>4
<1>9. Len(s) = x /\ s \in Seq(Seq(Range(b)))
  BY <1>7, <1>8, SequenceOf
<1>10. PICK S : S = Nat \cup Range(b)
  OBVIOUS
<1>11. t \in Seq(Seq(S)) /\ s \in Seq(Seq(S))
  <2>1. \A k \in 1..x : t[k] \in Seq(Nat) /\ s[k] \in Seq(Range(b))
    BY <1>5, <1>7
  <2>2. \A k \in 1..x : t[k] \in Seq(S) /\ s[k] \in Seq(S)
    <3>1. \A y \in Seq(Nat) : y \in Seq(Nat \cup Range(b))
      OBVIOUS
    <3>2. \A y \in Seq(Range(b)) : y \in Seq(Nat \cup Range(b))
      OBVIOUS
    <3> QED BY <1>10, <2>1, <3>1, <3>2
  <2>3. t = [k \in 1..x |-> t[k]]
    BY <1>5
  <2> QED BY <1>8, <2>2, <2>3, SequenceOf
<1>12. PICK T, R : T = FlattenSeq(t) /\ R = FlattenSeq(s)
  OBVIOUS
<1>13. /\ Len(T) \in Nat /\ Len(R) = Len(T)
       /\ \A m \in 1..Len(T) : \E k \in 1..x : \E j \in 1..Len(t[k]) : T[m] = t[k][j] /\ R[m] = s[k][j]
  <2>1. Len(s) = Len(t) /\ \A k \in 1..Len(t) : Len(s[k]) = Len(t[k])
    BY <1>5, <1>7, <1>9
  <2>2. /\ Len(FlattenSeq(t)) \in Nat /\ Len(FlattenSeq(s)) = Len(FlattenSeq(t))
        /\ \A m \in 1..Len(FlattenSeq(t)) : \E k \in 1..Len(t) : \E j \in 1..Len(t[k]) :
             FlattenSeq(t)[m] = t[k][j] /\ FlattenSeq(s)[m] = s[k][j]
    <3>1. t \in Seq(Seq(S)) /\ s \in Seq(Seq(S))
      BY <1>11
    <3>2. JoinedAlike(t, s)
      BY <2>1, <3>1, FlattenAlike
    <3> QED BY <3>2 DEF JoinedAlike
  <2> QED BY <1>5, <1>12, <2>2
<1>14. R \in Seq(S)
  BY <1>11, <1>12, FlattenElements
<1>15. R = [m \in 1..Len(T) |-> R[m]]
  BY <1>13, <1>14
<1>16. \A m \in 1..Len(T) : R[m] = b[T[m]]
  BY <1>7, <1>13
<1>17. R = [m \in 1..Len(T) |-> b[T[m]]]
  BY <1>15, <1>16
<1> QED BY <1>1, <1>3, <1>12, <1>17

\* A new order keeps what its parts name, in their order (reorder_pages).
LEMMA ReorderedAsAsked ==
    ASSUME NEW leaf, IsParts(leaf.parts), leaf.tool = "reorder_pages", leaf.reverse \/ leaf.parts # <<>>,
           NEW a, NEW b, AsAsked(a, b), ReorderPages(leaf, a).ok
    PROVE  AsAsked(ReorderPages(leaf, a).pages, Makes(leaf, b)[1])
<1>1. PICK n : n = Len(a)
  OBVIOUS
<1>2. n \in Nat /\ Len(b) = n /\ DOMAIN a = 1..n /\ DOMAIN b = 1..n
  BY <1>1, SamePageAt
<1>3. CASE leaf.reverse
  <2>1. PICK at : at = [i \in 1..n |-> n - i + 1]
    OBVIOUS
  <2>2. \A i \in 1..n : at[i] = n - i + 1 /\ at[i] \in DOMAIN a
    BY <1>2, <2>1
  <2>3. AsAsked([i \in 1..n |-> a[at[i]]], [i \in 1..n |-> b[at[i]]])
    BY <1>2, <2>2, PickedSame
  <2>4. Reverse(a) = [i \in 1..n |-> a[at[i]]] /\ Reverse(b) = [i \in 1..n |-> b[at[i]]]
    <3>1. Reverse(a) = [i \in 1..n |-> a[(n - i) + 1]] /\ Reverse(b) = [i \in 1..n |-> b[(n - i) + 1]]
      BY <1>1, <1>2 DEF Reverse
    <3> QED BY <2>2, <3>1
  <2>5. ReorderPages(leaf, a).pages = Reverse(a)
    BY <1>3 DEF ReorderPages, Made
  <2>6. Makes(leaf, b) = <<Reverse(b)>>
    BY <1>3 DEF Makes
  <2> QED BY <2>3, <2>4, <2>5, <2>6
<1>4. CASE ~leaf.reverse
  <2>1. PICK listed : listed = ListedPages(leaf.parts, n)
    OBVIOUS
  <2>2. PICK kept : kept = InOrder({k \in DOMAIN listed : listed[k] \in 1..n})
    OBVIOUS
  <2>3. ReorderPages(leaf, a) =
          IF Backwards(leaf.parts, n) \/ kept = <<>> THEN Refusal
          ELSE Made([i \in DOMAIN kept |-> a[listed[kept[i]]]])
    BY <1>1, <1>2, <1>4, <2>1, <2>2 DEF ReorderPages
  <2>4. ~Backwards(leaf.parts, n) /\ ReorderPages(leaf, a).pages = [i \in DOMAIN kept |-> a[listed[kept[i]]]]
    BY <2>3 DEF Refusal, Made
  <2>5. PICK named : named = FlattenSeq(NamedOf(leaf.parts, n))
    OBVIOUS
  <2>6. PICK m : m = Len(named)
    OBVIOUS
  <2>7. m \in Nat /\ DOMAIN kept = 1..m /\ \A i \in 1..m : listed[kept[i]] = named[i] /\ named[i] \in 1..n
    <3>1. PICK parts : parts = leaf.parts
      OBVIOUS
    <3>2. IsParts(parts) /\ parts # <<>> /\ ~Backwards(parts, n)
      BY <1>4, <2>4, <3>1
    <3>3. /\ Len(named) \in Nat /\ DOMAIN kept = 1..Len(named)
          /\ \A i \in 1..Len(named) : listed[kept[i]] = named[i] /\ named[i] \in 1..n
      <4>1. LET l == ListedPages(parts, n)
                k == InOrder({i \in DOMAIN l : l[i] \in 1..n})
                f == FlattenSeq(NamedOf(parts, n))
            IN  /\ Len(f) \in Nat /\ DOMAIN k = 1..Len(f)
                /\ \A i \in 1..Len(f) : l[k[i]] = f[i] /\ f[i] \in 1..n
        <5>1. KeepsNamed(parts, n)
          BY <1>2, <3>2, KeptAsNamed
        <5> QED BY <5>1 DEF KeepsNamed
      <4> QED BY <2>1, <2>2, <2>5, <3>1, <4>1
    <3> QED BY <2>6, <3>3
  <2>8. [i \in DOMAIN kept |-> a[listed[kept[i]]]] = [i \in 1..m |-> a[named[i]]]
    BY <2>7
  <2>9. FlattenSeq([k \in DOMAIN leaf.parts |-> NamedBy(leaf.parts[k], b)]) = [i \in 1..m |-> b[named[i]]]
    <3>1. PICK parts : parts = leaf.parts
      OBVIOUS
    <3>2. IsParts(parts) /\ parts # <<>> /\ ~Backwards(parts, Len(b)) /\ WholePages(b)
      BY <1>2, <1>4, <2>4, <3>1 DEF AsAsked
    <3>3. FlattenSeq([k \in DOMAIN parts |-> NamedBy(parts[k], b)]) =
             [i \in 1..Len(FlattenSeq(NamedOf(parts, Len(b)))) |-> b[FlattenSeq(NamedOf(parts, Len(b)))[i]]]
      BY <3>2, NamedTogether
    <3> QED BY <1>2, <2>5, <2>6, <3>1, <3>3
  <2>10. Makes(leaf, b) = <<FlattenSeq([k \in DOMAIN leaf.parts |-> NamedBy(leaf.parts[k], b)])>>
    BY <1>4 DEF Makes
  <2>11. AsAsked([i \in 1..m |-> a[named[i]]], [i \in 1..m |-> b[named[i]]])
    <3>1. \A i \in 1..m : named[i] \in DOMAIN a
      BY <1>2, <2>7
    <3>2. m \in Nat
      BY <2>7
    <3> QED BY <3>1, <3>2, PickedSame
  <2>12. ReorderPages(leaf, a).pages = [i \in 1..m |-> a[named[i]]]
    BY <2>4, <2>8
  <2>13. Makes(leaf, b)[1] = [i \in 1..m |-> b[named[i]]]
    BY <2>9, <2>10
  <2> QED BY <2>11, <2>12, <2>13
<1> QED BY <1>3, <1>4

\* One piece of a split holds what its part names.
LEMMA SelectedAsAsked ==
    ASSUME NEW leaf, IsParts(leaf.parts), leaf.tool = "split_pdf", NEW a, NEW b, AsAsked(a, b),
           leaf.parts # <<>>, ~Refused(leaf.parts, Len(a)), NEW k \in DOMAIN leaf.parts
    PROVE  AsAsked(Selection(a, leaf.parts[k]), Makes(leaf, b)[k])
<1>1. PICK n : n = Len(a)
  OBVIOUS
<1>2. n \in Nat /\ Len(b) = n /\ DOMAIN a = 1..n /\ DOMAIN b = 1..n
  BY <1>1, SamePageAt
<1>3. PICK part : part = leaf.parts[k]
  OBVIOUS
<1>4. IsPart(part) /\ Forward(part, n)
  BY <1>1, <1>2, <1>3, NotBackwards DEF Refused
<1>5. PICK s : s = PartPages(part, n)
  OBVIOUS
<1>6. Len(s) \in Nat /\ DOMAIN s = 1..Len(s)
  BY <1>2, <1>4, <1>5, PartPagesNamed
<1>7. \A j \in 1..Len(s) : s[j] \in 1..n
  <2>1. ListedPages(leaf.parts, n) \in Seq(Int)
        /\ Range(ListedPages(leaf.parts, n)) = UNION {Range(PartPages(leaf.parts[i], n)) : i \in DOMAIN leaf.parts}
    BY <1>2, ListedPagesAreNumbers
  <2>2. \A x \in Range(ListedPages(leaf.parts, n)) : x \in 1..n
    BY <1>1 DEF Refused, InRange, Range
  <2>3. \A j \in 1..Len(s) : s[j] \in Range(s)
    BY <1>6 DEF Range
  <2> QED BY <1>3, <1>5, <2>1, <2>2, <2>3
<1>8. NamedPages(part, n) = s
  BY <1>2, <1>4, <1>5, <1>6, <1>7, PartWithin
<1>9. NamedBy(part, b) = [j \in 1..Len(s) |-> b[s[j]]]
  BY <1>2, <1>8, NamedByPicks
<1>10. Selection(a, part) = [j \in 1..Len(s) |-> a[s[j]]]
  BY <1>1, <1>5, <1>6 DEF Selection
<1>11. Makes(leaf, b)[k] = NamedBy(part, b)
  BY <1>3 DEF Makes
<1>12. AsAsked([j \in 1..Len(s) |-> a[s[j]]], [j \in 1..Len(s) |-> b[s[j]]])
  BY <1>2, <1>6, <1>7, PickedSame
<1> QED BY <1>3, <1>9, <1>10, <1>11, <1>12

\* A mark on every page, or its number from the first one on.
LEMMA StampedAsAsked ==
    ASSUME NEW leaf, leaf.tool \in {"watermark", "add_page_numbers"}, NEW a, NEW b, AsAsked(a, b)
    PROVE  AsAsked(Overlay(leaf, a), Makes(leaf, b)[1])
<1>1. PICK n : n = Len(a)
  OBVIOUS
<1>2. n \in Nat /\ Len(b) = n /\ DOMAIN a = 1..n /\ DOMAIN b = 1..n /\ \A i \in 1..n : SamePage(a[i], b[i])
  BY <1>1, SamePageAt
<1> DEFINE mark(i) == IF leaf.tool = "watermark" THEN <<"mark", 0>> ELSE <<"number", leaf.start + i - 1>>
           c == [i \in 1..n |-> Stamped(a[i], mark(i))]
           d == [i \in 1..n |-> Stamped(b[i], mark(i))]
<1>3. Overlay(leaf, a) = c
  BY <1>2 DEF Overlay
<1>4. Makes(leaf, b) = <<d>>
  BY <1>2 DEF Makes
<1>5. c = [i \in 1..n |-> c[i]] /\ d = [i \in 1..n |-> d[i]]
  OBVIOUS
<1>6. \A i \in 1..n : SamePage(c[i], d[i])
  BY <1>2, SamePageChanged
<1> HIDE DEF c, d
<1>7. AsAsked(c, d)
  BY <1>2, <1>5, <1>6, SamePageByPage
<1> QED BY <1>3, <1>4, <1>7

---------------------------------------------------------------------------
\* What a leaf writes is what was asked of what it reads.

Paths(told) == IF "outputs" \in DOMAIN told THEN told.outputs ELSE <<told.output>>

WritesAsAsked(leaf, held, o, b) ==
    /\ DocWrites(o.result) # {} /\ Range(Paths(o.result)) = DocWrites(o.result)
    /\ DOMAIN o.files = DOMAIN held \cup DocWrites(o.result)
    /\ \A p \in DOMAIN held \ DocWrites(o.result) : o.files[p] = held[p]
    /\ \A k \in DOMAIN Paths(o.result) : AsAsked(o.files[Paths(o.result)[k]].pages, Makes(leaf, b)[k])

\* A leaf that writes one file has done what was asked if that file has.
LEMMA OneWritten ==
    ASSUME NEW held, NEW out, NEW file, NEW told, "output" \in DOMAIN told, told.output = out,
           "outputs" \notin DOMAIN told, NEW leaf, NEW b, AsAsked(file.pages, Makes(leaf, b)[1]),
           NEW o \in Returns(Written(held, out, file), told)
    PROVE  WritesAsAsked(leaf, held, o, b)
<1>1. o.files = Written(held, out, file) /\ o.result = told
  BY ReturnsIs
<1>2. DocWrites(told) = {out} /\ Paths(told) = <<out>>
  BY DEF DocWrites, Paths
<1>3. /\ DOMAIN o.files = DOMAIN held \cup {out} /\ o.files[out] = file
      /\ \A p \in DOMAIN held \ {out} : o.files[p] = held[p]
  BY <1>1 DEF Written
<1>4. PICK paths : paths = <<out>>
  OBVIOUS
<1>5. Range(paths) = {out} /\ \A k \in DOMAIN paths : k = 1 /\ paths[k] = out
  BY <1>4 DEF Range
<1> QED BY <1>1, <1>2, <1>3, <1>4, <1>5 DEF WritesAsAsked

\* What ends well has not raised.
LEMMA RaisesEnd ==
    ASSUME NEW o, o.end = "ok"
    PROVE  \A held : o \notin Raises(held)
  BY DEF Raises, Ends

\* rotate_pages, remove_pages, reorder_pages.
LEMMA EditedAsAsked ==
    ASSUME NEW held, NEW leaf, leaf.tool \in PageTools, IsParts(leaf.parts),
           leaf.tool = "reorder_pages" => leaf.reverse \/ leaf.parts # <<>>,
           NEW b, leaf.input \in DOMAIN held => AsAsked(held[leaf.input].pages, b),
           NEW o \in EditPages(leaf, held, FALSE), o.end = "ok"
    PROVE  leaf.input \in DOMAIN held /\ WritesAsAsked(leaf, held, o, b)
<1> DEFINE old == Pages(held, leaf.input)
           new == PageOf(leaf, old)
           told(out) == [output |-> out, pages |-> Len(new.pages)]
           file == File("pdf", Open, new.pages)
<1>1. PICK out : OpensPdf(held, leaf.input) /\ new.ok /\ o \in Returns(Written(held, out, file), told(out))
  <2>1. \A h : o \notin Raises(h)
    BY RaisesEnd
  <2> QED BY <2>1 DEF EditPages
<1>2. leaf.input \in DOMAIN held /\ AsAsked(old, b)
  BY <1>1 DEF OpensPdf, Pages
<1>3. "output" \in DOMAIN told(out) /\ told(out).output = out /\ "outputs" \notin DOMAIN told(out)
  OBVIOUS
<1>4. AsAsked(new.pages, Makes(leaf, b)[1])
  <2> HIDE DEF old
  <2>1. CASE leaf.tool = "rotate_pages"
    <3>1. new = RotatePages(leaf, old)
      BY <2>1 DEF PageOf
    <3> HIDE DEF new
    <3> QED BY <1>1, <1>2, <2>1, <3>1, RotatedAsAsked
  <2>2. CASE leaf.tool = "remove_pages"
    <3>1. new = RemovePages(leaf, old)
      BY <2>2 DEF PageOf
    <3> HIDE DEF new
    <3> QED BY <1>1, <1>2, <2>2, <3>1, RemovedAsAsked
  <2>3. CASE leaf.tool = "reorder_pages"
    <3>1. new = ReorderPages(leaf, old)
      BY <2>3 DEF PageOf
    <3> HIDE DEF new
    <3> QED BY <1>1, <1>2, <2>3, <3>1, ReorderedAsAsked
  <2> QED BY <2>1, <2>2, <2>3 DEF PageTools
<1> HIDE DEF new
<1>5. file.pages = new.pages
  BY DEF File
<1> HIDE DEF told, file
<1> QED BY <1>1, <1>2, <1>3, <1>4, <1>5, OneWritten

\* watermark, add_page_numbers, protect_pdf, unlock_pdf.
LEMMA ReworkedAsAsked ==
    ASSUME NEW held, NEW leaf, leaf.tool \in ReworkTools,
           NEW b, leaf.input \in DOMAIN held => AsAsked(held[leaf.input].pages, b),
           NEW o \in Rework(leaf, held, FALSE), o.end = "ok"
    PROVE  leaf.input \in DOMAIN held /\ WritesAsAsked(leaf, held, o, b)
<1> DEFINE old == Pages(held, leaf.input)
           new == Reworked(leaf, held)
           told(out) == [output |-> out]
           file == File("pdf", new.lock, new.pages)
<1>1. PICK out : leaf.input \in DOMAIN held /\ o \in Returns(Written(held, out, file), told(out))
  <2>1. \A h : o \notin Raises(h)
    BY RaisesEnd
  <2> QED BY <2>1 DEF Rework
<1>2. AsAsked(old, b)
  BY <1>1 DEF Pages
<1>3. "output" \in DOMAIN told(out) /\ told(out).output = out /\ "outputs" \notin DOMAIN told(out)
  OBVIOUS
<1>4. AsAsked(new.pages, Makes(leaf, b)[1])
  <2>1. CASE leaf.tool \in {"watermark", "add_page_numbers"}
    <3>1. new.pages = Overlay(leaf, old)
      BY <2>1 DEF Reworked
    <3> HIDE DEF new, old
    <3> QED BY <1>2, <2>1, <3>1, StampedAsAsked
  <2>2. CASE leaf.tool \in {"protect_pdf", "unlock_pdf"}
    <3>1. new.pages = old
      BY <2>2 DEF Reworked
    <3>2. Makes(leaf, b) = <<b>>
      BY <2>2 DEF Makes
    <3> HIDE DEF new, old
    <3> QED BY <1>2, <3>1, <3>2
  <2> QED BY <2>1, <2>2 DEF ReworkTools
<1> HIDE DEF new
<1>5. file.pages = new.pages
  BY DEF File
<1> HIDE DEF told, file
<1> QED BY <1>1, <1>3, <1>4, <1>5, OneWritten

\* The whole document, read as it is or with its text made up.
LEMMA ReadSame ==
    ASSUME NEW held, NEW path, NEW b, AsAsked(Pages(held, path), b),
           NEW at, at = [i \in 1..Len(Pages(held, path)) |-> i]
    PROVE  /\ AsAsked(OcrPages(held, path, at), b)
           /\ [i \in DOMAIN at |-> Pages(held, path)[at[i]]] = Pages(held, path)
<1>1. PICK a : a = Pages(held, path)
  OBVIOUS
<1>2. PICK n : n = Len(a)
  OBVIOUS
<1>3. /\ n \in Nat /\ Len(b) = n /\ a = [i \in 1..n |-> a[i]] /\ b = [i \in 1..n |-> b[i]]
      /\ \A i \in 1..n : SamePage(a[i], b[i])
  BY <1>1, <1>2, SamePageAt
<1>4. DOMAIN at = 1..n /\ \A i \in 1..n : at[i] = i
  BY <1>1, <1>2
<1>5. PICK c : c = OcrPages(held, path, at)
  OBVIOUS
<1>6. c = [i \in 1..n |-> c[i]] /\ \A i \in 1..n : c[i] = [a[i] EXCEPT !.text = TRUE]
  BY <1>1, <1>4, <1>5 DEF OcrPages
<1>7. ASSUME NEW i \in 1..n PROVE SamePage(c[i], b[i])
  <2>1. SamePage(a[i], b[i]) /\ c[i] = [a[i] EXCEPT !.text = TRUE] /\ TRUE \in BOOLEAN
    BY <1>3, <1>6
  <2>2. SamePage([a[i] EXCEPT !.text = TRUE], b[i])
    BY <2>1, SamePageChanged
  <2> QED BY <2>1, <2>2
<1>8. AsAsked(c, b)
  BY <1>3, <1>6, <1>7, SamePageByPage
<1>9. [i \in DOMAIN at |-> a[at[i]]] = a
  <2>1. [i \in DOMAIN at |-> a[at[i]]] = [i \in 1..n |-> a[i]]
    BY <1>4
  <2> QED BY <1>3, <2>1
<1> QED BY <1>1, <1>5, <1>8, <1>9

\* An image is one page, read in place of its document.
LEMMA ImageSame ==
    ASSUME NEW locks, NEW held, GuardedFolder(held, locks), NEW path, OpensImage(held, path),
           NEW b, AsAsked(Pages(held, path), b)
    PROVE  AsAsked(OcrPages(held, path, <<1>>), b)
<1>1. Len(Pages(held, path)) = 1
  BY DEF OpensImage, GuardedFolder, Guarded, IsFile, Pages
<1>2. PICK at : at = [i \in 1..1 |-> i]
  OBVIOUS
<1>3. at = <<1>>
  BY <1>2
<1> QED BY <1>1, <1>2, <1>3, ReadSame

\* Text that was taken from a document covers its pages, whoever read them.
LEMMA TextAsAsked ==
    ASSUME NEW locks, NEW held, GuardedFolder(held, locks), NEW tools, NEW leaf, leaf.parts = <<>>,
           NEW b, leaf.input \in DOMAIN held => AsAsked(held[leaf.input].pages, b),
           TextOf(held, leaf, tools).ok
    PROVE  leaf.input \in DOMAIN held /\ AsAsked(TextOf(held, leaf, tools).pages, b)
<1> DEFINE path   == leaf.input
           ext    == path.name.ext
           old    == Pages(held, path)
           total  == PageCount(held, path)
           chosen == ListedPages(leaf.parts, total)
           read   == [i \in DOMAIN chosen |-> old[chosen[i]]]
           text   == TextOf(held, leaf, tools)
<1>1. CASE path \notin DOMAIN held
  BY <1>1 DEF TextOf, NoText
<1>2. ASSUME path \in DOMAIN held
      PROVE  AsAsked(text.pages, b)
  <2>1. AsAsked(old, b)
    BY <1>2 DEF Pages
  <2>2. CASE ext \in TextSuffixes
    <3>1. text = IF held[path].kind = "text" THEN [ok |-> TRUE, pages |-> old] ELSE [ok |-> FALSE, pages |-> <<>>]
      BY <1>2, <2>2 DEF TextOf, NoText, TextSuffixes, ImageSuffixes, OfficeSuffixes
    <3> QED BY <2>1, <3>1
  <2>3. CASE ext \in ImageSuffixes
    <3>1. text = IF OpensImage(held, path) /\ "tesseract" \in tools
                 THEN [ok |-> TRUE, pages |-> OcrPages(held, path, <<1>>)] ELSE [ok |-> FALSE, pages |-> <<>>]
      BY <1>2, <2>3 DEF TextOf, NoText, TextSuffixes, ImageSuffixes, OfficeSuffixes
    <3>2. OpensImage(held, path) /\ text.pages = OcrPages(held, path, <<1>>)
      BY <3>1
    <3> QED BY <2>1, <3>2, ImageSame
  <2>4. CASE ext = ".pdf"
    <3>1. text = IF ~OpensPdf(held, path) \/ Refused(leaf.parts, total) THEN [ok |-> FALSE, pages |-> <<>>]
                 ELSE IF leaf.ocr \/ ~HasText(read)
                 THEN IF "tesseract" \in tools
                      THEN [ok |-> TRUE, pages |-> OcrPages(held, path, chosen)]
                      ELSE [ok |-> FALSE, pages |-> <<>>]
                 ELSE [ok |-> TRUE, pages |-> read]
      BY <1>2, <2>4 DEF TextOf, NoText, TextSuffixes, ImageSuffixes, OfficeSuffixes
    <3>2. chosen = [i \in 1..Len(old) |-> i]
      BY DEF ListedPages, PageCount
    <3> HIDE DEF chosen
    <3>3. AsAsked(OcrPages(held, path, chosen), b) /\ read = old
      BY <2>1, <3>2, ReadSame
    <3> HIDE DEF read
    <3>4. text.pages \in {read, OcrPages(held, path, chosen)}
      BY <3>1
    <3> QED BY <2>1, <3>3, <3>4
  <2>5. CASE ext \in OfficeSuffixes
    <3>1. text.pages = old
      BY <1>2, <2>5 DEF TextOf, NoText, TextSuffixes, ImageSuffixes, OfficeSuffixes
    <3> QED BY <2>1, <3>1
  <2>6. CASE ext \notin TextSuffixes \cup ImageSuffixes \cup OfficeSuffixes \cup {".pdf"}
    BY <1>2, <2>6 DEF TextOf, NoText
  <2> QED BY <2>2, <2>3, <2>4, <2>5, <2>6
<1> QED BY <1>1, <1>2

\* convert_document, to whatever format and by whatever tool.
LEMMA ConvertedAsAsked ==
    ASSUME NEW locks, NEW held, GuardedFolder(held, locks), NEW tools,
           NEW leaf, leaf.tool = "convert_document", leaf.parts = <<>>,
           NEW b, leaf.input \in DOMAIN held => AsAsked(held[leaf.input].pages, b),
           NEW o \in Convert(leaf, held, FALSE, tools), o.end = "ok"
    PROVE  leaf.input \in DOMAIN held /\ WritesAsAsked(leaf, held, o, b)
<1> DEFINE told(out) == [output |-> out]
           text == TextOf(held, leaf, tools)
           copy == File("pdf", Open, Pages(held, leaf.input))
<1>1. PICK out : o \in ConvertInto(leaf, held, out, tools)
  BY DEF Convert
<1>2. \/ text.ok /\ o \in Returns(Written(held, out, AsText(text.pages)), told(out))
      \/ leaf.input \in DOMAIN held /\ o \in Returns(Written(held, out, copy), told(out))
  <2>1. \A h : o \notin Raises(h)
    BY RaisesEnd
  <2> QED BY <1>1, <2>1 DEF ConvertInto, SofficeMoves, OpensImage
<1>3. "output" \in DOMAIN told(out) /\ told(out).output = out /\ "outputs" \notin DOMAIN told(out)
  OBVIOUS
<1>4. Makes(leaf, b) = <<b>>
  BY DEF Makes
<1> HIDE DEF told
<1>5. CASE text.ok /\ o \in Returns(Written(held, out, AsText(text.pages)), told(out))
  <2>1. leaf.input \in DOMAIN held /\ AsAsked(text.pages, b)
    BY <1>5, TextAsAsked
  <2> HIDE DEF text
  <2>2. AsText(text.pages).pages = text.pages
    BY DEF AsText, File
  <2>3. AsAsked(AsText(text.pages).pages, Makes(leaf, b)[1])
    BY <1>4, <2>1, <2>2
  <2> QED BY <1>3, <1>5, <2>1, <2>3, OneWritten
<1>6. CASE leaf.input \in DOMAIN held /\ o \in Returns(Written(held, out, copy), told(out))
  <2>1. copy.pages = held[leaf.input].pages
    BY DEF File, Pages
  <2> HIDE DEF copy
  <2>2. AsAsked(copy.pages, Makes(leaf, b)[1])
    BY <1>4, <1>6, <2>1
  <2> QED BY <1>3, <1>6, <2>2, OneWritten
<1> QED BY <1>2, <1>5, <1>6

\* run_compress, when it shrinks the file and when it copies it.
LEMMA CompressedAsAsked ==
    ASSUME NEW held, NEW tools, NEW leaf, leaf.tool = "run_compress",
           NEW b, leaf.input \in DOMAIN held => AsAsked(held[leaf.input].pages, b),
           NEW o \in Compress(leaf, held, FALSE, tools), o.end = "ok"
    PROVE  leaf.input \in DOMAIN held /\ WritesAsAsked(leaf, held, o, b)
<1> DEFINE old == Pages(held, leaf.input)
           new(kept) == IF kept THEN old ELSE Squeezed(leaf, old, tools)
           told(out, kept) == CompressTells(leaf, out, kept, tools)
<1>0. PICK out :
        \/ o \in Raises(held)
        \/ o \in Raises(Written(held, out, Broken))
        \/ OpensPdf(held, leaf.input) /\ \E kept \in BOOLEAN :
             o \in Returns(Written(held, out, File("pdf", Open, new(kept))), told(out, kept))
  BY CompressEnds
<1>1. PICK kept \in BOOLEAN : OpensPdf(held, leaf.input) /\
        o \in Returns(Written(held, out, File("pdf", Open, new(kept))), told(out, kept))
  <2>1. o \notin Raises(held) /\ o \notin Raises(Written(held, out, Broken))
    BY RaisesEnd
  <2> HIDE DEF new, told
  <2> QED BY <1>0, <2>1
<1>2. leaf.input \in DOMAIN held /\ AsAsked(old, b)
  BY <1>1 DEF OpensPdf, Pages
<1>3. /\ "output" \in DOMAIN told(out, kept) /\ told(out, kept).output = out
      /\ "outputs" \notin DOMAIN told(out, kept)
  BY DEF CompressTells
<1>4. Makes(leaf, b) = <<b>>
  BY DEF Makes
<1> HIDE DEF old
<1>5. AsAsked(Pictures(old), b)
  <2>1. PICK n : n = Len(old)
    OBVIOUS
  <2>2. /\ n \in Nat /\ DOMAIN old = 1..n /\ Len(b) = n /\ b = [i \in 1..n |-> b[i]]
        /\ \A i \in 1..n : SamePage(old[i], b[i])
    BY <1>2, <2>1, SamePageAt
  <2>3. PICK c : c = Pictures(old)
    OBVIOUS
  <2>4. c = [i \in 1..n |-> c[i]] /\ \A i \in 1..n : c[i] = [old[i] EXCEPT !.text = FALSE]
    BY <2>2, <2>3 DEF Pictures
  <2>5. ASSUME NEW i \in 1..n PROVE SamePage(c[i], b[i])
    <3>1. SamePage(old[i], b[i]) /\ c[i] = [old[i] EXCEPT !.text = FALSE] /\ FALSE \in BOOLEAN
      BY <2>2, <2>4
    <3>2. SamePage([old[i] EXCEPT !.text = FALSE], b[i])
      BY <3>1, SamePageChanged
    <3> QED BY <3>1, <3>2
  <2>6. AsAsked(c, b)
    BY <2>2, <2>4, <2>5, SamePageByPage
  <2> QED BY <2>3, <2>6
<1>6. new(kept) \in {old, Pictures(old)}
  BY DEF Squeezed, Pictures
<1> HIDE DEF new, told
<1>7. AsAsked(File("pdf", Open, new(kept)).pages, Makes(leaf, b)[1])
  BY <1>2, <1>4, <1>5, <1>6 DEF File
<1> QED BY <1>1, <1>2, <1>3, <1>7, OneWritten

\* run_ocr, when it reads the pages and when it copies them.
LEMMA OcrAsAsked ==
    ASSUME NEW held, NEW tools, NEW leaf, leaf.tool = "run_ocr", NEW inspection,
           NEW b, leaf.input \in DOMAIN held => AsAsked(held[leaf.input].pages, b),
           NEW o \in Ocr(leaf, held, inspection, FALSE, tools), o.end = "ok"
    PROVE  leaf.input \in DOMAIN held /\ WritesAsAsked(leaf, held, o, b)
<1> DEFINE old == Pages(held, leaf.input)
           at == [i \in DOMAIN old |-> i]
           every == OcrPages(held, leaf.input, at)
           new == OcrOutcome(leaf, held, inspection, tools)
           file == File("pdf", Open, new.pages)
           count == IF Skips(leaf, inspection)
                    THEN IF inspection.pageCount = 0 THEN 1 ELSE inspection.pageCount
                    ELSE Len(new.pages)
           told(out) == OcrTells(leaf, inspection, out, count)
<1>1. PICK out : leaf.input \in DOMAIN held /\ new.ok /\ o \in Returns(Written(held, out, file), told(out))
  <2>1. \A h : o \notin Raises(h)
    BY RaisesEnd
  <2> QED BY <2>1 DEF Ocr
<1>2. AsAsked(old, b)
  BY <1>1 DEF Pages
<1>3. "output" \in DOMAIN told(out) /\ told(out).output = out /\ "outputs" \notin DOMAIN told(out)
  BY DEF OcrTells
<1>4. Makes(leaf, b) = <<b>>
  BY DEF Makes
<1>5. AsAsked(every, b)
  <2>1. at = [i \in 1..Len(old) |-> i]
    <3>1. DOMAIN old = 1..Len(old)
      BY <1>2, SamePageAt
    <3> QED BY <3>1
  <2> HIDE DEF at
  <2> QED BY <1>2, <2>1, ReadSame
<1>6. new.pages \in {old, every}
  <2>1. new \in {Made(old), Made(every), Refusal}
    <3>1. CASE Skips(leaf, inspection)
      <4>1. leaf.input.name.ext = ".pdf" /\ leaf.input.name.ext \notin ImageSuffixes
        BY <3>1 DEF Skips, ImageSuffixes
      <4> QED BY <3>1, <4>1 DEF OcrOutcome
    <3>2. CASE ~Skips(leaf, inspection) /\ leaf.input.name.ext = ".pdf"
      BY <3>2 DEF OcrOutcome, ImageSuffixes
    <3>3. CASE ~Skips(leaf, inspection) /\ leaf.input.name.ext \in ImageSuffixes
      BY <3>3 DEF OcrOutcome, ImageSuffixes
    <3>4. CASE ~Skips(leaf, inspection) /\ leaf.input.name.ext \notin ImageSuffixes \cup {".pdf"}
      BY <3>4 DEF OcrOutcome
    <3> QED BY <3>1, <3>2, <3>3, <3>4
  <2> HIDE DEF new, every, old
  <2> QED BY <1>1, <2>1 DEF Made, Refusal
<1> HIDE DEF new, every, old
<1>7. AsAsked(file.pages, Makes(leaf, b)[1])
  BY <1>2, <1>4, <1>5, <1>6 DEF File
<1> HIDE DEF told, file, count
<1> QED BY <1>1, <1>3, <1>7, OneWritten

\* Documents one after the other are the same if each of them is.
LEMMA JoinedSame ==
    ASSUME NEW n \in Nat, NEW s, NEW t, s = [k \in 1..n |-> s[k]], t = [k \in 1..n |-> t[k]],
           \A k \in 1..n : AsAsked(s[k], t[k])
    PROVE  AsAsked(FlattenSeq(s), FlattenSeq(t))
<1> DEFINE S == (UNION {Range(s[k]) : k \in 1..n}) \cup (UNION {Range(t[k]) : k \in 1..n})
<1>1. ASSUME NEW k \in 1..n
      PROVE  /\ s[k] \in Seq(S) /\ t[k] \in Seq(S) /\ Len(t[k]) = Len(s[k]) /\ Len(s[k]) \in Nat
             /\ \A j \in 1..Len(s[k]) : SamePage(s[k][j], t[k][j])
  <2>1. AsAsked(s[k], t[k])
    BY <1>1
  <2>2. PICK u, v : u = s[k] /\ v = t[k]
    OBVIOUS
  <2>3. Len(v) = Len(u) /\ Len(u) \in Nat /\ \A j \in 1..Len(u) : SamePage(u[j], v[j])
    BY <2>1, <2>2, SamePageAt
  <2>4. u \in Seq(Range(u)) /\ v \in Seq(Range(v))
    BY <2>1, <2>2 DEF AsAsked, WholePages
  <2>5. Range(u) \subseteq S /\ Range(v) \subseteq S
    BY <2>2
  <2> HIDE DEF S
  <2>6. u \in Seq(S) /\ v \in Seq(S)
    BY <2>4, <2>5
  <2> QED BY <2>2, <2>3, <2>6
<1> HIDE DEF S
<1>2. Len(s) = n /\ Len(t) = n /\ s \in Seq(Seq(S)) /\ t \in Seq(Seq(S))
  BY <1>1, SequenceOf
<1>3. JoinedAlike(s, t)
  <2>1. \A k \in 1..Len(s) : Len(t[k]) = Len(s[k])
    BY <1>1, <1>2
  <2> QED BY <1>2, <2>1, FlattenAlike
<1>4. PICK x, y : x = FlattenSeq(s) /\ y = FlattenSeq(t)
  OBVIOUS
<1>5. PICK m : m = Len(x)
  OBVIOUS
<1>6. m \in Nat /\ Len(y) = m
      /\ \A i \in 1..m : \E k \in 1..n : \E j \in 1..Len(s[k]) : x[i] = s[k][j] /\ y[i] = t[k][j]
  <2>1. /\ Len(FlattenSeq(s)) \in Nat /\ Len(FlattenSeq(t)) = Len(FlattenSeq(s))
        /\ \A i \in 1..Len(FlattenSeq(s)) : \E k \in 1..Len(s) : \E j \in 1..Len(s[k]) :
             FlattenSeq(s)[i] = s[k][j] /\ FlattenSeq(t)[i] = t[k][j]
    BY <1>3 DEF JoinedAlike
  <2>2. m \in Nat /\ Len(y) = m
    BY <1>4, <1>5, <2>1
  <2>3. ASSUME NEW i \in 1..m
        PROVE  \E k \in 1..n : \E j \in 1..Len(s[k]) : x[i] = s[k][j] /\ y[i] = t[k][j]
    <3>1. i \in 1..Len(FlattenSeq(s))
      BY <1>4, <1>5
    <3>2. PICK k \in 1..Len(s) : \E j \in 1..Len(s[k]) : FlattenSeq(s)[i] = s[k][j] /\ FlattenSeq(t)[i] = t[k][j]
      BY <2>1, <3>1
    <3>3. PICK j \in 1..Len(s[k]) : FlattenSeq(s)[i] = s[k][j] /\ FlattenSeq(t)[i] = t[k][j]
      BY <3>2
    <3> QED BY <1>2, <1>4, <3>3
  <2> QED BY <2>2, <2>3
<1>7. x \in Seq(S) /\ y \in Seq(S)
  BY <1>2, <1>4, FlattenElements
<1>8. x = [i \in 1..m |-> x[i]] /\ y = [i \in 1..m |-> y[i]]
  BY <1>5, <1>6, <1>7
<1>9. \A i \in 1..m : SamePage(x[i], y[i])
  BY <1>1, <1>6
<1>10. AsAsked(x, y)
  BY <1>6, <1>8, <1>9, SamePageByPage
<1> QED BY <1>4, <1>10

\* merge_pdfs: its inputs one after the other.
LEMMA MergedAsAsked ==
    ASSUME NEW held, NEW leaf, leaf.tool = "merge_pdfs", leaf.inputs \in Seq(Range(leaf.inputs)),
           NEW want, want = [k \in DOMAIN leaf.inputs |-> want[k]],
           \A k \in DOMAIN leaf.inputs :
               leaf.inputs[k] \in DOMAIN held => AsAsked(held[leaf.inputs[k]].pages, want[k]),
           NEW o \in Merge(leaf, held, FALSE), o.end = "ok"
    PROVE  /\ \A k \in DOMAIN leaf.inputs : leaf.inputs[k] \in DOMAIN held
           /\ WritesAsAsked(leaf, held, o, FlattenSeq(want))
<1> DEFINE s == [k \in DOMAIN leaf.inputs |-> Pages(held, leaf.inputs[k])]
           pages == FlattenSeq(s)
           told == [output |-> leaf.out, pages |-> Len(pages)]
           file == File("pdf", Open, pages)
<1>1. /\ \A k \in DOMAIN leaf.inputs : OpensPdf(held, leaf.inputs[k])
      /\ o \in Returns(Written(held, leaf.out, file), told)
  <2>1. \A h : o \notin Raises(h)
    BY RaisesEnd
  <2> QED BY <2>1 DEF Merge
<1>2. \A k \in DOMAIN leaf.inputs : leaf.inputs[k] \in DOMAIN held
  BY <1>1 DEF OpensPdf
<1>3. PICK n \in Nat : DOMAIN leaf.inputs = 1..n
  OBVIOUS
<1>4. s = [k \in 1..n |-> s[k]] /\ \A k \in 1..n : s[k] = held[leaf.inputs[k]].pages
  BY <1>3 DEF Pages
<1>5. want = [k \in 1..n |-> want[k]]
  BY <1>3
<1> HIDE DEF s
<1>6. \A k \in 1..n : AsAsked(s[k], want[k])
  BY <1>2, <1>3, <1>4
<1>7. AsAsked(pages, FlattenSeq(want))
  BY <1>4, <1>5, <1>6, JoinedSame
<1>8. PICK b : b = FlattenSeq(want)
  OBVIOUS
<1>9. Makes(leaf, b) = <<b>>
  BY DEF Makes
<1>10. "output" \in DOMAIN told /\ told.output = leaf.out /\ "outputs" \notin DOMAIN told
  OBVIOUS
<1> HIDE DEF pages
<1>11. AsAsked(file.pages, Makes(leaf, b)[1])
  BY <1>7, <1>8, <1>9 DEF File
<1> HIDE DEF told, file
<1>12. WritesAsAsked(leaf, held, o, b)
  BY <1>1, <1>10, <1>11, OneWritten
<1> QED BY <1>2, <1>8, <1>12

---------------------------------------------------------------------------
\* The pieces of a split: two parts get one name only if they are one part.

\* The name of a piece tells its label, also when it moves to a free name.
LEMMA LabelInName ==
    ASSUME NEW leaf, leaf.input.name.parts \in Seq(Range(leaf.input.name.parts)), NEW part, NEW n
    PROVE  Nth(SplitName(leaf, part), n).name.parts[Len(leaf.input.name.parts) + 2] = part.label
<1>1. PICK s : s = leaf.input.name.parts
  OBVIOUS
<1>2. PICK label : label = part.label
  OBVIOUS
<1>3. PICK S : S = Range(s) \cup {"pages", label}
  OBVIOUS
<1>4. s \in Seq(S) /\ <<"pages", label>> \in Seq(S)
  <2>1. s \in Seq(Range(s) \cup {"pages", label})
    BY <1>1
  <2> QED BY <1>3, <2>1
<1>5. PICK t : t = s \o <<"pages", label>>
  OBVIOUS
<1>6. t \in Seq(S) /\ Len(t) = Len(s) + 2 /\ Len(s) \in Nat /\ t[Len(s) + 2] = label
  BY <1>4, <1>5
<1>7. \A x : Append(t, x)[Len(s) + 2] = label
  BY <1>6
<1>8. SplitName(leaf, part).name.parts = t
  BY <1>1, <1>2, <1>5 DEF SplitName
<1>9. CASE n = 0
  BY <1>1, <1>2, <1>6, <1>8, <1>9 DEF Nth
<1>10. CASE n # 0
  <2>1. PICK path : path = SplitName(leaf, part)
    OBVIOUS
  <2>2. PICK x : x = ToString(n)
    OBVIOUS
  <2>3. "name" \in DOMAIN path /\ "parts" \in DOMAIN path.name
    BY <2>1 DEF SplitName
  <2>4. Nth(path, n).name.parts = Append(path.name.parts, x)
    BY <1>10, <2>2, <2>3 DEF Nth, Marked
  <2> QED BY <1>1, <1>2, <1>7, <1>8, <2>1, <2>4
<1> QED BY <1>9, <1>10

\* Pieces of different parts get different names.
LEMMA SplitNamesApart ==
    ASSUME NEW leaf, leaf.input.name.parts \in Seq(Range(leaf.input.name.parts)), IsParts(leaf.parts),
           OwnLabels(leaf.parts), NEW held, NEW outs \in SplitNames(leaf, held)
    PROVE  /\ DOMAIN outs = DOMAIN leaf.parts
           /\ \A k, l \in DOMAIN outs : outs[k] = outs[l] => leaf.parts[k] = leaf.parts[l]
<1>1. CASE leaf.out # NoFile /\ Len(leaf.parts) = 1
  <2>1. outs = <<leaf.out>>
    BY <1>1 DEF SplitNames
  <2>2. DOMAIN leaf.parts = 1..1
    BY <1>1 DEF IsParts
  <2>3. DOMAIN outs = 1..1 /\ \A k, l \in 1..1 : k = l
    BY <2>1
  <2> QED BY <2>2, <2>3
<1>2. CASE ~(leaf.out # NoFile /\ Len(leaf.parts) = 1)
  <2>1. DOMAIN outs = DOMAIN leaf.parts
        /\ \A k \in DOMAIN leaf.parts : outs[k] \in NextFree(SplitName(leaf, leaf.parts[k]), held)
    BY <1>2 DEF SplitNames
  <2>2. ASSUME NEW k \in DOMAIN leaf.parts
        PROVE  outs[k].name.parts[Len(leaf.input.name.parts) + 2] = leaf.parts[k].label
    <3>1. PICK n : outs[k] = Nth(SplitName(leaf, leaf.parts[k]), n)
      BY <2>1 DEF NextFree
    <3> QED BY <3>1, LabelInName
  <2> QED BY <2>1, <2>2 DEF OwnLabels
<1> QED BY <1>1, <1>2

\* split_pdf: every piece is there and holds its part.
LEMMA SplitAsAsked ==
    ASSUME NEW held, NEW leaf, leaf.tool = "split_pdf", IsParts(leaf.parts), OwnLabels(leaf.parts),
           leaf.input.name.parts \in Seq(Range(leaf.input.name.parts)),
           NEW b, leaf.input \in DOMAIN held => AsAsked(held[leaf.input].pages, b),
           NEW o \in Split(leaf, held, FALSE), o.end = "ok"
    PROVE  leaf.input \in DOMAIN held /\ WritesAsAsked(leaf, held, o, b)
<1> DEFINE told(outs) == [outputs |-> outs, count |-> Len(outs)]
           old == Pages(held, leaf.input)
           piece(k) == File("pdf", Open, Selection(old, leaf.parts[k]))
           pieces == [k \in DOMAIN leaf.parts |-> piece(k)]
           new(outs) == WrittenInTurn(held, outs, pieces)
<1>1. PICK outs \in SplitNames(leaf, held) :
        /\ OpensPdf(held, leaf.input) /\ ~Refused(leaf.parts, Len(old)) /\ leaf.parts # <<>>
        /\ o \in Returns(new(outs), told(outs))
  <2>1. \A h : o \notin Raises(h)
    BY RaisesEnd
  <2> QED BY <2>1 DEF Split, PageCount
<1>2. leaf.input \in DOMAIN held /\ AsAsked(old, b)
  BY <1>1 DEF OpensPdf, Pages
<1>3. o.files = new(outs) /\ o.result = told(outs)
  BY <1>1, ReturnsIs
<1>4. DocWrites(told(outs)) = Range(outs) /\ Paths(told(outs)) = outs
  BY DEF DocWrites, Paths
<1>5. /\ DOMAIN outs = DOMAIN leaf.parts
      /\ \A k, l \in DOMAIN outs : outs[k] = outs[l] => leaf.parts[k] = leaf.parts[l]
  BY <1>1, SplitNamesApart
<1>6. PICK n \in Nat : DOMAIN leaf.parts = 1..n /\ n # 0
  BY <1>1 DEF IsParts
<1>7. Range(outs) # {}
  <2>1. 1 \in DOMAIN outs
    BY <1>5, <1>6
  <2>2. outs[1] \in Range(outs)
    BY <2>1 DEF Range
  <2> QED BY <2>2
<1>8. DOMAIN new(outs) = DOMAIN held \cup Range(outs) /\ \A p \in DOMAIN held \ Range(outs) : new(outs)[p] = held[p]
  BY DEF WrittenInTurn
<1>9. ASSUME NEW k \in DOMAIN outs
      PROVE  AsAsked(new(outs)[outs[k]].pages, Makes(leaf, b)[k])
  <2> DEFINE S == {j \in DOMAIN outs : outs[j] = outs[k]}
  <2>1. S \in SUBSET (1..n) /\ S # {}
    BY <1>5, <1>6
  <2>2. Max(S) \in S
    BY <1>6, <2>1, GreatestNumber
  <2>3. PICK j \in DOMAIN outs : j = Max(S) /\ outs[j] = outs[k]
    BY <2>2
  <2>4. new(outs)[outs[k]] = pieces[j]
    BY <2>3 DEF WrittenInTurn, Range
  <2>5. pieces[j].pages = Selection(old, leaf.parts[k])
    BY <1>5, <2>3 DEF File
  <2> HIDE DEF pieces, new, old
  <2>6. AsAsked(Selection(old, leaf.parts[k]), Makes(leaf, b)[k])
    BY <1>1, <1>2, <1>5, SelectedAsAsked
  <2> QED BY <2>4, <2>5, <2>6
<1> HIDE DEF new, told
<1>10. WritesAsAsked(leaf, held, o, b)
  BY <1>3, <1>4, <1>7, <1>8, <1>9 DEF WritesAsAsked
<1> QED BY <1>2, <1>10

Readers == {"inspect_document", "extract_text", "find_in_document"}

\* A leaf that only reads names no file it has written.
LEMMA ReadersTell ==
    ASSUME NEW leaf, leaf.tool \in Readers, NEW held, NEW told, NEW tools,
           NEW o \in DocDo(leaf, held, told, tools), o.end = "ok"
    PROVE  o.files = held /\ DocWrites(o.result) = {}
<1>1. \A h : o \notin Raises(h)
  BY RaisesEnd
<1>2. CASE leaf.tool = "inspect_document"
  <2>1. o \in Inspect(leaf, held, FALSE)
    BY <1>2 DEF DocDo, Handle
  <2>2. o \in Returns(held, Inspection(held, leaf.input))
    BY <1>1, <2>1 DEF Inspect
  <2>3. "output" \notin DOMAIN Inspection(held, leaf.input) /\ "outputs" \notin DOMAIN Inspection(held, leaf.input)
    BY DEF Inspection
  <2> QED BY <2>2, <2>3, ReturnsIs DEF DocWrites
<1>3. CASE leaf.tool # "inspect_document"
  <2>1. o \in ReadText(leaf, held, tools)
    BY <1>3 DEF DocDo, Handle, Readers
  <2>2. PICK text : o \in Returns(held, [text |-> text])
    BY <1>1, <2>1 DEF ReadText
  <2>3. o.files = held /\ o.result = [text |-> text]
    BY <2>2, ReturnsIs
  <2> QED BY <2>3 DEF DocWrites
<1> QED BY <1>2, <1>3

\* A verification names again what the compression before it wrote.
NamesAgain(o, held, told) ==
    /\ o.files = held /\ DocWrites(o.result) = {told[2].output}
    /\ Paths(o.result) = <<told[2].output>>

LEMMA VerifyNames ==
    ASSUME NEW leaf, leaf.tool = "verify_output", NEW held, NEW told, NEW tools,
           NEW o \in DocDo(leaf, held, told, tools), o.end = "ok"
    PROVE  NamesAgain(o, held, told)
<1>1. \A h : o \notin Raises(h)
  BY RaisesEnd
<1>2. o \in Verify(leaf, held, told[1], told[2])
  BY DEF DocDo, Handle
<1>3. PICK result : /\ o \in Returns(held, result)
                    /\ DOMAIN result = {"output", "exists", "textPreserved", "pagesPreserved"}
                    /\ result.output = told[2].output
  BY <1>1, <1>2 DEF Verify
<1>4. o.files = held /\ o.result = result
  BY <1>3, ReturnsIs
<1> QED BY <1>3, <1>4 DEF NamesAgain, DocWrites, Paths

DoesAsAsked(leaf, held, o, want) ==
    /\ \A k \in DOMAIN Inputs(leaf) : Inputs(leaf)[k] \in DOMAIN held
    /\ WritesAsAsked(leaf, held, o, FlattenSeq(want))

\* Every leaf that writes makes what its tool does of what it reads.
LEMMA LeafAsAsked ==
    ASSUME NEW locks, NEW held, GuardedFolder(held, locks), NEW leaf, Fits(leaf, locks), Spelled(leaf),
           leaf.tool \notin Readers, leaf.tool # "verify_output",
           NEW want, want = [k \in DOMAIN Inputs(leaf) |-> want[k]],
           \A k \in DOMAIN Inputs(leaf) :
               Inputs(leaf)[k] \in DOMAIN held => AsAsked(held[Inputs(leaf)[k]].pages, want[k]),
           NEW told, NEW tools, NEW o \in DocDo(leaf, held, told, tools), o.end = "ok"
    PROVE  DoesAsAsked(leaf, held, o, want)
<1>0. IsParts(leaf.parts)
  BY DEF Fits
<1>1. CASE leaf.tool = "merge_pdfs"
  <2>1. o \in Merge(leaf, held, FALSE)
    BY <1>1 DEF DocDo, Handle
  <2>2. Inputs(leaf) = leaf.inputs /\ leaf.inputs \in Seq(Range(leaf.inputs))
    BY <1>1 DEF Inputs, Fits
  <2>3. /\ \A k \in DOMAIN leaf.inputs : leaf.inputs[k] \in DOMAIN held
        /\ WritesAsAsked(leaf, held, o, FlattenSeq(want))
    BY <1>1, <2>1, <2>2, MergedAsAsked
  <2> QED BY <2>2, <2>3 DEF DoesAsAsked
<1>2. ASSUME leaf.tool # "merge_pdfs"
      PROVE  DoesAsAsked(leaf, held, o, want)
  <2>1. PICK inputs : inputs = <<leaf.input>>
    OBVIOUS
  <2>2. Inputs(leaf) = inputs
    BY <1>2, <2>1 DEF Inputs
  <2>3. DOMAIN inputs = 1..1 /\ inputs[1] = leaf.input /\ \A k \in 1..1 : k = 1
    BY <2>1
  <2>4. want = [k \in 1..1 |-> want[k]]
    BY <2>2, <2>3
  <2>5. Len(want) = 1
    <3>1. PICK n \in Nat : n = 1
      OBVIOUS
    <3>2. want = [k \in 1..n |-> want[k]]
      BY <2>4, <3>1
    <3>3. Len(want) = n
      BY <3>2, SequenceOf
    <3> QED BY <3>1, <3>3
  <2>6. PICK b : b = FlattenSeq(want)
    OBVIOUS
  <2>7. leaf.input \in DOMAIN held => AsAsked(held[leaf.input].pages, b)
    <3>1. b = want[1]
      BY <2>5, <2>6, FlattenOne
    <3> QED BY <2>2, <2>3, <3>1
  <2>8. leaf.input \in DOMAIN held /\ WritesAsAsked(leaf, held, o, b)
    <3>1. CASE leaf.tool \in PageTools
      <4>1. o \in EditPages(leaf, held, FALSE)
        BY <3>1 DEF DocDo, Handle, PageTools
      <4>2. leaf.tool = "reorder_pages" => leaf.reverse \/ leaf.parts # <<>>
        BY DEF Spelled
      <4> QED BY <1>0, <2>7, <3>1, <4>1, <4>2, EditedAsAsked
    <3>2. CASE leaf.tool \in ReworkTools
      <4>1. o \in Rework(leaf, held, FALSE)
        BY <3>2 DEF DocDo, Handle, ReworkTools
      <4> QED BY <2>7, <3>2, <4>1, ReworkedAsAsked
    <3>3. CASE leaf.tool = "convert_document"
      <4>1. o \in Convert(leaf, held, FALSE, tools)
        BY <3>3 DEF DocDo, Handle
      <4>2. leaf.parts = <<>>
        BY <3>3 DEF Spelled
      <4> QED BY <2>7, <3>3, <4>1, <4>2, ConvertedAsAsked
    <3>4. CASE leaf.tool = "run_compress"
      <4>1. o \in Compress(leaf, held, FALSE, tools)
        BY <3>4 DEF DocDo, Handle
      <4> QED BY <2>7, <3>4, <4>1, CompressedAsAsked
    <3>5. CASE leaf.tool = "run_ocr"
      <4>1. o \in Ocr(leaf, held, told[1], FALSE, tools)
        BY <3>5 DEF DocDo, Handle
      <4> QED BY <2>7, <3>5, <4>1, OcrAsAsked
    <3>6. CASE leaf.tool = "split_pdf"
      <4>1. o \in Split(leaf, held, FALSE)
        BY <3>6 DEF DocDo, Handle
      <4>2. OwnLabels(leaf.parts) /\ leaf.input.name.parts \in Seq(Range(leaf.input.name.parts))
        BY <3>6 DEF Spelled
      <4> QED BY <1>0, <2>7, <3>6, <4>1, <4>2, SplitAsAsked
    <3> QED BY <1>2, <3>1, <3>2, <3>3, <3>4, <3>5, <3>6
            DEF Fits, WholeLeaf, LeafTools, Tools, PageTools, ReworkTools, Readers
  <2> QED BY <2>2, <2>3, <2>6, <2>8 DEF DoesAsAsked
<1> QED BY <1>1, <1>2

---------------------------------------------------------------------------
\* The leaves of an intent, and what they make.

\* Which leaves an intent has, and that only the last one writes, but for a
\* compression, which is verified.
LEMMA BlockOrder ==
    ASSUME AtLeaf, NEW i \in DOMAIN plan, NEW k \in DOMAIN DocLeaves(plan[i])
    PROVE  LET leaf == DocLeaves(plan[i])[k]
               next == DocLeaves(plan[i])[k + 1]
           IN  /\ \/ leaf = plan[i]
                  \/ /\ plan[i].tool \in {"compress_pdf", "ocr_document"} /\ leaf.input = plan[i].input
                     /\ leaf.tool \in {"inspect_document", "run_compress", "verify_output", "run_ocr"}
               /\ k < Len(DocLeaves(plan[i])) =>
                    \/ leaf.tool = "inspect_document" /\ next.tool # "verify_output"
                    \/ leaf.tool = "run_compress" /\ next.tool = "verify_output"
               /\ leaf.tool = "run_compress" => k < Len(DocLeaves(plan[i]))
<1> DEFINE it == plan[i]
           As(tool) == [it EXCEPT !.tool = tool]
<1>1. /\ it = [field \in DOMAIN it |-> it[field]] /\ {"tool", "input", "out", "parts"} \subseteq DOMAIN it
      /\ it.tool \in Tools
  BY PlansAreWhole DEF AtLeaf
<1> HIDE DEF it
<1>2. \A tool : As(tool).tool = tool /\ As(tool).input = it.input
  BY <1>1
<1> HIDE DEF As
<1>3. CASE it.tool = "compress_pdf"
  <2>1. PICK s : s = <<As("inspect_document"), As("run_compress"), As("verify_output")>>
    OBVIOUS
  <2>2. DocLeaves(it) = s
    BY <1>3, <2>1 DEF DocLeaves, As
  <2>3. DOMAIN s = 1..3 /\ Len(s) = 3
    BY <2>1
  <2>4. CASE k = 1
    BY <1>2, <1>3, <2>1, <2>2, <2>3, <2>4 DEF it
  <2>5. CASE k = 2
    BY <1>2, <1>3, <2>1, <2>2, <2>3, <2>5 DEF it
  <2>6. CASE k = 3
    BY <1>2, <1>3, <2>1, <2>2, <2>3, <2>6 DEF it
  <2> QED BY <2>2, <2>3, <2>4, <2>5, <2>6 DEF it
<1>4. CASE it.tool = "ocr_document"
  <2>1. PICK s : s = <<As("inspect_document"), As("run_ocr")>>
    OBVIOUS
  <2>2. DocLeaves(it) = s
    BY <1>4, <2>1 DEF DocLeaves, As
  <2>3. DOMAIN s = 1..2 /\ Len(s) = 2
    BY <2>1
  <2>4. CASE k = 1
    BY <1>2, <1>4, <2>1, <2>2, <2>3, <2>4 DEF it
  <2>5. CASE k = 2
    BY <1>2, <1>4, <2>1, <2>2, <2>3, <2>5 DEF it
  <2> QED BY <2>2, <2>3, <2>4, <2>5 DEF it
<1>5. CASE it.tool \notin {"compress_pdf", "ocr_document"}
  <2>1. PICK s : s = <<it>>
    OBVIOUS
  <2>2. DocLeaves(it) = s
    BY <1>5, <2>1 DEF DocLeaves
  <2>3. DOMAIN s = 1..1 /\ Len(s) = 1
    BY <2>1
  <2>4. k = 1 /\ s[1] = it
    BY <2>1, <2>2, <2>3 DEF it
  <2>5. it.tool \notin {"run_ocr", "run_compress", "verify_output"}
    BY <1>1 DEF Tools
  <2> QED BY <2>2, <2>3, <2>4, <2>5 DEF it
<1> QED BY <1>3, <1>4, <1>5

\* A leaf makes what its intent does, of what it reads.
LEMMA LeafMakes ==
    ASSUME AtLeaf, NEW i \in DOMAIN plan, NEW k \in DOMAIN DocLeaves(plan[i]), Spelled(plan[i])
    PROVE  LET leaf == DocLeaves(plan[i])[k]
           IN  /\ Inputs(leaf) = Inputs(plan[i]) /\ \A b : Makes(leaf, b) = Makes(plan[i], b)
               /\ Spelled(leaf)
<1>1. PICK leaf : leaf = DocLeaves(plan[i])[k]
  OBVIOUS
<1>2. CASE leaf = plan[i]
  BY <1>1, <1>2
<1>3. CASE leaf # plan[i]
  <2>1. /\ plan[i].tool \in {"compress_pdf", "ocr_document"} /\ leaf.input = plan[i].input
        /\ leaf.tool \in {"inspect_document", "run_compress", "verify_output", "run_ocr"}
    BY <1>1, <1>3, BlockOrder
  <2>2. \A b : Makes(leaf, b) = <<b>> /\ Makes(plan[i], b) = <<b>>
    BY <2>1 DEF Makes
  <2>3. Inputs(leaf) = <<leaf.input>> /\ Inputs(plan[i]) = <<plan[i].input>>
    BY <2>1 DEF Inputs
  <2>4. Spelled(leaf)
    BY <2>1 DEF Spelled
  <2> QED BY <1>1, <2>1, <2>2, <2>3, <2>4
<1> QED BY <1>2, <1>3

---------------------------------------------------------------------------
\* Who wrote what, as results are added.

\* A bound that is in the set is its greatest number.
LEMMA GreatestIsLast ==
    ASSUME NEW n \in Nat, NEW S \in SUBSET (0..n), n \in S
    PROVE  Max(S) = n
<1>1. PICK m : m = Max(S)
  OBVIOUS
<1>2. m \in S /\ \A y \in S : m >= y
  BY <1>1, GreatestIs
<1> QED BY <1>1, <1>2

\* The results that say intent i wrote.
Makers(i) == {k \in DOMAIN results : results[k].intent = i /\ DocWrites(results[k].result) # {}}

\* WrittenBy, with its parts named.
LEMMA WrittenByIs ==
    ASSUME NEW i
    PROVE  WrittenBy(i) = IF Makers(i) = {} THEN <<>> ELSE Paths(results[Max(Makers(i))].result)
  BY DEF WrittenBy, Makers, Paths

\* A result changes what its own intent has written, and only if it wrote.
LEMMA ResultAdded ==
    ASSUME results \in Seq(Range(results)), NEW record, results' = Append(results, record)
    PROVE  /\ \A i : i # record.intent \/ DocWrites(record.result) = {} => WrittenBy(i)' = WrittenBy(i)
           /\ DocWrites(record.result) # {} => WrittenBy(record.intent)' = Paths(record.result)
<1>1. PICK n \in Nat : n = Len(results)
  OBVIOUS
<1>2. /\ DOMAIN results = 1..n /\ DOMAIN results' = 1..(n + 1) /\ results'[n + 1] = record
      /\ \A k \in 1..n : results'[k] = results[k]
  BY <1>1
<1>3. ASSUME NEW i, i # record.intent \/ DocWrites(record.result) = {}
      PROVE  WrittenBy(i)' = WrittenBy(i)
  <2>1. Makers(i)' = Makers(i)
    BY <1>2, <1>3 DEF Makers
  <2>2. WrittenBy(i)' = IF Makers(i) = {} THEN <<>> ELSE Paths(results'[Max(Makers(i))].result)
    <3>1. WrittenBy(i)' = IF Makers(i)' = {} THEN <<>> ELSE Paths(results'[Max(Makers(i)')].result)
      BY DEF WrittenBy, Makers, Paths
    <3> QED BY <2>1, <3>1
  <2>3. Makers(i) # {} => results'[Max(Makers(i))] = results[Max(Makers(i))]
    <3>1. Makers(i) \in SUBSET (1..n)
      BY <1>2 DEF Makers
    <3>2. Makers(i) # {} => Max(Makers(i)) \in 1..n
      BY <3>1, GreatestNumber
    <3> QED BY <1>2, <3>2
  <2> QED BY <2>2, <2>3, WrittenByIs
<1>4. ASSUME DocWrites(record.result) # {}
      PROVE  WrittenBy(record.intent)' = Paths(record.result)
  <2>1. PICK i : i = record.intent
    OBVIOUS
  <2>2. PICK S : S = {k \in DOMAIN results' : results'[k].intent = i /\ DocWrites(results'[k].result) # {}}
    OBVIOUS
  <2>3. S \in SUBSET (0..(n + 1)) /\ n + 1 \in S
    BY <1>2, <1>4, <2>1, <2>2
  <2>4. Max(S) = n + 1 /\ S # {}
    BY <2>3, GreatestIsLast
  <2>5. WrittenBy(i)' = IF S = {} THEN <<>> ELSE Paths(results'[Max(S)].result)
    BY <2>2 DEF WrittenBy, Paths
  <2> QED BY <1>2, <2>1, <2>4, <2>5
<1> QED BY <1>3, <1>4

---------------------------------------------------------------------------
\* What the intents before bi were to make, and what is in the folder of it.

\* As in Wanted: who made the path an intent reads, and what it was to be.
MakerBy(p, i) == Max({0} \cup {j \in 1..(i - 1) : p \in Range(WrittenBy(j))})

MeantBy(w, p, i) ==
    IF MakerBy(p, i) = 0 THEN origin[p].pages
    ELSE w[MakerBy(p, i)][CHOOSE k \in DOMAIN WrittenBy(MakerBy(p, i)) : WrittenBy(MakerBy(p, i))[k] = p]

MadeIn(w, i) ==
    Makes(plan[i], FlattenSeq([k \in DOMAIN Inputs(plan[i]) |-> MeantBy(w, Inputs(plan[i])[k], i)]))

\* The intents that have written what they write.
AtVerify == phase = "leaf" /\ Leaf.tool = "verify_output"
Upto == IF phase = "preview" THEN 0 ELSE IF AtVerify THEN bi ELSE bi - 1

\* No intent of this run has written it.
Untouched(p) == \A j \in 1..Upto : p \notin Range(WrittenBy(j))

\* What no later intent replaced is in the folder, as w has it.
InFolder(w) ==
    \A i \in 1..Upto : \A k \in DOMAIN WrittenBy(i) :
        (\A j \in (i + 1)..Upto : WrittenBy(i)[k] \notin Range(WrittenBy(j))) =>
            WrittenBy(i)[k] \in DOMAIN files /\ AsAsked(files[WrittenBy(i)[k]].pages, w[i][k])

\* w says of the first n intents what each was to make of the ones before.
IsWork(w, n) == \A i \in 1..n : w[i] = MadeIn(w, i)

\* The inductive invariant: only intents that are through have written, a
\* verification is told of its intent's own output, what nobody wrote is as it
\* was, and some account of what each intent was to make fits the folder.
WorkInv ==
    /\ \A k \in DOMAIN results : results[k].intent \in 1..Upto \/ DocWrites(results[k].result) = {}
    /\ phase \in {"gate", "check"} => bi = 1
    /\ AtVerify => WrittenBy(bi) = <<bound[2].output>>
    /\ \A p \in DOMAIN files : Untouched(p) =>
          IF p \in DOMAIN origin THEN files[p] = origin[p] ELSE p \in DOMAIN Newcomers
    /\ \E w : IsWork(w, Upto) /\ InFolder(w)

\* The maker of a path is the last intent before that wrote it, or none.
LEMMA MakerIs ==
    ASSUME NEW p, NEW i \in Nat \ {0}
    PROVE  /\ MakerBy(p, i) \in 0..(i - 1)
           /\ MakerBy(p, i) = 0 => \A j \in 1..(i - 1) : p \notin Range(WrittenBy(j))
           /\ MakerBy(p, i) # 0 => /\ p \in Range(WrittenBy(MakerBy(p, i)))
                                   /\ \A j \in (MakerBy(p, i) + 1)..(i - 1) : p \notin Range(WrittenBy(j))
<1> DEFINE S == {0} \cup {j \in 1..(i - 1) : p \in Range(WrittenBy(j))}
<1>1. PICK m : m = MakerBy(p, i)
  OBVIOUS
<1>2. S \in SUBSET (0..(i - 1)) /\ S # {} /\ i - 1 \in Nat
  OBVIOUS
<1>3. m = Max(S)
  BY <1>1 DEF MakerBy
<1>4. m \in S /\ \A j \in S : m >= j
  <2> HIDE DEF S
  <2> QED BY <1>2, <1>3, GreatestIs
<1> QED BY <1>1, <1>4

\* What an intent was to make depends on what the intents before it wrote.
LEMMA MakingKept ==
    ASSUME UNCHANGED <<plan, origin>>, NEW i \in Nat \ {0},
           \A j \in 1..(i - 1) : WrittenBy(j)' = WrittenBy(j),
           NEW w, NEW v, \A j \in 1..(i - 1) : v[j] = w[j]
    PROVE  MadeIn(v, i)' = MadeIn(w, i)
<1>1. ASSUME NEW p
      PROVE  MeantBy(v, p, i)' = MeantBy(w, p, i)
  <2>1. MakerBy(p, i)' = MakerBy(p, i)
    <3>1. {j \in 1..(i - 1) : p \in Range(WrittenBy(j)')} = {j \in 1..(i - 1) : p \in Range(WrittenBy(j))}
      OBVIOUS
    <3>2. MakerBy(p, i)' = Max({0} \cup {j \in 1..(i - 1) : p \in Range(WrittenBy(j)')})
      BY DEF MakerBy
    <3> QED BY <3>1, <3>2 DEF MakerBy
  <2>2. PICK m \in 0..(i - 1) : m = MakerBy(p, i)
    BY MakerIs
  <2>3. MeantBy(w, p, i) = IF m = 0 THEN origin[p].pages
                           ELSE w[m][CHOOSE k \in DOMAIN WrittenBy(m) : WrittenBy(m)[k] = p]
    BY <2>2 DEF MeantBy
  <2>4. MeantBy(v, p, i)' = IF m = 0 THEN origin[p].pages
                            ELSE v[m][CHOOSE k \in DOMAIN WrittenBy(m)' : WrittenBy(m)'[k] = p]
    <3>1. MeantBy(v, p, i)' =
            IF MakerBy(p, i)' = 0 THEN origin'[p].pages
            ELSE v[MakerBy(p, i)'][CHOOSE k \in DOMAIN WrittenBy(MakerBy(p, i))' :
                                      WrittenBy(MakerBy(p, i))'[k] = p]
      BY DEF MeantBy
    <3>2. m # 0 => WrittenBy(MakerBy(p, i))' = WrittenBy(m)'
      BY <2>1, <2>2 DEF WrittenBy
    <3> QED BY <2>1, <2>2, <3>1, <3>2
  <2>5. CASE m = 0
    BY <2>3, <2>4, <2>5
  <2>6. CASE m # 0
    <3>1. m \in 1..(i - 1)
      BY <2>6
    <3>2. WrittenBy(m)' = WrittenBy(m) /\ v[m] = w[m]
      BY <3>1
    <3> QED BY <2>3, <2>4, <2>6, <3>2
  <2> QED BY <2>5, <2>6
<1>2. PICK it : it = plan[i]
  OBVIOUS
<1>3. MadeIn(w, i) = Makes(it, FlattenSeq([k \in DOMAIN Inputs(it) |-> MeantBy(w, Inputs(it)[k], i)]))
  BY <1>2 DEF MadeIn
<1>4. MadeIn(v, i)' = Makes(it, FlattenSeq([k \in DOMAIN Inputs(it) |-> MeantBy(v, Inputs(it)[k], i)']))
  BY <1>2 DEF MadeIn
<1>5. [k \in DOMAIN Inputs(it) |-> MeantBy(v, Inputs(it)[k], i)'] = [k \in DOMAIN Inputs(it) |-> MeantBy(w, Inputs(it)[k], i)]
  BY <1>1
<1> QED BY <1>3, <1>4, <1>5

\* Between the leaves of an intent and in its midst, the intents before it count.
LEMMA UptoIs ==
    ASSUME AtLeaf
    PROVE  Upto \in Nat /\ bi \in Nat \ {0} /\ (~AtVerify /\ phase # "preview" => Upto = bi - 1)
<1>1. bi \in Nat \ {0}
  BY PlanIsSeq DEF AtLeaf
<1> QED BY <1>1 DEF Upto

\* A step that runs no leaf leaves the work of the intents as it is.
LEMMA WorkStands ==
    ASSUME WorkInv, AtLeaf, UNCHANGED <<plan, origin>>, Upto' = Upto,
           \A i : WrittenBy(i)' = WrittenBy(i),
           \A k \in DOMAIN results' : results'[k].intent \in 1..Upto \/ DocWrites(results'[k].result) = {},
           AtVerify' => AtVerify /\ UNCHANGED <<bi, bound>>,
           phase' \in {"gate", "check"} => bi' = 1,
           \A p \in DOMAIN files : p \in DOMAIN files' /\ files'[p] = files[p],
           \A p \in DOMAIN files' : p \in DOMAIN files \/ (p \notin DOMAIN origin /\ p \in DOMAIN Newcomers)
    PROVE  WorkInv'
<1>1. Upto \in Nat
  BY UptoIs
<1>2. PICK n \in Nat : n = Upto /\ n = Upto'
  BY <1>1
<1>3. \A i : WrittenBy(i)' = WrittenBy(i)
  OBVIOUS
<1>4. /\ AtVerify => WrittenBy(bi) = <<bound[2].output>>
      /\ \A p \in DOMAIN files : (\A j \in 1..n : p \notin Range(WrittenBy(j))) =>
            IF p \in DOMAIN origin THEN files[p] = origin[p] ELSE p \in DOMAIN Newcomers
  BY <1>2 DEF WorkInv, Untouched
<1>5. PICK w : IsWork(w, Upto) /\ InFolder(w)
  BY DEF WorkInv
<1>6. IsWork(w, Upto)'
  <2> SUFFICES ASSUME NEW i \in 1..n PROVE w[i] = MadeIn(w, i)'
    BY <1>2 DEF IsWork
  <2>1. w[i] = MadeIn(w, i)
    BY <1>2, <1>5 DEF IsWork
  <2>2. MadeIn(w, i)' = MadeIn(w, i)
    <3>1. i \in Nat \ {0}
      BY <1>2
    <3> QED BY <1>3, <3>1, MakingKept
  <2> QED BY <2>1, <2>2
<1>7. InFolder(w)'
  <2> SUFFICES ASSUME NEW i \in 1..n, NEW k \in DOMAIN WrittenBy(i)',
                      \A j \in (i + 1)..n : WrittenBy(i)'[k] \notin Range(WrittenBy(j)')
               PROVE  WrittenBy(i)'[k] \in DOMAIN files' /\ AsAsked(files'[WrittenBy(i)'[k]].pages, w[i][k])
    BY <1>2 DEF InFolder
  <2>1. PICK path : path = WrittenBy(i)[k]
    OBVIOUS
  <2>2. path \in DOMAIN files /\ AsAsked(files[path].pages, w[i][k])
    BY <1>2, <1>3, <1>5, <2>1 DEF InFolder
  <2> QED BY <1>3, <2>1, <2>2
<1>8. AtVerify' => WrittenBy(bi)' = <<bound'[2].output>>
  <2> SUFFICES ASSUME AtVerify' PROVE WrittenBy(bi)' = <<bound'[2].output>>
    OBVIOUS
  <2>1. PICK b : b = bi
    OBVIOUS
  <2>2. b = bi' /\ bound' = bound /\ WrittenBy(b) = <<bound[2].output>>
    BY <1>4, <2>1
  <2>3. WrittenBy(bi)' = WrittenBy(b)'
    BY <2>2 DEF WrittenBy
  <2> QED BY <1>3, <2>2, <2>3
<1>9. \A p \in DOMAIN files' : Untouched(p)' =>
          IF p \in DOMAIN origin THEN files'[p] = origin[p] ELSE p \in DOMAIN Newcomers
  <2> SUFFICES ASSUME NEW p \in DOMAIN files', Untouched(p)'
               PROVE  IF p \in DOMAIN origin THEN files'[p] = origin[p] ELSE p \in DOMAIN Newcomers
    OBVIOUS
  <2>1. \A j \in 1..n : p \notin Range(WrittenBy(j))
    BY <1>2, <1>3 DEF Untouched
  <2> QED BY <1>4, <2>1
<1> QED BY <1>2, <1>6, <1>7, <1>8, <1>9 DEF WorkInv

\* Nothing is written at the start.
LEMMA InitWork ==
    ASSUME Init
    PROVE  WorkInv
<1>1. phase = "preview" /\ results = <<>> /\ files = origin
  BY DEF Init
<1>2. Upto = 0 /\ ~AtVerify /\ 1..Upto = {} /\ DOMAIN results = {}
  BY <1>1 DEF Upto, AtVerify
<1>3. IsWork(<<>>, Upto) /\ InFolder(<<>>)
  BY <1>2 DEF IsWork, InFolder
<1> QED BY <1>1, <1>2, <1>3 DEF WorkInv

\* A newcomer takes no name that is in the folder.
LEMMA PutWork ==
    ASSUME TruthInv, WorkInv, NEW p \in DOMAIN Newcomers, Put(p)
    PROVE  WorkInv'
<1>1. /\ UNCHANGED <<plan, origin, phase, bi, li, bound, results>> /\ p \notin DOMAIN files
      /\ DOMAIN files' = DOMAIN files \cup {p} /\ \A q \in DOMAIN files : files'[q] = files[q]
  BY DEF Put, request, place
<1>2. AtLeaf /\ p \notin DOMAIN origin
  BY <1>1 DEF TruthInv, GateInv
<1>3. AtVerify' = AtVerify /\ Upto' = Upto
  BY <1>1 DEF AtVerify, Upto, Leaf, Block
<1>4. phase' \in {"gate", "check"} => bi' = 1
  BY <1>1 DEF WorkInv
<1>5. \A i : WrittenBy(i)' = WrittenBy(i)
  BY <1>1 DEF WrittenBy
<1>6. \A k \in DOMAIN results' : results'[k].intent \in 1..Upto \/ DocWrites(results'[k].result) = {}
  BY <1>1 DEF WorkInv
<1> QED BY <1>1, <1>2, <1>3, <1>4, <1>5, <1>6, WorkStands

\* Nor does a step that neither runs a leaf nor adds a file.
LEMMA QuietWork ==
    ASSUME WorkInv, AtLeaf, UNCHANGED <<plan, origin, results, files>>, Upto' = Upto, ~AtVerify',
           phase' \in {"gate", "check"} => bi' = 1
    PROVE  WorkInv'
<1>1. \A i : WrittenBy(i)' = WrittenBy(i)
  BY DEF WrittenBy
<1>2. \A k \in DOMAIN results' : results'[k].intent \in 1..Upto \/ DocWrites(results'[k].result) = {}
  BY DEF WorkInv
<1> QED BY <1>1, <1>2, WorkStands

\* What the intent to run reads is what it was meant to read.
LEMMA InputAsAsked ==
    ASSUME TruthInv, WorkInv, Upto = bi - 1, NEW w, InFolder(w),
           NEW p \in DOMAIN files, p \notin DOMAIN Newcomers
    PROVE  AsAsked(files[p].pages, MeantBy(w, p, bi))
<1>1. AtLeaf /\ GuardedFolder(files, Locks)
  BY DEF TruthInv, GateInv
<1>2. PICK b \in Nat \ {0} : b = bi /\ Upto = b - 1
  BY <1>1, UptoIs
<1>3. PICK m : m = MakerBy(p, b)
  OBVIOUS
<1>4. /\ m \in 0..(b - 1)
      /\ m = 0 => \A j \in 1..(b - 1) : p \notin Range(WrittenBy(j))
      /\ m # 0 => p \in Range(WrittenBy(m)) /\ \A j \in (m + 1)..(b - 1) : p \notin Range(WrittenBy(j))
  BY <1>3, MakerIs
<1>5. MeantBy(w, p, b) = IF m = 0 THEN origin[p].pages
                         ELSE w[m][CHOOSE k \in DOMAIN WrittenBy(m) : WrittenBy(m)[k] = p]
  BY <1>3 DEF MeantBy
<1>6. CASE m = 0
  <2>1. Untouched(p)
    BY <1>2, <1>4, <1>6 DEF Untouched
  <2>2. files[p] = origin[p]
    BY <2>1 DEF WorkInv
  <2>3. IsFile(files[p])
    BY <1>1 DEF GuardedFolder, Guarded
  <2>4. WholePages(files[p].pages)
    BY <2>3 DEF IsFile, WholePages
  <2> QED BY <1>2, <1>5, <1>6, <2>2, <2>4, WholeIsSame
<1>7. CASE m # 0
  <2>1. PICK paths : paths = WrittenBy(m)
    OBVIOUS
  <2>2. \E k \in DOMAIN paths : paths[k] = p
    BY <1>4, <1>7, <2>1 DEF Range
  <2>3. PICK k \in DOMAIN paths : paths[k] = p /\ k = CHOOSE l \in DOMAIN paths : paths[l] = p
    BY <2>2
  <2>4. m \in 1..(b - 1)
    BY <1>4, <1>7
  <2>5. AsAsked(files[p].pages, w[m][k])
    BY <1>2, <1>4, <1>7, <2>1, <2>3, <2>4 DEF InFolder
  <2> QED BY <1>2, <1>5, <1>7, <2>1, <2>3, <2>5
<1> QED BY <1>6, <1>7

\* A leaf that writes has made what its intent was to make.
LEMMA LeafDoes ==
    ASSUME TruthInv, WorkInv, phase = "leaf",
           Leaf.tool \notin Readers, Leaf.tool # "verify_output", NEW w, InFolder(w),
           NEW o \in DocDo(Leaf, files, bound, setting), o.end = "ok"
    PROVE  /\ DocWrites(o.result) # {} /\ Range(Paths(o.result)) = DocWrites(o.result)
           /\ DOMAIN o.files = DOMAIN files \cup DocWrites(o.result)
           /\ \A p \in DOMAIN files \ DocWrites(o.result) : o.files[p] = files[p]
           /\ \A k \in DOMAIN Paths(o.result) : AsAsked(o.files[Paths(o.result)[k]].pages, MadeIn(w, bi)[k])
<1>1. AtLeaf /\ bi \in DOMAIN plan /\ li \in DOMAIN DocLeaves(plan[bi])
  BY LeafTruth
<1>2. PICK leaf, it : leaf = Leaf /\ it = plan[bi] /\ leaf = DocLeaves(it)[li]
  BY DEF Leaf, Block
<1>3. Fits(leaf, Locks) /\ GuardedFolder(files, Locks)
  BY <1>1, <1>2, LeafFits DEF TruthInv
<1>4. Spelled(it) /\ \A k \in DOMAIN Inputs(it) : Inputs(it)[k] \notin DOMAIN Newcomers
  <2>1. plan \in Plans /\ it = plan[bi] /\ bi \in DOMAIN plan
    BY <1>1, <1>2 DEF AtLeaf
  <2>2. Spelled(it) /\ Range(Inputs(it)) \cap DOMAIN Newcomers = {}
    BY <2>1, PlansAreSpelled, NewcomersUnread
  <2> QED BY <2>2 DEF Range
<1>5. Inputs(leaf) = Inputs(it) /\ Spelled(leaf) /\ \A b : Makes(leaf, b) = Makes(it, b)
  BY <1>1, <1>2, <1>4, LeafMakes
<1>6. Upto = bi - 1
  BY <1>1, UptoIs DEF AtVerify
<1>7. PICK want : want = [k \in DOMAIN Inputs(it) |-> MeantBy(w, Inputs(it)[k], bi)]
  OBVIOUS
<1>8. want = [k \in DOMAIN Inputs(leaf) |-> want[k]]
  BY <1>5, <1>7
<1>9. \A k \in DOMAIN Inputs(leaf) :
         Inputs(leaf)[k] \in DOMAIN files => AsAsked(files[Inputs(leaf)[k]].pages, want[k])
  BY <1>4, <1>5, <1>6, <1>7, InputAsAsked
<1>10. MadeIn(w, bi) = Makes(leaf, FlattenSeq(want))
  BY <1>2, <1>5, <1>7 DEF MadeIn
<1>11. DoesAsAsked(leaf, files, o, want)
  <2>1. leaf.tool \notin Readers /\ leaf.tool # "verify_output"
    BY <1>2
  <2>2. PICK held, told, tools : held = files /\ told = bound /\ tools = setting
    OBVIOUS
  <2>3. o \in DocDo(leaf, held, told, tools)
    BY <1>2, <2>2
  <2>4. PICK locks : GuardedFolder(held, locks) /\ Fits(leaf, locks)
    BY <1>3, <2>2
  <2>5. \A k \in DOMAIN Inputs(leaf) :
           Inputs(leaf)[k] \in DOMAIN held => AsAsked(held[Inputs(leaf)[k]].pages, want[k])
    BY <1>9, <2>2
  <2>6. DoesAsAsked(leaf, held, o, want)
    BY <1>5, <1>8, <2>1, <2>3, <2>4, <2>5, LeafAsAsked
  <2> QED BY <2>2, <2>6
<1> QED BY <1>10, <1>11 DEF DoesAsAsked, WritesAsAsked

\* A leaf that is the last of its intent to write adds the intent's work to the folder.
LEMMA WorkGrows ==
    ASSUME WorkInv, AtLeaf, UNCHANGED <<plan, origin>>, Upto = bi - 1, Upto' = bi,
           results \in Seq(Range(results)), NEW record, record.intent = bi, results' = Append(results, record),
           phase' \notin {"gate", "check"},
           AtVerify' => bi' = bi /\ DocWrites(record.result) # {} /\ Paths(record.result) = <<bound'[2].output>>,
           DOMAIN files' = DOMAIN files \cup DocWrites(record.result),
           \A p \in DOMAIN files \ DocWrites(record.result) : files'[p] = files[p],
           NEW w, IsWork(w, Upto), InFolder(w),
           DocWrites(record.result) # {} =>
              /\ Range(Paths(record.result)) = DocWrites(record.result)
              /\ \A k \in DOMAIN Paths(record.result) :
                    AsAsked(files'[Paths(record.result)[k]].pages, MadeIn(w, bi)[k])
    PROVE  WorkInv'
<1>1. PICK b \in Nat \ {0} : b = bi /\ Upto = b - 1 /\ Upto' = b
  BY UptoIs
<1>2. PICK W : W = DocWrites(record.result)
  OBVIOUS
<1>3. /\ \A i \in 1..(b - 1) : WrittenBy(i)' = WrittenBy(i)
      /\ W = {} => WrittenBy(b)' = WrittenBy(b)
      /\ W # {} => WrittenBy(b)' = Paths(record.result)
  <2>1. \A i : i # record.intent \/ DocWrites(record.result) = {} => WrittenBy(i)' = WrittenBy(i)
    BY ResultAdded
  <2>2. DocWrites(record.result) # {} => WrittenBy(record.intent)' = Paths(record.result)
    BY ResultAdded
  <2>3. record.intent = b
    BY <1>1
  <2> QED BY <1>2, <2>1, <2>2, <2>3
<1>4. WrittenBy(b) = <<>>
  <2>1. \A k \in DOMAIN results : results[k].intent \in 1..(b - 1) \/ DocWrites(results[k].result) = {}
    BY <1>1 DEF WorkInv
  <2>2. Makers(b) = {}
    <3>1. b \notin 1..(b - 1)
      OBVIOUS
    <3>2. \A k \in DOMAIN results : results[k].intent # b \/ DocWrites(results[k].result) = {}
      BY <2>1, <3>1
    <3> QED BY <3>2 DEF Makers
  <2> QED BY <2>2, WrittenByIs
<1>5. Range(WrittenBy(b)') = W
  <2>1. PICK none : none = <<>>
    OBVIOUS
  <2>2. Range(none) = {}
    BY <2>1 DEF Range
  <2> QED BY <1>2, <1>3, <1>4, <2>1, <2>2
<1> DEFINE v == [i \in 1..b |-> IF i = b THEN MadeIn(w, b) ELSE w[i]]
<1>6. v[b] = MadeIn(w, b) /\ \A i \in 1..(b - 1) : v[i] = w[i]
  OBVIOUS
<1>7. PICK u : u = v
  OBVIOUS
<1>8. u[b] = MadeIn(w, b) /\ \A i \in 1..(b - 1) : u[i] = w[i]
  BY <1>6, <1>7
<1> HIDE DEF v
<1>9. ASSUME NEW i \in 1..b
      PROVE  MadeIn(u, i)' = MadeIn(w, i) /\ u[i] = MadeIn(w, i)
  <2>1. i \in Nat \ {0} /\ \A j \in 1..(i - 1) : j \in 1..(b - 1)
    OBVIOUS
  <2>2. /\ \A j \in 1..(i - 1) : WrittenBy(j)' = WrittenBy(j)
        /\ \A j \in 1..(i - 1) : u[j] = w[j]
    BY <1>3, <1>8, <2>1
  <2>3. MadeIn(u, i)' = MadeIn(w, i)
    BY <2>1, <2>2, MakingKept
  <2>4. i # b => i \in 1..(b - 1) /\ w[i] = MadeIn(w, i)
    BY <1>1 DEF IsWork
  <2> QED BY <1>8, <2>3, <2>4
<1>10. IsWork(u, Upto)'
  BY <1>1, <1>9 DEF IsWork
<1>11. InFolder(u)'
  <2> SUFFICES ASSUME NEW i \in 1..b, NEW k \in DOMAIN WrittenBy(i)',
                      \A j \in (i + 1)..b : WrittenBy(i)'[k] \notin Range(WrittenBy(j)')
               PROVE  WrittenBy(i)'[k] \in DOMAIN files' /\ AsAsked(files'[WrittenBy(i)'[k]].pages, u[i][k])
    BY <1>1 DEF InFolder
  <2>1. CASE i = b
    <3>1. W # {} /\ WrittenBy(b)' = Paths(record.result)
      <4>1. PICK none : none = <<>>
        OBVIOUS
      <4>2. DOMAIN none = {}
        BY <4>1
      <4> QED BY <1>3, <1>4, <2>1, <4>1, <4>2
    <3>2. PICK path : path = Paths(record.result)[k]
      OBVIOUS
    <3>3. path \in Range(Paths(record.result))
      BY <2>1, <3>1, <3>2 DEF Range
    <3>4. path \in DOMAIN files'
      BY <1>2, <3>1, <3>3
    <3>5. AsAsked(files'[path].pages, MadeIn(w, b)[k])
      BY <1>1, <1>2, <2>1, <3>1, <3>2
    <3> QED BY <1>8, <2>1, <3>1, <3>2, <3>4, <3>5
  <2>2. CASE i # b
    <3>1. i \in 1..(b - 1) /\ b \in (i + 1)..b
      BY <2>2
    <3>2. PICK path : path = WrittenBy(i)[k]
      OBVIOUS
    <3>3. WrittenBy(i)' = WrittenBy(i) /\ k \in DOMAIN WrittenBy(i)
      BY <1>3, <3>1
    <3>4. path \notin W
      BY <1>5, <3>1, <3>2, <3>3
    <3>5. \A j \in (i + 1)..(b - 1) : path \notin Range(WrittenBy(j))
      <4> SUFFICES ASSUME NEW j \in (i + 1)..(b - 1) PROVE path \notin Range(WrittenBy(j))
        OBVIOUS
      <4>1. j \in 1..(b - 1) /\ j \in (i + 1)..b
        BY <3>1
      <4>2. WrittenBy(j)' = WrittenBy(j)
        BY <1>3, <4>1
      <4> QED BY <3>2, <3>3, <4>1, <4>2
    <3>6. path \in DOMAIN files /\ AsAsked(files[path].pages, w[i][k])
      BY <1>1, <3>1, <3>2, <3>3, <3>5 DEF InFolder
    <3>7. path \in DOMAIN files' /\ files'[path] = files[path]
      BY <1>2, <3>4, <3>6
    <3> QED BY <1>8, <3>1, <3>2, <3>3, <3>6, <3>7
  <2> QED BY <2>1, <2>2
<1>12. \A k \in DOMAIN results' : results'[k].intent \in 1..b \/ DocWrites(results'[k].result) = {}
  <2>1. \A k \in DOMAIN results : results[k].intent \in 1..(b - 1) \/ DocWrites(results[k].result) = {}
    BY <1>1 DEF WorkInv
  <2>2. PICK n \in Nat : n = Len(results)
    OBVIOUS
  <2>3. /\ DOMAIN results = 1..n /\ DOMAIN results' = 1..(n + 1) /\ results'[n + 1] = record
        /\ \A k \in 1..n : results'[k] = results[k]
    BY <2>2
  <2>4. \A k \in 1..(n + 1) : k = n + 1 \/ k \in 1..n
    OBVIOUS
  <2>5. \A x \in 1..(b - 1) : x \in 1..b
    OBVIOUS
  <2>6. record.intent \in 1..b
    BY <1>1
  <2> QED BY <2>1, <2>3, <2>4, <2>5, <2>6
<1>13. AtVerify' => WrittenBy(bi)' = <<bound'[2].output>>
  <2> SUFFICES ASSUME AtVerify' PROVE WrittenBy(bi)' = <<bound'[2].output>>
    OBVIOUS
  <2>1. b = bi' /\ WrittenBy(b)' = <<bound'[2].output>>
    BY <1>1, <1>2, <1>3
  <2>2. WrittenBy(bi)' = WrittenBy(b)'
    BY <2>1 DEF WrittenBy
  <2> QED BY <2>1, <2>2
<1>14. \A p \in DOMAIN files' : Untouched(p)' =>
          IF p \in DOMAIN origin THEN files'[p] = origin[p] ELSE p \in DOMAIN Newcomers
  <2> SUFFICES ASSUME NEW p \in DOMAIN files', Untouched(p)'
               PROVE  IF p \in DOMAIN origin THEN files'[p] = origin[p] ELSE p \in DOMAIN Newcomers
    OBVIOUS
  <2>1. \A j \in 1..b : p \notin Range(WrittenBy(j)')
    BY <1>1 DEF Untouched
  <2>2. p \notin W
    BY <1>5, <2>1
  <2>3. p \in DOMAIN files /\ files'[p] = files[p]
    BY <1>2, <2>2
  <2>4. Untouched(p)
    <3>1. \A j \in 1..(b - 1) : j \in 1..b
      OBVIOUS
    <3> QED BY <1>1, <1>3, <2>1, <3>1 DEF Untouched
  <2> QED BY <2>3, <2>4 DEF WorkInv
<1> QED BY <1>1, <1>10, <1>11, <1>12, <1>13, <1>14 DEF WorkInv

\* What a leaf that ends well does to the run.
LEMMA RunMoves ==
    ASSUME TruthInv, RunLeaf, exit' # 1
    PROVE  /\ phase = "leaf" /\ AtLeaf /\ bi \in DOMAIN plan /\ li \in 1..Len(Block)
           /\ UNCHANGED <<plan, origin>> /\ Len(Block) \in Nat /\ bi \in Nat \ {0}
           /\ \E o \in DocDo(Leaf, files, bound, setting) :
                /\ o.end = "ok" /\ files' = o.files
                /\ \E record : /\ record.intent = bi /\ record.result = o.result
                               /\ results' = Append(results, record)
                /\ \/ /\ li < Len(Block) /\ li' = li + 1 /\ bound' = Append(bound, o.result)
                      /\ bi' = bi /\ phase' = "leaf" /\ Leaf' = Block[li + 1]
                   \/ li = Len(Block) /\ bi' = bi + 1 /\ phase' = "intent"
<1>1. phase = "leaf" /\ UNCHANGED <<plan, origin>>
  BY DEF RunLeaf, request
<1>2. PICK o \in DocDo(Leaf, files, bound, setting) :
        /\ files' = o.files
        /\ IF o.end = "raised"
           THEN End(1) /\ UNCHANGED <<place, results>>
           ELSE /\ results' = Append(results, [intent |-> bi, leaf |-> li, tool |-> Leaf.tool, result |-> o.result])
                /\ IF o.end = "ok"
                   THEN Advance(o.result) /\ phase' = (IF bi' # bi THEN "intent" ELSE phase) /\ UNCHANGED exit
                   ELSE Finish /\ UNCHANGED place
  BY DEF RunLeaf
<1>3. Ended(o) /\ li \in DOMAIN DocLeaves(plan[bi]) /\ bi \in DOMAIN plan /\ AtLeaf
  BY <1>1, LeafTruth
<1>4. o.end = "ok"
  BY <1>2, <1>3 DEF Ended, End
<1>5. Len(Block) \in Nat /\ li \in 1..Len(Block)
  BY <1>3, PlanLeaves DEF Block
<1>6. PICK record : record = [intent |-> bi, leaf |-> li, tool |-> Leaf.tool, result |-> o.result]
  OBVIOUS
<1>7. record.intent = bi /\ record.result = o.result /\ results' = Append(results, record)
  BY <1>2, <1>4, <1>6
<1>8. Advance(o.result) /\ phase' = (IF bi' # bi THEN "intent" ELSE phase)
  BY <1>2, <1>4
<1>9. bi \in Nat \ {0}
  BY <1>3, UptoIs
<1>10. CASE li < Len(Block)
  <2>1. li' = li + 1 /\ bound' = Append(bound, o.result) /\ bi' = bi
    BY <1>8, <1>10 DEF Advance
  <2>2. phase' = "leaf" /\ Leaf' = Block[li + 1]
    BY <1>1, <1>8, <2>1 DEF Leaf, Block
  <2> QED BY <1>1, <1>2, <1>3, <1>4, <1>5, <1>7, <1>9, <1>10, <2>1, <2>2
<1>11. CASE ~(li < Len(Block))
  <2>1. bi' = bi + 1
    BY <1>8, <1>11 DEF Advance
  <2>2. phase' = "intent"
    BY <1>8, <1>9, <2>1
  <2>3. li = Len(Block)
    <3>1. \A n \in Nat : \A m \in 1..n : ~(m < n) => m = n
      OBVIOUS
    <3> QED BY <3>1, <1>5, <1>11
  <2> QED BY <1>1, <1>2, <1>3, <1>4, <1>5, <1>7, <1>9, <2>1, <2>2, <2>3
<1> QED BY <1>10, <1>11

\* Running a leaf keeps the work, or adds to it.
LEMMA RunWork ==
    ASSUME TruthInv, WorkInv, RunLeaf, exit' # 1
    PROVE  WorkInv'
<1>1. /\ phase = "leaf" /\ AtLeaf /\ bi \in DOMAIN plan /\ li \in 1..Len(Block)
      /\ UNCHANGED <<plan, origin>> /\ Len(Block) \in Nat /\ bi \in Nat \ {0}
  BY RunMoves
<1>0. PICK o \in DocDo(Leaf, files, bound, setting) :
        /\ o.end = "ok" /\ files' = o.files
        /\ \E record : /\ record.intent = bi /\ record.result = o.result
                       /\ results' = Append(results, record)
        /\ \/ /\ li < Len(Block) /\ li' = li + 1 /\ bound' = Append(bound, o.result)
              /\ bi' = bi /\ phase' = "leaf" /\ Leaf' = Block[li + 1]
           \/ li = Len(Block) /\ bi' = bi + 1 /\ phase' = "intent"
  BY RunMoves
<1>2. PICK record : record.intent = bi /\ record.result = o.result /\ results' = Append(results, record)
  BY <1>0
<1>3. PICK leaf, held, told, tools : leaf = Leaf /\ held = files /\ told = bound /\ tools = setting
  OBVIOUS
<1>4. o \in DocDo(leaf, held, told, tools)
  BY <1>3
<1>5. PICK b \in Nat \ {0} : b = bi
  BY <1>1
<1>6. /\ leaf.tool # "verify_output" => ~AtVerify /\ Upto = b - 1
      /\ leaf.tool = "verify_output" => AtVerify /\ Upto = b
  BY <1>1, <1>3, <1>5 DEF AtVerify, Upto
<1>7. PICK next : next = Block[li + 1]
  OBVIOUS
<1>8. /\ li < Len(Block) =>
           \/ leaf.tool = "inspect_document" /\ next.tool # "verify_output"
           \/ leaf.tool = "run_compress" /\ next.tool = "verify_output"
      /\ leaf.tool = "run_compress" => li < Len(Block)
  <2>1. li \in DOMAIN DocLeaves(plan[bi]) /\ leaf = DocLeaves(plan[bi])[li]
    BY <1>1, <1>3 DEF AtLeaf, Leaf, Block
  <2> QED BY <1>1, <1>7, <2>1, BlockOrder DEF Block
<1>9. \/ li < Len(Block) /\ bi' = b /\ phase' = "leaf" /\ Leaf' = next /\ bound' = Append(bound, o.result)
      \/ ~(li < Len(Block)) /\ bi' = b + 1 /\ phase' = "intent" /\ ~AtVerify' /\ Upto' = b
  BY <1>0, <1>1, <1>5, <1>7 DEF AtVerify, Upto
<1>10. results \in Seq(Range(results)) /\ GuardedFolder(files, Locks)
  BY DEF TruthInv
<1>11. /\ \A i : i # b \/ DocWrites(o.result) = {} => WrittenBy(i)' = WrittenBy(i)
       /\ DocWrites(o.result) # {} => WrittenBy(b)' = Paths(o.result)
  BY <1>2, <1>5, <1>10, ResultAdded
<1>12. PICK w : IsWork(w, Upto) /\ InFolder(w)
  BY DEF WorkInv
<1>13. ASSUME b \in 1..Upto \/ DocWrites(o.result) = {}
       PROVE  \A k \in DOMAIN results' : results'[k].intent \in 1..Upto \/ DocWrites(results'[k].result) = {}
  <2>1. PICK n \in Nat : n = Len(results)
    BY <1>10
  <2>2. /\ DOMAIN results = 1..n /\ DOMAIN results' = 1..(n + 1) /\ results'[n + 1] = record
        /\ \A k \in 1..n : results'[k] = results[k]
    BY <1>2, <1>10, <2>1
  <2>3. \A k \in 1..n : results[k].intent \in 1..Upto \/ DocWrites(results[k].result) = {}
    BY <2>2 DEF WorkInv
  <2>4. \A k \in 1..(n + 1) : k = n + 1 \/ k \in 1..n
    OBVIOUS
  <2>5. record.intent \in 1..Upto \/ DocWrites(record.result) = {}
    BY <1>2, <1>5, <1>13
  <2> QED BY <2>2, <2>3, <2>4, <2>5
\* A leaf that only reads.
<1>14. ASSUME leaf.tool \in Readers
       PROVE  WorkInv'
  <2>1. o.files = files /\ DocWrites(o.result) = {}
    BY <1>0, <1>3, <1>4, <1>14, ReadersTell
  <2>2. leaf.tool \notin {"verify_output", "run_compress"}
    BY <1>14 DEF Readers
  <2>3. CASE li < Len(Block)
    <3>1. ~AtVerify' /\ Upto' = Upto
      BY <1>6, <1>8, <1>9, <2>2, <2>3 DEF AtVerify, Upto
    <3>2. \A i : WrittenBy(i)' = WrittenBy(i)
      BY <1>11, <2>1
    <3>3. \A k \in DOMAIN results' : results'[k].intent \in 1..Upto \/ DocWrites(results'[k].result) = {}
      BY <1>13, <2>1
    <3>4. files' = files /\ phase' \notin {"gate", "check"}
      BY <1>0, <1>9, <2>1
    <3> QED BY <1>1, <3>1, <3>2, <3>3, <3>4, WorkStands
  <2>4. CASE ~(li < Len(Block))
    <3>1. Upto = bi - 1 /\ Upto' = bi /\ phase' \notin {"gate", "check"} /\ ~AtVerify'
      BY <1>5, <1>6, <1>9, <2>2, <2>4
    <3>2. DocWrites(record.result) = {} /\ files' = files
      BY <1>0, <1>2, <2>1
    <3> QED BY <1>1, <1>2, <1>10, <1>12, <3>1, <3>2, WorkGrows
  <2> QED BY <2>3, <2>4
\* A verification, which names what has been written already.
<1>15. ASSUME leaf.tool = "verify_output"
       PROVE  WorkInv'
  <2>1. o.files = files /\ DocWrites(o.result) = {bound[2].output} /\ Paths(o.result) = <<bound[2].output>>
    <3>1. NamesAgain(o, held, told)
      BY <1>0, <1>4, <1>15, VerifyNames
    <3> QED BY <1>3, <3>1 DEF NamesAgain
  <2>2. AtVerify /\ Upto = b /\ WrittenBy(bi) = <<bound[2].output>>
    BY <1>6, <1>15 DEF WorkInv
  <2>3. ~(li < Len(Block))
    BY <1>8, <1>15
  <2>4. ~AtVerify' /\ Upto' = Upto /\ phase' \notin {"gate", "check"}
    BY <1>9, <2>2, <2>3
  <2>5. \A i : WrittenBy(i)' = WrittenBy(i)
    <3>1. WrittenBy(b)' = WrittenBy(b)
      BY <1>5, <1>11, <2>1, <2>2
    <3> QED BY <1>11, <3>1
  <2>6. \A k \in DOMAIN results' : results'[k].intent \in 1..Upto \/ DocWrites(results'[k].result) = {}
    BY <1>5, <1>13, <2>2
  <2>7. files' = files
    BY <1>0, <2>1
  <2> QED BY <1>1, <2>4, <2>5, <2>6, <2>7, WorkStands
\* A leaf that writes.
<1>16. ASSUME leaf.tool \notin Readers, leaf.tool # "verify_output"
       PROVE  WorkInv'
  <2>1. PICK D : D = DocWrites(o.result)
    OBVIOUS
  <2>2. /\ DocWrites(o.result) # {} /\ Range(Paths(o.result)) = DocWrites(o.result)
        /\ DOMAIN o.files = DOMAIN files \cup DocWrites(o.result)
        /\ \A p \in DOMAIN files \ DocWrites(o.result) : o.files[p] = files[p]
        /\ \A k \in DOMAIN Paths(o.result) : AsAsked(o.files[Paths(o.result)[k]].pages, MadeIn(w, bi)[k])
    BY <1>0, <1>1, <1>3, <1>12, <1>16, LeafDoes
  <2>3. Upto = bi - 1 /\ Upto' = bi /\ phase' \notin {"gate", "check"}
    <3>1. li < Len(Block) => AtVerify'
      BY <1>8, <1>9, <1>16 DEF AtVerify, Readers
    <3> QED BY <1>5, <1>6, <1>9, <1>16, <3>1 DEF Upto
  <2>4. AtVerify' => bi' = bi /\ Paths(o.result) = <<bound'[2].output>>
    <3> SUFFICES ASSUME AtVerify' PROVE bi' = bi /\ Paths(o.result) = <<bound'[2].output>>
      OBVIOUS
    <3>1. li < Len(Block) /\ bi' = bi /\ Leaf' = next /\ bound' = Append(bound, o.result)
      BY <1>5, <1>9
    <3>2. leaf.tool = "run_compress"
      BY <1>8, <1>16, <3>1 DEF Readers
    <3>3. li = 2
      <4>1. li \in DOMAIN DocLeaves(plan[bi]) /\ leaf = DocLeaves(plan[bi])[li]
        BY <1>1, <1>3 DEF AtLeaf, Leaf, Block
      <4> QED BY <1>1, <3>2, <4>1, BlockShape
    <3>4. bound'[2] = o.result
      <4>1. bound \in Seq(Range(bound)) /\ Len(bound) = 1
        BY <1>1, <3>3 DEF TruthInv, LeafIsTold
      <4>2. PICK n \in Nat : n = Len(bound) /\ n + 1 = 2
        BY <4>1
      <4>3. Append(bound, o.result)[n + 1] = o.result
        BY <4>1, <4>2, AppendedSeq
      <4> QED BY <3>1, <4>2, <4>3
    <3>5. Paths(o.result) = <<o.result.output>>
      <4>1. o \in Compress(leaf, held, FALSE, tools)
        BY <1>4, <3>2 DEF DocDo, Handle
      <4>2. \A h : o \notin Raises(h)
        BY <1>0, RaisesEnd
      <4>3. \E out, kept, new : o \in Returns(new, CompressTells(leaf, out, kept, tools))
        BY <4>1, <4>2, CompressEnds
      <4>4. PICK out, kept : o.result = CompressTells(leaf, out, kept, tools)
        BY <4>3, ReturnsIs
      <4> QED BY <4>4 DEF CompressTells, Paths
    <3> QED BY <3>1, <3>4, <3>5
  <2> QED BY <1>0, <1>1, <1>2, <1>10, <1>12, <2>2, <2>3, <2>4, WorkGrows
<1> QED BY <1>14, <1>15, <1>16

\* As long as nothing has failed, the folder holds the work of the intents so far.
LEMMA StepWork ==
    ASSUME TruthInv, exit # 1 => WorkInv, GateInv', [Next]_vars, exit' # 1
    PROVE  WorkInv'
<1>1. CASE UNCHANGED vars
  <2>1. UNCHANGED <<plan, origin, files, phase, bi, li, bound, results, exit>>
    BY <1>1 DEF vars, request, place
  <2>2. WorkInv
    BY <2>1
  <2>3. AtLeaf /\ AtVerify' = AtVerify /\ Upto' = Upto
    BY <2>1 DEF TruthInv, GateInv, AtVerify, Upto, Leaf, Block
  <2>4. \A i : WrittenBy(i)' = WrittenBy(i)
    BY <2>1 DEF WrittenBy
  <2>5. \A k \in DOMAIN results' : results'[k].intent \in 1..Upto \/ DocWrites(results'[k].result) = {}
    BY <2>1, <2>2 DEF WorkInv
  <2>6. phase' \in {"gate", "check"} => bi' = 1
    BY <2>1, <2>2 DEF WorkInv
  <2> QED BY <2>1, <2>2, <2>3, <2>4, <2>5, <2>6, WorkStands
<1>2. ASSUME ~UNCHANGED vars
      PROVE  WorkInv'
  <2>0. Next
    BY <1>2
  <2>1. phase # "over"
    BY <2>0 DEF Next, PreviewLeaf, PreviewEnds, AskReplace, NobodyToAsk, GateOpen, Check, ShowIntent,
                PlanDone, RunLeaf, Put
  <2>2. WorkInv /\ AtLeaf /\ bi \in Nat \ {0}
    BY <2>1, UptoIs DEF TruthInv, GateInv, NoExit
  <2>3. CASE PreviewLeaf \/ PreviewEnds
    <3>1. phase = "preview" /\ UNCHANGED <<plan, origin, files, results>>
      BY <2>3 DEF PreviewLeaf, PreviewEnds, request
    <3>2. phase' = "preview" \/ (phase' = "gate" /\ bi' = 1)
      BY <2>3, <3>1 DEF PreviewLeaf, PreviewEnds, ToGate
    <3>3. Upto' = Upto /\ ~AtVerify'
      BY <3>1, <3>2 DEF Upto, AtVerify
    <3> QED BY <2>2, <3>1, <3>2, <3>3, QuietWork
  <2>4. CASE NobodyToAsk \/ GateOpen \/ Check \/ PlanDone \/ (\E yes \in BOOLEAN : AskReplace(yes))
             \/ (\E ok \in BOOLEAN : ShowIntent(ok))
    <3>1. phase \in {"gate", "check", "intent"} /\ UNCHANGED <<plan, origin, files, results, bi, li>>
      BY <2>4 DEF NobodyToAsk, GateOpen, Check, PlanDone, AskReplace, ShowIntent, request, place
    <3>2. /\ phase' \in {"gate", "check", "intent", "leaf", "over"}
          /\ phase' \in {"gate", "check"} => phase \in {"gate", "check"}
      BY <2>4 DEF NobodyToAsk, GateOpen, Check, PlanDone, AskReplace, ShowIntent, End, Finish
    <3>3. phase' \in {"gate", "check"} => bi' = 1
      BY <2>2, <3>1, <3>2 DEF WorkInv
    <3>4. ~AtVerify'
      <4> SUFFICES ASSUME phase' = "leaf" PROVE Leaf'.tool # "verify_output"
        BY DEF AtVerify
      <4>1. li = 1 /\ Leaf' = Leaf /\ bi' = bi
        BY <3>1 DEF TruthInv, Leaf, Block
      <4>2. bi \in DOMAIN plan
        BY <3>1, <4>1 DEF GateInv
      <4>3. li \in DOMAIN DocLeaves(plan[bi]) /\ Leaf = DocLeaves(plan[bi])[li]
        BY <2>2, <4>2 DEF AtLeaf, Leaf, Block
      <4>4. Leaf.tool = "verify_output" => li = 3
        BY <2>2, <4>2, <4>3, BlockShape
      <4> QED BY <4>1, <4>4
    <3>5. Upto' = Upto
      BY <3>1, <3>2, <3>4 DEF Upto, AtVerify
    <3> QED BY <2>2, <3>1, <3>3, <3>4, <3>5, QuietWork
  <2>5. CASE RunLeaf
    BY <2>2, <2>5, RunWork
  <2>6. CASE \E p \in DOMAIN Newcomers : Put(p)
    BY <2>2, <2>6, PutWork
  <2> QED BY <2>0, <2>3, <2>4, <2>5, <2>6 DEF Next
<1> QED BY <1>1, <1>2

PagesInv == TruthInv /\ (exit # 1 => WorkInv)

\* The invariant of the whole run: the work is in the folder unless a leaf failed.
LEMMA PagesAlways == Spec => []PagesInv
<1>1. Init => PagesInv
  BY InitTruth, InitWork DEF PagesInv
<1>2. PagesInv /\ [Next]_vars => PagesInv'
  <2> SUFFICES ASSUME PagesInv, [Next]_vars PROVE PagesInv'
    OBVIOUS
  <2>1. TruthInv /\ GateInv
    BY DEF PagesInv, TruthInv
  <2>2. GateInv' /\ TruthInv'
    BY <2>1, StepHolds, StepTruth
  <2>3. exit' # 1 => WorkInv'
    BY <2>1, <2>2, StepWork DEF PagesInv
  <2> QED BY <2>2, <2>3 DEF PagesInv
<1> QED BY <1>1, <1>2, PTL DEF Spec

---------------------------------------------------------------------------
\* What was wanted of each intent is what its maker makes of it.

\* What an intent makes depends on what the ones before it were to make.
LEMMA MadeAlike ==
    ASSUME NEW i \in Nat \ {0}, NEW w, NEW v, \A j \in 1..(i - 1) : v[j] = w[j]
    PROVE  MadeIn(v, i) = MadeIn(w, i)
<1>1. ASSUME NEW p
      PROVE  MeantBy(v, p, i) = MeantBy(w, p, i)
  <2>1. PICK m \in 0..(i - 1) : m = MakerBy(p, i)
    BY MakerIs
  <2>2. m # 0 => v[m] = w[m]
    OBVIOUS
  <2> QED BY <2>1, <2>2 DEF MeantBy
<1> QED BY <1>1 DEF MadeIn

IsWanted(f) == f = [i \in DOMAIN plan |-> MadeIn(f, i)]

\* Wanted, with its parts named.
LEMMA WantedIs == Wanted = CHOOSE f : IsWanted(f)
  BY DEF Wanted, IsWanted, MadeIn, MeantBy, MakerBy, Inputs

\* What was wanted of the plan is the work of its intents: there is only one.
LEMMA WantedIsWork ==
    ASSUME AtLeaf, NEW w, IsWork(w, Len(plan)), NEW i \in DOMAIN plan
    PROVE  Wanted[i] = w[i]
<1>1. PICK n \in Nat : n = Len(plan) /\ DOMAIN plan = 1..n
  BY PlanIsSeq
<1>2. \A j \in 1..n : w[j] = MadeIn(w, j)
  BY <1>1 DEF IsWork
<1>3. PICK f : f = [j \in 1..n |-> w[j]]
  OBVIOUS
<1>4. IsWanted(f)
  <2>1. ASSUME NEW j \in 1..n
        PROVE  MadeIn(f, j) = w[j]
    <3>1. j \in Nat \ {0} /\ \A m \in 1..(j - 1) : m \in 1..n
      BY <1>1
    <3>2. \A m \in 1..(j - 1) : f[m] = w[m]
      BY <1>3, <3>1
    <3>3. MadeIn(f, j) = MadeIn(w, j)
      BY <3>1, <3>2, MadeAlike
    <3> QED BY <1>2, <3>3
  <2> QED BY <1>1, <1>3, <2>1 DEF IsWanted
<1>5. PICK g : g = Wanted /\ IsWanted(g)
  <2>1. \E g : IsWanted(g)
    BY <1>4
  <2>2. IsWanted(CHOOSE g : IsWanted(g))
    BY <2>1
  <2> QED BY <2>2, WantedIs
<1>6. \A j \in 1..n : g[j] = MadeIn(g, j)
  BY <1>1, <1>5 DEF IsWanted
<1> DEFINE Apart == {j \in 1..n : g[j] # w[j]}
<1>7. Apart = {}
  <2> SUFFICES ASSUME Apart # {} PROVE FALSE
    OBVIOUS
  <2>1. PICK j \in Apart : \A m \in Apart : j <= m
    <3>1. Apart \in SUBSET Nat
      OBVIOUS
    <3> HIDE DEF Apart
    <3> QED BY <3>1, LeastNumber
  <2>2. j \in Nat \ {0} /\ j \in 1..n /\ g[j] # w[j]
    OBVIOUS
  <2>3. \A m \in 1..(j - 1) : g[m] = w[m]
    <3> SUFFICES ASSUME NEW m \in 1..(j - 1), g[m] # w[m] PROVE FALSE
      OBVIOUS
    <3>1. m \in Apart /\ ~(j <= m)
      BY <2>2
    <3> QED BY <2>1, <3>1
  <2> HIDE DEF Apart
  <2>4. MadeIn(g, j) = MadeIn(w, j)
    BY <2>2, <2>3, MadeAlike
  <2> QED BY <1>2, <1>6, <2>2, <2>4
<1> QED BY <1>1, <1>5, <1>7

\* A run that ends well has made of every document what its plan asks, for every
\* intent whose output no later intent replaced: the pages that were named, in
\* their order, turned and stamped as often as asked, through chains, moved
\* outputs, OCR, compression and files added meanwhile (_engine.py:58-83,
\* 280-340; steps.py:137-342).
THEOREM PagesStayAsAsked == Spec => []PagesAsAsked
<1>1. PagesInv => PagesAsAsked
  <2> SUFFICES ASSUME PagesInv, exit = 0, PastLast, NEW i \in DOMAIN plan, NEW k \in DOMAIN WrittenBy(i),
                      \A j \in (i + 1)..Len(plan) : WrittenBy(i)[k] \notin Range(WrittenBy(j))
               PROVE  SamePages(files[WrittenBy(i)[k]].pages, Wanted[i][k])
    BY DEF PagesAsAsked
  <2>1. AtLeaf /\ phase = "over" /\ WorkInv
    BY DEF PagesInv, TruthInv, GateInv, NoExit
  <2>2. PICK n \in Nat : n = Len(plan) /\ DOMAIN plan = 1..n
    BY <2>1, PlanIsSeq
  <2>3. Upto = n
    BY <2>1, <2>2 DEF AtLeaf, PastLast, Upto, AtVerify
  <2>4. PICK w : IsWork(w, Upto) /\ InFolder(w)
    BY <2>1 DEF WorkInv
  <2>5. AsAsked(files[WrittenBy(i)[k]].pages, w[i][k])
    BY <2>2, <2>3, <2>4 DEF InFolder
  <2>6. Wanted[i] = w[i]
    BY <2>1, <2>2, <2>3, <2>4, WantedIsWork
  <2> QED BY <2>5, <2>6 DEF AsAsked
<1> QED BY <1>1, PagesAlways, PTL

=============================================================================
