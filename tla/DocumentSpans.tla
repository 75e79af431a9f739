--------------------------- MODULE DocumentSpans ---------------------------
(***************************************************************************)
(* How the text of a research document and its citable spans are extracted *)
(* (textSpans and the extract functions of                                 *)
(* app/server/service/finance/document_service.go and web_document.go).    *)
(* A character is NL, BL (other white space) or anything else; offsets     *)
(* count characters from 0 and end after the last one.  A PDF gives pages, *)
(* a DOCX or a web page gives paragraphs; reading the formats is external. *)
(***************************************************************************)
EXTENDS Naturals, Sequences, SequencesExt, FiniteSetsExt

CONSTANTS
    NL, BL, Chars,  \* newline, blank, other characters
    MaxPart,        \* length of a page or paragraph (a bound)
    MaxParts        \* pages or paragraphs of a document (a bound)

ASSUME SpansAssumption == MaxPart \in Nat /\ MaxParts \in Nat

VARIABLE extraction  \* of one document: parts read, text and spans so far

esVars == extraction

Texts == SeqOf({NL, BL} \cup Chars, MaxPart)
White(ch) == ch \in {NL, BL}

(* strings.TrimSpace *)
Inked(t) == {i \in 1..Len(t) : ~White(t[i])}
Trim(t) == IF Inked(t) = {} THEN <<>> ELSE SubSeq(t, Min(Inked(t)), Max(Inked(t)))

Slice(t, span) == SubSeq(t, span.start + 1, span.end)

----------------------------------------------------------------------------
(* textSpans: two or more newlines separate paragraphs; a paragraph loses  *)
(* the newlines around it, and is left out when only white space remains.  *)
InBreak(t, i) ==
    t[i] = NL /\ (\/ i > 1 /\ t[i - 1] = NL
                  \/ i < Len(t) /\ t[i + 1] = NL)

Block(t, a, b) ==
    /\ \A i \in a..b : ~InBreak(t, i)
    /\ a > 1 => InBreak(t, a - 1)
    /\ b < Len(t) => InBreak(t, b + 1)

NoNewline(t, a, b) == {i \in a..b : t[i] # NL}

TextSpans(t) ==
    {[start |-> Min(NoNewline(t, b[1], b[2])) - 1, end |-> Max(NoNewline(t, b[1], b[2])),
      text |-> Trim(SubSeq(t, b[1], b[2]))] :
        b \in {c \in (1..Len(t)) \X (1..Len(t)) :
                  c[1] <= c[2] /\ Block(t, c[1], c[2]) /\ Trim(SubSeq(t, c[1], c[2])) # <<>>}}

(* Mutant: the spans of a page keep their offsets in the page. *)
ShiftedNot(spans, n) == spans

Shifted(spans, n) ==
    {[start |-> s.start + n, end |-> s.end + n, text |-> s.text] : s \in spans}

----------------------------------------------------------------------------
(* Text with its spans is added to what there is, a gap between the two.   *)
Joined(doc, gap, text, spans) ==
    LET before == IF doc.text = <<>> THEN <<>> ELSE doc.text \o gap
    IN [text |-> before \o text, spans |-> doc.spans \cup Shifted(spans, Len(before))]

Empty == [text |-> <<>>, spans |-> {}]

SpansInit ==
    \E kind \in {"pdf", "docx", "html", "txt"} :
        extraction = [kind |-> kind, parts |-> 0, doc |-> Empty, done |-> FALSE]

Reading(kinds) ==
    /\ ~extraction.done /\ extraction.kind \in kinds /\ extraction.parts < MaxParts

Keep(doc) == extraction' = [extraction EXCEPT !.parts = @ + 1, !.doc = doc]

(* A PDF: the trimmed text of each page that has some, joined by newlines. *)
ReadPage(page) ==
    LET t == Trim(page) IN
    /\ Reading({"pdf"})
    /\ Keep(IF t = <<>> THEN extraction.doc ELSE Joined(extraction.doc, <<NL>>, t, TextSpans(t)))

(* A DOCX or a web page: each paragraph is one span, joined by two.        *)
Whole(t) == [start |-> 0, end |-> Len(t), text |-> t]

ReadParagraph(paragraph) ==
    LET t == Trim(paragraph) IN
    /\ Reading({"docx", "html"})
    /\ Keep(IF t = <<>> THEN extraction.doc ELSE Joined(extraction.doc, <<NL, NL>>, t, {Whole(t)}))

(* A TXT, as it is; one without text fails. *)
ReadText(text) ==
    /\ Reading({"txt"}) /\ extraction.parts = 0
    /\ Trim(text) # <<>>
    /\ Keep([text |-> text, spans |-> TextSpans(text)])

(* The text of a PDF or a web page is trimmed once more, after its spans   *)
(* were cut; a document without spans fails.                               *)
Finish ==
    /\ ~extraction.done
    /\ extraction.doc.spans # {}
    /\ extraction' = [extraction EXCEPT !.done = TRUE,
                         !.doc.text = IF extraction.kind \in {"pdf", "html"} THEN Trim(@) ELSE @]

SpansNext ==
    \/ \E part \in Texts : ReadPage(part) \/ ReadParagraph(part) \/ ReadText(part)
    \/ Finish

SpansSpec == SpansInit /\ [][SpansNext]_esVars

----------------------------------------------------------------------------
(* A citation can be checked against the stored text: the text between the *)
(* offsets of a span is the text of the span up to white space around it,  *)
(* spans do not overlap, and no character of the document is out of reach  *)
(* of them.                                                                *)
SpansPointIntoText ==
    LET doc == extraction.doc IN
    /\ \A s \in doc.spans :
          s.end <= Len(doc.text) /\ s.start < s.end /\ Trim(Slice(doc.text, s)) = s.text
    /\ \A s, r \in doc.spans : s = r \/ s.end <= r.start \/ r.end <= s.start
    /\ \A i \in Inked(doc.text) : \E s \in doc.spans : s.start < i /\ i <= s.end
============================================================================
