------------------------------ MODULE NoteText ------------------------------
(***************************************************************************)
(* What the write tools do to the text of a note: the edits of edit_note   *)
(* (server/src/edits.rs), the sections they address (core/src/text.rs) and *)
(* the manual notes an upsert keeps (server/src/tools.rs).                 *)
(*                                                                         *)
(* A text is the sequence of lines that splitting it at '\n' gives, so a   *)
(* text that ends with a newline ends with Blank, and the empty text is    *)
(* <<Blank>>.  A heading is <<"#", level, title>>, written as the tools    *)
(* write it, one blank after its marks; any other line is a tuple of one   *)
(* or two names.  What a literal edit matches is a run of whole lines.     *)
(***************************************************************************)
EXTENDS Naturals, Sequences, FiniteSets, SequencesExt, FiniteSetsExt

CONSTANTS Words,      \* what lines and titles are made of
          Trimmed     \* Trimmed[w] is w without the blanks at its edges

ASSUME TextAssumption ==
  /\ {"", "---", "Manual Notes"} \subseteq Words
  /\ Trimmed \in [Words -> Words] /\ \A w \in Words : Trimmed[Trimmed[w]] = Trimmed[w]
  /\ Trimmed["Manual Notes"] = "Manual Notes"

Blank == <<"">>
Fence == <<"---">>
Heading(level, title) == <<"#", level, title>>
EmptyText == <<Blank>>

IsHeading(line) == Len(line) = 3
Level(line) == line[2]
Title(line) == line[3]

\* A title is read without the blanks around it.
Titles == {w \in Words : Trimmed[w] = w}

\* The lines and the texts there are.
Lines == ({"#"} \X (1 .. 6) \X Titles) \cup {<<a>> : a \in Words} \cup (Words \X Words)
NoteTexts == Seq(Lines) \ {<<>>}

From(text, i) == SubSeq(text, i, Len(text))
Upto(text, i) == SubSeq(text, 1, i)

\* Without the blank lines at its end, at its edges.
TrimEnd(text) ==
  LET full == {i \in DOMAIN text : text[i] # Blank}
  IN  IF full = {} THEN <<>> ELSE Upto(text, Max(full))

TrimmedBlock(text) ==
  LET full == {i \in DOMAIN text : text[i] # Blank}
  IN  IF full = {} THEN <<>> ELSE SubSeq(text, Min(full), Max(full))

----------------------------------------------------------------------------
(* Sections.                                                               *)

Headings(text) == {i \in DOMAIN text : IsHeading(text[i])}

\* The range note_outline shows, used for a write.
SectionEndNested(text, i, deep) ==
  LET stops == {j \in Headings(text) : j > i /\ Level(text[j]) <= Level(text[i])}
  IN  IF stops = {} THEN Len(text) ELSE Min(stops) - 1

\* The last line of the section that starts at i.  Nested subsections are in it
\* only when `deep`.
SectionEnd(text, i, deep) ==
  LET stops == {j \in Headings(text) : j > i /\ (deep => Level(text[j]) <= Level(text[i]))}
  IN  IF stops = {} THEN Len(text) ELSE Min(stops) - 1

Titled(text, title) == {i \in Headings(text) : Title(text[i]) = title}

----------------------------------------------------------------------------
(* Edits.  An edit is a literal or a section:                              *)
(*   [form |-> "literal", old, new,                                        *)
(*    pick : {<<"only">>, <<"all">>} \cup {<<"nth", n>> : n \in Nat}]        *)
(*   [form |-> "section", heading, level, body, deep, create,              *)
(*    place : {"end", "after", "before"}, anchor].                         *)
(* Each takes a text to the set of texts it can become: empty if refused.  *)

Edits ==
  [form : {"literal"}, old : NoteTexts, new : NoteTexts,
   pick : {<<"only">>, <<"all">>} \cup {"nth"} \X (Nat \ {0})] \cup
  [form : {"section"}, heading : Words, level : 1 .. 6, body : NoteTexts, deep : BOOLEAN,
   create : BOOLEAN, place : {"end", "after", "before"}, anchor : Words]

\* Non-overlapping occurrences, scanning from the left.
Occurrences(text, old) ==
  LET n == Len(old)
      Here(i) == i + n - 1 <= Len(text) /\ SubSeq(text, i, i + n - 1) = old
      found[i \in 0 .. Len(text)] ==
        IF i = 0 THEN {}
        ELSE found[i - 1] \cup {j \in {i} : Here(i) /\ \A k \in found[i - 1] : k + n <= i}
  IN  found[Len(text)]

Replaced(text, i, n, new) == Upto(text, i - 1) \o new \o From(text, i + n)

\* replace(old, new) at every position of `at`, from the last to the first.
ReplacedAll(text, at, n, new) ==
  MapThenFoldSet(LAMBDA i, t : Replaced(t, i, n, new), text, LAMBDA i : i, Min, at)

Nth(found, n) == {i \in found : Cardinality({j \in found : j < i}) = n - 1}

\* `old` must not be empty, must occur, and once unless the edit says which.
ApplyLiteral(text, e) ==
  LET found == IF e.old = EmptyText THEN {} ELSE Occurrences(text, e.old)
      AtEach(at) == {Replaced(text, i, Len(e.old), e.new) : i \in at}
  IN  CASE e.pick = <<"only">> -> AtEach({i \in found : found = {i}})
        [] e.pick = <<"all">> -> {ReplacedAll(text, at, Len(e.old), e.new) : at \in {found} \ {{}}}
        [] OTHER -> AtEach(Nth(found, e.pick[2]))

SectionBody(e) == LET body == TrimmedBlock(e.body) IN IF body = <<>> THEN <<>> ELSE <<Blank>> \o body

\* The old body stays below the new one.
InsertSection(text, e, i) == Upto(text, i) \o SectionBody(e) \o From(text, i + 1)

UpdateSection(text, e, i) ==
  Upto(text, i) \o SectionBody(e) \o From(text, SectionEnd(text, i, e.deep) + 1)

\* One creation path for the three placements: spliced in after the line `at`.  The
\* heading is written without its blanks, while a section and an anchor are looked
\* for by the heading as it was asked for.
CreateSection(text, e, at) ==
  LET before == TrimEnd(Upto(text, at))
      gap == IF before = <<>> THEN <<>> ELSE <<Blank>>
      section == <<Heading(e.level, Trimmed[e.heading])>> \o SectionBody(e)
  IN  TrimEnd(before \o gap \o section \o <<Blank>> \o From(text, at + 1)) \o <<Blank>>

\* The first heading with the anchor's title.
Anchors(text, e) == LET found == Titled(text, e.anchor) IN {i \in found : i = Min(found)}

\* After which line a section is created; nowhere without its anchor.
Places(text, e) ==
  CASE e.place = "end" -> {Len(text)}
    [] e.place = "after" -> {SectionEnd(text, i, e.deep) : i \in Anchors(text, e)}
    [] e.place = "before" -> {i - 1 : i \in Anchors(text, e)}

\* Refused for a heading that is there twice, or not there and not to be created.
ApplySection(text, e) ==
  LET matches == Titled(text, e.heading)
  IN  IF matches = {}
      THEN {CreateSection(text, e, at) : at \in {p \in Places(text, e) : e.create}}
      ELSE {UpdateSection(text, e, i) : i \in {j \in matches : matches = {j}}}

HasFences(text) == text[1] = Fence /\ \E i \in DOMAIN text : i > 1 /\ text[i] = Fence

ApplyEdit(text, e) == IF e.form = "literal" THEN ApplyLiteral(text, e) ELSE ApplySection(text, e)

\* Every edit in order against the evolving text, or none; never a batch that
\* loses the frontmatter.
ApplyEdits(text, edits) ==
  LET Each(texts, e) == UNION {ApplyEdit(t, e) : t \in texts}
  IN  {t \in FoldLeft(Each, {text}, edits) : HasFences(text) => HasFences(t)}

----------------------------------------------------------------------------
(* Upserts.                                                                *)

ManualHeading == Heading(2, "Manual Notes")

\* From the first "\n## Manual Notes\n": the heading neither first nor last.
ManualAt(text) == {i \in DOMAIN text : i > 1 /\ i < Len(text) /\ text[i] = ManualHeading}
ManualNotes(text) == IF ManualAt(text) = {} THEN <<>> ELSE TrimEnd(From(text, Min(ManualAt(text))))

Finalized(content) == LET t == TrimEnd(content) IN (IF t = <<>> THEN <<Blank>> ELSE t) \o <<Blank>>

\* existing is a set of at most one text.
Merged(content, existing, preserve) ==
  LET new == Finalized(content)
      kept == {ManualNotes(t) : t \in existing} \ {<<>>}
  IN  IF preserve /\ kept # {} /\ ManualAt(new) = {}
      THEN new \o (CHOOSE notes \in kept : TRUE) \o <<Blank>>
      ELSE new
=============================================================================
