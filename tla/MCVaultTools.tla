---------------------------- MODULE MCVaultTools ----------------------------
(* A small instance of VaultTools for TLC: a note with frontmatter, a section *)
(* with one nested in it and manual notes, and a request of each kind.        *)
EXTENDS VaultTools

CONSTANTS c1, c2

CallSymmetry == Permutations({c1, c2})

MCWords == {"", "---", "Manual Notes", "A", "Sub", "New", " New", "p", "a", "s", "m", "b", "c", "x", "y", "n", "q"}
MCTrimmed == [w \in MCWords |-> IF w = " New" THEN "New" ELSE w]
A == Heading(2, "A")
Sub == Heading(3, "Sub")
Note == <<Fence, <<"p">>, Fence, A, <<"a">>, Sub, <<"s">>, ManualHeading, <<"m">>, Blank>>
\* The same without a closing fence or manual notes; a heading twice.
Plain == <<Fence, A, <<"a">>, A, <<"b">>, Blank>>
Persons == {Note, Plain}

Upsert(content, preserve, resolve, dryRun) ==
  [tool |-> "upsert_note", content |-> content, preserve |-> preserve, resolve |-> resolve, dryRun |-> dryRun]
Session(content, preserve) ==
  [tool |-> "upsert_session_note", content |-> content, preserve |-> preserve, dryRun |-> FALSE]
Edit(edits) == [tool |-> "edit_note", edits |-> edits, dryRun |-> FALSE]
Literal(old, new, pick) == [form |-> "literal", old |-> old, new |-> new, pick |-> pick]
Section(heading, body, deep, create, place, anchor) ==
  [form |-> "section", heading |-> heading, level |-> 2, body |-> body, deep |-> deep,
   create |-> create, place |-> place, anchor |-> anchor]

AllRequests ==
  { Session(<<<<"c">>>>, TRUE),
    Upsert(<<A, <<"c">>, Blank, Blank>>, FALSE, TRUE, FALSE),
    Upsert(<<<<"c">>>>, TRUE, FALSE, TRUE),
    Edit(<<Section("A", <<Blank, <<"x">>>>, FALSE, FALSE, "end", "")>>),
    Edit(<<Section("A", <<<<"x">>, Sub, <<"y">>>>, TRUE, TRUE, "end", "")>>),
    Edit(<<Section("New", <<<<"n">>>>, FALSE, TRUE, "after", "A")>>),
    Edit(<<Section("New", <<<<"n">>>>, FALSE, TRUE, "before", "Sub")>>),
    Edit(<<Section(" New", <<<<"n">>>>, FALSE, TRUE, "end", "")>>),
    Edit(<<Literal(<<<<"a">>>>, <<<<"b">>>>, <<"only">>), Literal(<<<<"b">>>>, EmptyText, <<"all">>)>>),
    Edit(<<Literal(<<Fence>>, <<<<"q">>>>, <<"nth", 2>>)>>),
    Edit(<<Literal(<<<<"b">>>>, <<<<"a">>>>, <<"nth", 1>>)>>) }
=============================================================================
