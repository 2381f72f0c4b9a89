--------------------------- MODULE GuardedRegister ---------------------------
(***************************************************************************)
(* What the write tools promise of one entry, with no server, child        *)
(* process, request or retry in sight: the entry is a register that keeps  *)
(* its history, a call observes it once, takes effect at most once and     *)
(* only on what it observed, at any time after, even after its answer, and *)
(* is answered once, truly.  CouchWrites implements it.                    *)
(***************************************************************************)
EXTENDS Integers, Sequences

CONSTANTS Calls, Device, Texts, MaxRev

VARIABLES
  log,  \* the entry's history, the newest revision last
  op    \* each call: what it is to do, what it observed, what it was answered

Rev == Len(log)

Init ==
  /\ log = << >>
  /\ op \in [Calls -> [kind : {"none"}, guarded : {FALSE}, base : {0}, text : Texts,
                       said : {"nothing"}]]

Becomes(r) == Rev < MaxRev /\ log' = Append(log, r)

\* Another device changes the entry.
Foreign ==
  /\ \E r \in [text : Texts, deleted : BOOLEAN, by : {Device}] : Becomes(r)
  /\ UNCHANGED op

\* A call observes the entry.  A write whose read failed has nothing to guard on.
Observe(c, kind, guarded) ==
  /\ op[c].kind = "none" /\ op[c].said = "nothing"
  /\ kind = "delete" => guarded /\ Rev > 0
  /\ op' = [op EXCEPT ![c] = [kind |-> kind, guarded |-> guarded, text |-> op[c].text,
                              base |-> IF guarded THEN Rev ELSE 0, said |-> "nothing"]]
  /\ UNCHANGED log

\* The compare-and-swap.
Swap(c) ==
  /\ op[c].kind # "none" /\ op[c].said # "refused"
  /\ op[c].guarded => op[c].base = Rev
  /\ Becomes(IF op[c].kind = "delete"
             THEN [log[Rev] EXCEPT !.deleted = TRUE, !.by = c]
             ELSE [text |-> op[c].text, deleted |-> FALSE, by |-> c])
  /\ UNCHANGED op

\* What may be said of a call: that it was done, when a delete was the call's
\* own and a write's text is in the history since; that there was nothing to
\* do; that it was refused, which is final; or nothing sure.
True(c, said) ==
  \/ said = "done" /\ op[c].kind = "delete" /\ op[c].base < Rev /\ log[op[c].base + 1].by = c
  \/ said = "done" /\ op[c].kind = "write" /\ \E r \in op[c].base + 1 .. Rev : log[r].text = op[c].text
  \/ said = "already" /\ op[c].kind = "none" /\ Rev > 0 /\ log[Rev].deleted
  \/ said = "refused" /\ op[c].kind # "none" /\ \A r \in 1 .. Rev : log[r].by # c
  \/ said = "unsure"

Say(c, said) ==
  /\ op[c].said = "nothing"
  /\ True(c, said)
  /\ op' = [op EXCEPT ![c] = [@ EXCEPT !.said = said]]
  /\ UNCHANGED log

Next ==
  \/ Foreign
  \/ \E c \in Calls :
       \/ \E kind \in {"write", "delete"}, guarded \in BOOLEAN : Observe(c, kind, guarded)
       \/ Swap(c)
       \/ \E said \in {"done", "already", "refused", "unsure"} : Say(c, said)

Spec == Init /\ [][Next]_<<log, op>>
=============================================================================
