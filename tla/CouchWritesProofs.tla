-------------------------- MODULE CouchWritesProofs --------------------------
(***************************************************************************)
(* Proofs about CouchWrites, for every set of calls, contents and faults   *)
(* and every bound on the revisions.                                       *)
(***************************************************************************)
EXTENDS CouchWrites, TLAPS

(***************************************************************************)
(* The inductive invariant.  A request is issued under the guard of its    *)
(* call, so an attempt that passed its check did at the call's base; a     *)
(* revision by a call belongs to one of its answered attempts.             *)
(***************************************************************************)

\* The requests a call may have sent when it is about to send another.
Sent(c) == (IF call[c].second THEN 2 ELSE 0) + (IF call[c].again THEN 1 ELSE 0)

Stages(c) ==
  /\ call[c].at = "idle" => /\ call[c].tries = 0 /\ ~call[c].again /\ ~call[c].second
                            /\ ~call[c].unknown /\ call[c].kind = "none"
  /\ call[c].kind = "none" => call[c].tries = 0
  /\ call[c].tries <= Sent(c) + 1
  /\ call[c].at = "send" => call[c].tries <= Sent(c)
  /\ call[c].at = "wait" => call[c].tries >= 1
  /\ ~call[c].unknown => ~call[c].again /\ ~call[c].second
  /\ call[c].at \in {"send", "wait"} => call[c].kind \in {"write", "delete"}
  /\ call[c].kind = "delete" => call[c].guard = "revision"
  /\ call[c].result # "none" <=> call[c].at = "done"

Guards(c) ==
  /\ call[c].base <= Rev
  /\ call[c].guard = "none" => call[c].base = 0
  /\ call[c].guard = "revision" => call[c].base > 0
  /\ \A n \in Try :
       /\ n > call[c].tries => attempt[c][n].at = "none"
       /\ attempt[c][n].at = "checked" =>
            /\ attempt[c][n].rev <= Rev
            /\ call[c].guard # "none" => attempt[c][n].rev = call[c].base
       /\ attempt[c][n].at = "conflict" /\ call[c].guard # "none" => Rev > call[c].base
       /\ attempt[c][n].at = "landed" => \E r \in 1 .. Rev : log[r].by = c

Landings(c) ==
  \A r \in 1 .. Rev : log[r].by = c =>
    /\ r > call[c].base
    /\ call[c].guard # "none" => r = call[c].base + 1
    /\ call[c].kind = "write" => log[r].text = call[c].text
    /\ \E n \in Try : attempt[c][n].at \in {"landed", "remote"}

Outcomes(c) ==
  /\ call[c].at = "resolve" =>
       /\ call[c].kind = "write" /\ call[c].unknown
       /\ call[c].guard # "none" => Rev > call[c].base
  /\ call[c].result = "done" =>
       \/ \E r \in 1 .. Rev : log[r].by = c
       \/ /\ call[c].kind = "write"
          /\ \E r \in call[c].base + 1 .. Rev : log[r].text = call[c].text
  /\ call[c].result = "conflict" /\ ~call[c].unknown =>
       call[c].tries = 1 /\ attempt[c][1].at = "conflict"

IInv ==
  /\ TypeOK
  /\ \A c \in Calls : Stages(c) /\ Guards(c) /\ Landings(c) /\ Outcomes(c)

\* The invariant holds before any call has started.
LEMMA InitIInv == Init => IInv
<1> USE WritesAssumption
<1> SUFFICES ASSUME Init PROVE IInv
  OBVIOUS
<1>1. TypeOK
  <2>1. log \in Seq(Revision) /\ Len(log) <= MaxRev
    BY DEF Init
  <2>2. \A t \in Texts : Fresh(t) \in Call
    BY DEF Fresh, Call
  <2>3. NoAttempt \in Attempt
    BY DEF NoAttempt, Attempt
  <2> QED BY <2>1, <2>2, <2>3 DEF Init, TypeOK
<1>2. ASSUME NEW c \in Calls PROVE Stages(c) /\ Guards(c) /\ Landings(c) /\ Outcomes(c)
  BY DEF Init, Fresh, NoAttempt, Try, Rev, Stages, Sent, Guards, Landings, Outcomes
<1> QED BY <1>1, <1>2 DEF IInv

\* A step of a call's own, which touches neither the entry nor a request.
LEMMA CallChange ==
  ASSUME IInv, NEW c \in Calls, NEW v \in Call,
         UNCHANGED <<log, attempt>>, call' = [call EXCEPT ![c] = v],
         Stages(c)', Guards(c)', Landings(c)', Outcomes(c)'
  PROVE  IInv'
<1>1. TypeOK'
  BY DEF IInv, TypeOK
<1>2. ASSUME NEW d \in Calls, d # c
      PROVE  (Stages(d) /\ Guards(d) /\ Landings(d) /\ Outcomes(d))'
  <2>1. call'[d] = call[d]
    BY <1>2 DEF IInv, TypeOK
  <2>2. Stages(d) /\ Guards(d) /\ Landings(d) /\ Outcomes(d)
    BY DEF IInv
  <2> QED BY <2>1, <2>2 DEF Stages, Sent, Guards, Landings, Outcomes, Rev
<1> QED BY <1>1, <1>2 DEF IInv

\* ... and which keeps its guard and what it is to do.
LEMMA CallProgress ==
  ASSUME IInv, NEW c \in Calls, NEW v \in Call,
         UNCHANGED <<log, attempt>>, call' = [call EXCEPT ![c] = v],
         v.kind = call[c].kind, v.guard = call[c].guard, v.base = call[c].base,
         v.text = call[c].text, v.tries = call[c].tries,
         Stages(c)', Outcomes(c)'
  PROVE  IInv'
<1>0. call'[c] = v
  BY DEF IInv, TypeOK
<1>1. Guards(c)' /\ Landings(c)'
  BY <1>0 DEF IInv, Guards, Landings, Rev
<1> QED BY <1>1, CallChange

\* The observation that gives a call its guard.
LEMMA Observing ==
  ASSUME IInv, NEW c \in Calls,
         ObserveForWrite(c) \/ ReadFails(c) \/ ObserveForDelete(c) \/ Refuse(c)
  PROVE  IInv'
<1> USE WritesAssumption
<1>1. /\ call[c] \in Call /\ call[c].at = "idle" /\ Rev \in 0 .. MaxRev
      /\ Stages(c) /\ Guards(c) /\ Landings(c)
  BY DEF IInv, TypeOK, ObserveForWrite, ReadFails, ObserveForDelete, Refuse, Rev
<1>2. \A n \in Try : attempt[c][n].at = "none"
  BY <1>1 DEF Stages, Guards, Try
<1>3. \A r \in 1 .. Rev : log[r].by # c
  BY <1>1, <1>2 DEF Landings
<1>4. ASSUME NEW kind \in {"write", "delete"}, NEW guard \in {"none", "create", "revision"},
             NEW base \in 0 .. Rev, Guarded(c, kind, guard, base), UNCHANGED <<log, attempt>>,
             guard = "none" => base = 0, guard = "revision" => base > 0, kind = "delete" => guard = "revision"
      PROVE  IInv'
  <2> DEFINE v == [call[c] EXCEPT !.at = "send", !.kind = kind, !.guard = guard, !.base = base]
  <2>1. v \in Call /\ call' = [call EXCEPT ![c] = v]
    <3>1. base \in 0 .. MaxRev
      BY <1>1
    <3>2. v \in Call
      BY <1>1, <3>1 DEF Call
    <3> QED BY <1>4, <3>2 DEF Guarded
  <2>2. call'[c] = v
    BY <2>1 DEF IInv, TypeOK
  <2>3. v.at = "send" /\ v.tries = 0 /\ ~v.again /\ ~v.second /\ ~v.unknown /\ v.result = "none"
        /\ v.kind = kind /\ v.guard = guard /\ v.base = base
    BY <1>1 DEF Stages, Call
  <2>4. Stages(c)'
    BY <1>4, <2>2, <2>3 DEF Stages, Sent
  <2>5. Guards(c)' /\ Landings(c)' /\ Outcomes(c)'
    BY <1>2, <1>3, <1>4, <2>2, <2>3 DEF Guards, Landings, Outcomes, Rev
  <2> HIDE DEF v
  <2> QED BY <1>4, <2>1, <2>4, <2>5, CallChange
<1>5. ASSUME NEW result \in {"already", "failed"}, Ends(c, result), UNCHANGED <<log, attempt>>
      PROVE  IInv'
  <2> DEFINE v == [call[c] EXCEPT !.at = "done", !.result = result]
  <2>1. v \in Call /\ call' = [call EXCEPT ![c] = v]
    BY <1>1, <1>5 DEF Ends, Call, IInv, TypeOK
  <2>2. call'[c] = v
    BY <2>1 DEF IInv, TypeOK
  <2>3. Stages(c)' /\ Outcomes(c)'
    BY <1>1, <1>5, <2>2 DEF Stages, Sent, Outcomes, Call
  <2>4. /\ v.kind = call[c].kind /\ v.guard = call[c].guard /\ v.base = call[c].base
        /\ v.text = call[c].text /\ v.tries = call[c].tries
    BY <1>1 DEF Call
  <2> HIDE DEF v
  <2> QED BY <1>5, <2>1, <2>3, <2>4, CallProgress
<1>6. CASE ObserveForWrite(c)
  <2>1. CASE Rev = 0 BY <1>1, <1>4, <1>6, <2>1 DEF ObserveForWrite
  <2>2. CASE Rev # 0
    <3>1. Rev > 0 /\ Rev \in 0 .. Rev
      BY <1>1, <2>2
    <3>2. Guarded(c, "write", "revision", Rev) /\ UNCHANGED <<log, attempt>>
      BY <1>6, <2>2 DEF ObserveForWrite
    <3> QED BY <1>4, <3>1, <3>2
  <2> QED BY <2>1, <2>2
<1>7. CASE ReadFails(c)
  BY <1>1, <1>4, <1>7 DEF ReadFails
<1>8. CASE ObserveForDelete(c)
  <2>1. CASE Rev # 0 /\ Guarded(c, "delete", "revision", Rev)
    <3>1. Rev > 0 /\ Rev \in 0 .. Rev
      BY <1>1, <2>1
    <3> QED BY <1>4, <1>8, <2>1, <3>1 DEF ObserveForDelete
  <2>2. CASE Ends(c, "failed") BY <1>5, <1>8, <2>2 DEF ObserveForDelete
  <2>3. CASE Ends(c, "already") BY <1>5, <1>8, <2>3 DEF ObserveForDelete
  <2> QED BY <1>8, <2>1, <2>2, <2>3 DEF ObserveForDelete
<1>9. CASE Refuse(c)
  BY <1>5, <1>9 DEF Refuse
<1> QED BY <1>6, <1>7, <1>8, <1>9

\* What the supervisor does with an answer, or without one.
LEMMA Supervising ==
  ASSUME IInv, NEW c \in Calls,
         \/ NoChild(c) \/ Landed(c) \/ TransportFails(c) \/ RemoteFails(c) \/ Conflict(c)
         \/ Resolve(c) \/ ResolveFails(c)
  PROVE  IInv'
<1>1. call[c] \in Call /\ Rev \in Nat /\ attempt[c] \in [Try -> Attempt]
  BY DEF IInv, TypeOK, Rev
<1>2. Stages(c) /\ Guards(c) /\ Landings(c) /\ Outcomes(c)
  BY DEF IInv
<1>3. call[c].at = "wait" => call[c].tries \in Try
  BY <1>1, <1>2 DEF Call, Try, Stages
<1>4. ASSUME NEW result \in {"done", "conflict", "failed"}, Ends(c, result),
             UNCHANGED <<log, attempt>>, call[c].at \in {"send", "wait", "resolve"},
             result = "done" =>
               \/ \E r \in 1 .. Rev : log[r].by = c
               \/ /\ call[c].kind = "write"
                  /\ \E r \in call[c].base + 1 .. Rev : log[r].text = call[c].text,
             result = "conflict" /\ ~call[c].unknown =>
               call[c].tries = 1 /\ attempt[c][1].at = "conflict"
      PROVE  IInv'
  <2> DEFINE v == [call[c] EXCEPT !.at = "done", !.result = result]
  <2>1. v \in Call /\ call' = [call EXCEPT ![c] = v]
    BY <1>1, <1>4 DEF Ends, Call
  <2>2. call'[c] = v
    BY <2>1 DEF IInv, TypeOK
  <2>3. /\ v.kind = call[c].kind /\ v.guard = call[c].guard /\ v.base = call[c].base
        /\ v.text = call[c].text /\ v.tries = call[c].tries /\ v.again = call[c].again
        /\ v.second = call[c].second /\ v.unknown = call[c].unknown
        /\ v.at = "done" /\ v.result = result
    BY <1>1 DEF Call
  <2>4. Stages(c)' /\ Outcomes(c)'
    BY <1>2, <1>4, <2>2, <2>3 DEF Stages, Sent, Outcomes, Rev
  <2> HIDE DEF v
  <2> QED BY <1>4, <2>1, <2>3, <2>4, CallProgress
<1>5. ASSUME NEW v \in Call, call[c].at = "wait", call' = [call EXCEPT ![c] = v],
             UNCHANGED <<log, attempt>>,
             v.kind = call[c].kind, v.guard = call[c].guard, v.base = call[c].base,
             v.text = call[c].text, v.tries = call[c].tries, v.result = call[c].result,
             v.at = "send", v.unknown,
             v.tries <= (IF v.second THEN 2 ELSE 0) + (IF v.again THEN 1 ELSE 0)
      PROVE  IInv'
  <2>1. call'[c] = v
    BY <1>5 DEF IInv, TypeOK
  <2>2. Stages(c)'
    BY <1>1, <1>2, <1>5, <2>1 DEF Stages, Sent, Call
  <2>3. Outcomes(c)'
    BY <1>1, <1>2, <1>5, <2>1 DEF Stages, Outcomes, Call
  <2> QED BY <1>5, <2>2, <2>3, CallProgress
<1>6. CASE NoChild(c)
  BY <1>4, <1>6 DEF NoChild
<1>7. CASE Landed(c)
  <2>1. \E r \in 1 .. Rev : log[r].by = c
    BY <1>2, <1>3, <1>7 DEF Landed, Answer, Guards
  <2> QED BY <1>4, <1>7, <2>1 DEF Landed, Answer
<1>8. CASE TransportFails(c)
  <2>1. CASE call[c].again
    BY <1>4, <1>8, <2>1 DEF TransportFails
  <2>2. CASE ~call[c].again
    <3> DEFINE v == [call[c] EXCEPT !.at = "send", !.again = TRUE, !.unknown = TRUE]
    <3>1. v \in Call
      BY <1>1 DEF Call
    <3>2. call' = [call EXCEPT ![c] = v]
      BY <1>8, <2>2 DEF TransportFails
    <3>3. /\ v.kind = call[c].kind /\ v.guard = call[c].guard /\ v.base = call[c].base
          /\ v.text = call[c].text /\ v.tries = call[c].tries /\ v.again
          /\ v.second = call[c].second /\ v.unknown
          /\ v.at = "send" /\ v.result = call[c].result
      BY <1>1 DEF Call
    <3>4. v.tries <= (IF v.second THEN 2 ELSE 0) + (IF v.again THEN 1 ELSE 0)
      BY <1>1, <1>2, <2>2, <3>3 DEF Stages, Sent
    <3> HIDE DEF v
    <3> QED BY <1>5, <1>8, <3>1, <3>2, <3>3, <3>4 DEF TransportFails
  <2> QED BY <2>1, <2>2
<1>9. CASE RemoteFails(c)
  <2>1. CASE call[c].kind = "write" /\ ~call[c].second
    <3> DEFINE v == [call[c] EXCEPT !.at = "send", !.second = TRUE, !.again = FALSE,
                                    !.unknown = TRUE]
    <3>1. v \in Call
      BY <1>1 DEF Call
    <3>2. call' = [call EXCEPT ![c] = v]
      BY <1>9, <2>1 DEF RemoteFails
    <3>3. /\ v.kind = call[c].kind /\ v.guard = call[c].guard /\ v.base = call[c].base
          /\ v.text = call[c].text /\ v.tries = call[c].tries /\ ~v.again
          /\ v.second /\ v.unknown
          /\ v.at = "send" /\ v.result = call[c].result
      BY <1>1 DEF Call
    <3>4. call[c].tries <= Sent(c) + 1 /\ Sent(c) <= 1 /\ call[c].tries \in Nat /\ Sent(c) \in Nat
      BY <1>1, <1>2, <2>1 DEF Stages, Sent, Call
    <3>5. v.tries <= (IF v.second THEN 2 ELSE 0) + (IF v.again THEN 1 ELSE 0)
      BY <3>3, <3>4
    <3> HIDE DEF v
    <3> QED BY <1>5, <1>9, <3>1, <3>2, <3>3, <3>5 DEF RemoteFails, Answer
  <2>2. CASE ~(call[c].kind = "write" /\ ~call[c].second)
    BY <1>4, <1>9, <2>2 DEF RemoteFails, Answer
  <2> QED BY <2>1, <2>2
<1>10. CASE Conflict(c)
  <2>1. CASE call[c].kind = "write" /\ call[c].unknown
    <3> DEFINE v == [call[c] EXCEPT !.at = "resolve"]
    <3>1. v \in Call /\ call' = [call EXCEPT ![c] = v]
      BY <1>1, <1>10, <2>1 DEF Conflict, Call
    <3>2. call'[c] = v
      BY <3>1 DEF IInv, TypeOK
    <3>3. /\ v.kind = call[c].kind /\ v.guard = call[c].guard /\ v.base = call[c].base
          /\ v.text = call[c].text /\ v.tries = call[c].tries /\ v.again = call[c].again
          /\ v.second = call[c].second /\ v.unknown = call[c].unknown
          /\ v.at = "resolve" /\ v.result = call[c].result
      BY <1>1 DEF Call
    <3>4. call[c].guard # "none" => Rev > call[c].base
      BY <1>2, <1>3, <1>10 DEF Conflict, Answer, Guards
    <3>5. Stages(c)' /\ Outcomes(c)'
      BY <1>2, <1>10, <2>1, <3>2, <3>3, <3>4 DEF Conflict, Answer, Stages, Sent, Outcomes, Rev
    <3> HIDE DEF v
    <3> QED BY <1>10, <3>1, <3>3, <3>5, CallProgress DEF Conflict
  <2>2. CASE ~(call[c].kind = "write" /\ call[c].unknown)
    <3>1. ~call[c].unknown => call[c].tries = 1
      BY <1>1, <1>2, <1>10 DEF Conflict, Answer, Stages, Sent, Call
    <3> QED BY <1>4, <1>10, <2>2, <3>1 DEF Conflict, Answer
  <2> QED BY <2>1, <2>2
<1>11. CASE Resolve(c)
  <2>1. CASE Rev > 0 /\ log[Rev].text = call[c].text
    <3>1. Rev \in call[c].base + 1 .. Rev
      BY <1>1, <1>2, <1>11, <2>1 DEF Resolve, Outcomes, Guards, Call
    <3> QED BY <1>2, <1>4, <1>11, <2>1, <3>1 DEF Resolve, Outcomes
  <2>2. CASE ~(Rev > 0 /\ log[Rev].text = call[c].text)
    BY <1>2, <1>4, <1>11, <2>2 DEF Resolve, Outcomes
  <2> QED BY <2>1, <2>2
<1>12. CASE ResolveFails(c)
  BY <1>2, <1>4, <1>12 DEF ResolveFails, Outcomes
<1> QED BY <1>6, <1>7, <1>8, <1>9, <1>10, <1>11, <1>12

\* A call that neither steps nor lands, whatever the entry's next revision is.
LEMMA Bystander ==
  ASSUME IInv, NEW d \in Calls, call'[d] = call[d], attempt'[d] = attempt[d],
         \/ log' = log
         \/ \E x \in Revision : log' = Append(log, x) /\ x.by # d
  PROVE  (Stages(d) /\ Guards(d) /\ Landings(d) /\ Outcomes(d))'
<1> USE WritesAssumption
<1>1. Stages(d) /\ Guards(d) /\ Landings(d) /\ Outcomes(d)
  BY DEF IInv
<1>2. CASE log' = log
  BY <1>1, <1>2 DEF Stages, Sent, Guards, Landings, Outcomes, Rev
<1>3. ASSUME NEW x \in Revision, log' = Append(log, x), x.by # d
      PROVE  (Stages(d) /\ Guards(d) /\ Landings(d) /\ Outcomes(d))'
  <2>1. /\ Rev \in Nat /\ Rev' = Rev + 1 /\ log'[Rev + 1].by # d
        /\ \A r \in 1 .. Rev : log'[r] = log[r]
    BY <1>3 DEF IInv, TypeOK, Rev
  <2>2. call[d].base \in Nat
    BY DEF IInv, TypeOK, Call
  <2>3. \A n \in Try : attempt[d][n].rev \in Nat
    BY DEF IInv, TypeOK, Attempt
  <2>4. Stages(d)'
    BY <1>1 DEF Stages, Sent
  <2>5. Guards(d)'
    BY <1>1, <2>1, <2>2, <2>3 DEF Guards
  <2>6. Landings(d)'
    <3>1. ASSUME NEW r \in 1 .. Rev', log'[r].by = d PROVE r \in 1 .. Rev /\ log'[r] = log[r]
      BY <2>1, <3>1
    <3> QED BY <1>1, <3>1 DEF Landings
  <2>7. Outcomes(d)'
    BY <1>1, <2>1, <2>2 DEF Outcomes
  <2> QED BY <2>4, <2>5, <2>6, <2>7
<1> QED BY <1>2, <1>3

\* Another device writes or deletes the entry.
LEMMA DeviceStep ==
  ASSUME IInv, DeviceWrites \/ DeviceDeletes
  PROVE  IInv'
<1> USE WritesAssumption
<1>1. PICK x \in Revision : log' = Append(log, x) /\ x.by = Device
  <2>1. CASE DeviceWrites
    <3>1. PICK t \in Texts : Append1([text |-> t, deleted |-> FALSE, by |-> Device])
      BY <2>1 DEF DeviceWrites
    <3> DEFINE x == [text |-> t, deleted |-> FALSE, by |-> Device]
    <3>2. x \in Revision /\ x.by = Device /\ log' = Append(log, x)
      BY <3>1 DEF Append1, Revision
    <3> QED BY <3>2
  <2>2. CASE DeviceDeletes
    <3>1. log[Rev] \in Revision
      BY <2>2 DEF DeviceDeletes, IInv, TypeOK, Rev
    <3> DEFINE x == [log[Rev] EXCEPT !.deleted = TRUE, !.by = Device]
    <3>2. x \in Revision /\ x.by = Device
      BY <3>1 DEF Revision
    <3>3. log' = Append(log, x)
      BY <2>2 DEF DeviceDeletes, Append1
    <3> HIDE DEF x
    <3> QED BY <3>2, <3>3
  <2> QED BY <2>1, <2>2
<1>2. UNCHANGED <<call, attempt>> /\ Rev < MaxRev
  BY DEF DeviceWrites, DeviceDeletes, Append1
<1>3. TypeOK'
  BY <1>1, <1>2 DEF IInv, TypeOK, Rev
<1>4. ASSUME NEW d \in Calls PROVE (Stages(d) /\ Guards(d) /\ Landings(d) /\ Outcomes(d))'
  BY <1>1, <1>2, Bystander
<1> QED BY <1>3, <1>4 DEF IInv

\* The next attempt of a call is queued in a child.
LEMMA Sending ==
  ASSUME IInv, NEW c \in Calls, Send(c)
  PROVE  IInv'
<1> DEFINE v == [call[c] EXCEPT !.at = "wait", !.tries = @ + 1]
           n == call[c].tries + 1
           a == [attempt[c][n] EXCEPT !.at = "queued"]
<1>1. call[c] \in Call /\ Rev \in Nat /\ attempt[c] \in [Try -> Attempt]
  BY DEF IInv, TypeOK, Rev
<1>2. Stages(c) /\ Guards(c) /\ Landings(c) /\ Outcomes(c) /\ call[c].at = "send"
  BY DEF IInv, Send
<1>3. n \in Try /\ n \in 1 .. Sent(c) + 1
  <2>1. Sent(c) \in 0 .. 3
    BY DEF Sent
  <2>2. call[c].tries \in Nat /\ call[c].tries <= Sent(c)
    BY <1>1, <1>2 DEF Stages, Call
  <2> QED BY <2>1, <2>2 DEF Try
<1>4. v \in Call /\ a \in Attempt
  <2>1. call[c].tries + 1 \in 0 .. 4 /\ attempt[c][n] \in Attempt
    BY <1>1, <1>3 DEF Try
  <2>2. v \in Call
    BY <1>1, <2>1 DEF Call
  <2>3. a \in Attempt
    BY <2>1 DEF Attempt
  <2> QED BY <2>2, <2>3
<1>5. /\ call' = [call EXCEPT ![c] = v]
      /\ attempt' = [attempt EXCEPT ![c][n] = a]
      /\ log' = log
  BY DEF Send
<1>6. TypeOK'
  BY <1>3, <1>4, <1>5 DEF IInv, TypeOK
<1>7. call'[c] = v /\ attempt'[c] = [attempt[c] EXCEPT ![n] = a]
  BY <1>5 DEF IInv, TypeOK
<1>8. /\ v.kind = call[c].kind /\ v.guard = call[c].guard /\ v.base = call[c].base
      /\ v.text = call[c].text /\ v.tries = n /\ v.again = call[c].again
      /\ v.second = call[c].second /\ v.unknown = call[c].unknown
      /\ v.at = "wait" /\ v.result = call[c].result
      /\ a.at = "queued" /\ a.rev = attempt[c][n].rev
  BY <1>1, <1>3 DEF Call, Attempt
<1>9. attempt[c][n].at = "none"
  BY <1>1, <1>2, <1>3 DEF Guards, Call
<1>10. \A m \in Try : m # n => attempt'[c][m] = attempt[c][m]
  BY <1>1, <1>7
<1>11. attempt'[c][n] = a
  BY <1>1, <1>3, <1>7
<1> HIDE DEF v, a
<1>12. Stages(c)'
  BY <1>1, <1>2, <1>3, <1>7, <1>8 DEF Stages, Sent, Call, Try
<1>13. Guards(c)'
  BY <1>1, <1>2, <1>3, <1>5, <1>7, <1>8, <1>9, <1>10, <1>11 DEF Guards, Rev, Call, Try
<1>14. Landings(c)'
  <2>1. \A m \in Try : attempt[c][m].at \in {"landed", "remote"} =>
                       attempt'[c][m].at \in {"landed", "remote"}
    BY <1>9, <1>10
  <2> QED BY <1>2, <1>5, <1>7, <1>8, <2>1 DEF Landings, Rev
<1>15. Outcomes(c)'
  BY <1>2, <1>5, <1>7, <1>8 DEF Stages, Outcomes, Rev
<1>16. ASSUME NEW d \in Calls, d # c
       PROVE  (Stages(d) /\ Guards(d) /\ Landings(d) /\ Outcomes(d))'
  BY <1>5, <1>16, Bystander DEF IInv, TypeOK
<1> QED BY <1>6, <1>12, <1>13, <1>14, <1>15, <1>16 DEF IInv

\* A child's step on the attempt n of a call: a revision may land with it.
LEMMA ServeChange ==
  ASSUME IInv, NEW c \in Calls, NEW n \in Try, NEW a \in Attempt,
         attempt[c][n].at \in {"queued", "checked"},
         call' = call, attempt' = [attempt EXCEPT ![c][n] = a],
         \/ log' = log
         \/ \E x \in Revision : Rev < MaxRev /\ log' = Append(log, x) /\ x.by = c,
         Guards(c)', Landings(c)'
  PROVE  IInv'
<1> USE WritesAssumption
<1>1. TypeOK'
  BY DEF IInv, TypeOK, Rev
<1>2. ASSUME NEW d \in Calls, d # c
      PROVE  (Stages(d) /\ Guards(d) /\ Landings(d) /\ Outcomes(d))'
  <2>1. attempt'[d] = attempt[d]
    BY <1>2 DEF IInv, TypeOK
  <2> QED BY <1>2, <2>1, Bystander
<1>3. Stages(c)'
  BY DEF IInv, Stages, Sent
<1>4. Outcomes(c)'
  <2>1. Outcomes(c) /\ call[c] \in Call
    BY DEF IInv, TypeOK
  <2>2. Rev \in Nat /\ Rev' \in Nat /\ Rev <= Rev' /\ \A r \in 1 .. Rev : log'[r] = log[r]
    <3>1. log \in Seq(Revision)
      BY DEF IInv, TypeOK
    <3>2. CASE log' = log
      BY <3>1, <3>2 DEF Rev
    <3>3. ASSUME NEW x \in Revision, log' = Append(log, x)
          PROVE  Rev \in Nat /\ Rev' = Rev + 1 /\ \A r \in 1 .. Rev : log'[r] = log[r]
      BY <3>1, <3>3 DEF Rev
    <3> QED BY <3>2, <3>3
  <2>3. \A m \in Try : attempt[c][m].at = "conflict" => attempt'[c][m].at = "conflict"
    BY DEF IInv, TypeOK
  <2>4. call[c].base \in Nat /\ 1 \in Try
    BY <2>1 DEF Call, Try
  <2>5. call[c].at = "resolve" /\ call[c].guard # "none" => Rev' > call[c].base
    BY <2>1, <2>2, <2>4 DEF Outcomes
  <2>6. (\E r \in 1 .. Rev : log[r].by = c) => \E r \in 1 .. Rev' : log'[r].by = c
    BY <2>2
  <2>7. (\E r \in call[c].base + 1 .. Rev : log[r].text = call[c].text) =>
          \E r \in call[c].base + 1 .. Rev' : log'[r].text = call[c].text
    BY <2>2, <2>4
  <2>8. attempt[c][1].at = "conflict" => attempt'[c][1].at = "conflict"
    BY <2>3, <2>4
  <2> QED BY <2>1, <2>5, <2>6, <2>7, <2>8 DEF Outcomes
<1> QED BY <1>1, <1>2, <1>3, <1>4 DEF IInv

\* The child checks the guard, compares and swaps, or is refused.
LEMMA ServeStep ==
  ASSUME IInv, NEW c \in Calls, NEW n \in Try, Serving(c, n)
  PROVE  IInv'
<1> USE WritesAssumption
<1>1. call[c] \in Call /\ Rev \in 0 .. MaxRev /\ attempt[c] \in [Try -> Attempt]
      /\ attempt[c][n] \in Attempt
  BY DEF IInv, TypeOK, Rev
<1>2. Stages(c) /\ Guards(c) /\ Landings(c)
  BY DEF IInv
<1>3. ASSUME NEW a \in Attempt, attempt' = [attempt EXCEPT ![c][n] = a]
      PROVE  attempt'[c][n] = a /\ \A m \in Try : m # n => attempt'[c][m] = attempt[c][m]
  BY <1>1, <1>3 DEF IInv, TypeOK
<1>4. attempt[c][n].at \in {"queued", "checked"} => n <= call[c].tries
  BY <1>1, <1>2 DEF Guards, Call, Try
<1>5. ASSUME NEW a \in Attempt, attempt' = [attempt EXCEPT ![c][n] = a], UNCHANGED <<log, call>>,
             attempt[c][n].at \in {"queued", "checked"},
             a.at \in {"checked", "conflict", "remote"},
             a.at = "checked" => a.rev <= Rev /\ (call[c].guard # "none" => a.rev = call[c].base),
             a.at = "conflict" => (call[c].guard # "none" => Rev > call[c].base)
      PROVE  IInv'
  <2>1. Guards(c)'
    BY <1>1, <1>2, <1>3, <1>4, <1>5 DEF Guards, Rev, Call, Try
  <2>2. \A m \in Try : attempt[c][m].at \in {"landed", "remote"} => attempt'[c][m] = attempt[c][m]
    BY <1>3, <1>5
  <2>3. Landings(c)'
    BY <1>2, <1>5, <2>2 DEF Landings, Rev
  <2> QED BY <1>5, <2>1, <2>3, ServeChange
<1>6. ASSUME NEW at \in {"none", "queued", "checked", "landed", "conflict", "remote"}
      PROVE  LET a == [attempt[c][n] EXCEPT !.at = at]
             IN  a \in Attempt /\ a.at = at /\ a.rev = attempt[c][n].rev
  BY <1>1 DEF Attempt
<1>7. CASE Check(c, n)
  <2>1. CASE call[c].guard = "none" \/ call[c].base = Rev
    <3> DEFINE a == [at |-> "checked", rev |-> Rev]
    <3>1. a \in Attempt /\ a.at = "checked" /\ a.rev = Rev
      BY <1>1 DEF Attempt
    <3> HIDE DEF a
    <3>2. attempt' = [attempt EXCEPT ![c][n] = a]
      BY <1>7, <2>1 DEF Check, a
    <3>3. a.rev <= Rev /\ (call[c].guard # "none" => a.rev = call[c].base)
      BY <1>1, <2>1, <3>1
    <3>4. UNCHANGED <<log, call>> /\ attempt[c][n].at = "queued"
      BY <1>7 DEF Check
    <3> QED BY <1>5, <3>1, <3>2, <3>3, <3>4
  <2>2. CASE ~(call[c].guard = "none" \/ call[c].base = Rev)
    <3> DEFINE a == [attempt[c][n] EXCEPT !.at = "conflict"]
    <3>1. a \in Attempt /\ a.at = "conflict"
      BY <1>6
    <3>2. Rev > call[c].base
      BY <1>1, <1>2, <2>2 DEF Guards, Call
    <3>3. attempt' = [attempt EXCEPT ![c][n] = a]
      BY <1>7, <2>2 DEF Check, Becomes
    <3> HIDE DEF a
    <3> QED BY <1>5, <1>7, <3>1, <3>2, <3>3 DEF Check
  <2> QED BY <2>1, <2>2
<1>8. CASE RemoteRefuses(c, n)
  <2> DEFINE a == [attempt[c][n] EXCEPT !.at = "remote"]
  <2>1. a \in Attempt /\ a.at = "remote"
    BY <1>6
  <2>2. attempt' = [attempt EXCEPT ![c][n] = a]
    BY <1>8 DEF RemoteRefuses, Becomes
  <2> HIDE DEF a
  <2> QED BY <1>5, <1>8, <2>1, <2>2 DEF RemoteRefuses
<1>9. CASE Put(c, n) /\ attempt[c][n].rev # Rev
  <2> DEFINE a == [attempt[c][n] EXCEPT !.at = "conflict"]
  <2>1. a \in Attempt /\ a.at = "conflict"
    BY <1>6
  <2>2. call[c].guard # "none" => Rev > call[c].base
    BY <1>1, <1>2, <1>9 DEF Put, Guards, Call
  <2>3. attempt' = [attempt EXCEPT ![c][n] = a]
    BY <1>9 DEF Put, Becomes
  <2> HIDE DEF a
  <2> QED BY <1>5, <1>9, <2>1, <2>2, <2>3 DEF Put
<1>10. CASE Put(c, n) /\ attempt[c][n].rev = Rev
  <2>1. PICK at \in {"landed", "remote"} : attempt' = [attempt EXCEPT ![c][n].at = at]
    BY <1>10 DEF Put, Becomes
  <2> DEFINE a == [attempt[c][n] EXCEPT !.at = at]
  <2>2. a \in Attempt /\ a.at = at /\ attempt' = [attempt EXCEPT ![c][n] = a]
    BY <1>6, <2>1
  <2> HIDE DEF a
  <2>3. PICK x \in Revision : /\ Rev < MaxRev /\ log' = Append(log, x) /\ x.by = c
                              /\ call[c].kind = "write" => x.text = call[c].text
    <3>1. CASE call[c].kind = "delete"
      <4> DEFINE x == [log[Rev] EXCEPT !.deleted = TRUE, !.by = c]
      <4>1. Rev > 0
        BY <1>1, <1>2, <1>10, <3>1 DEF Put, Guards, Stages, Call
      <4>2. log[Rev] \in Revision
        BY <1>1, <4>1 DEF IInv, TypeOK, Rev
      <4>3. x \in Revision /\ x.by = c
        BY <4>2 DEF Revision
      <4>4. Rev < MaxRev /\ log' = Append(log, x)
        BY <1>10, <3>1 DEF Put, Lands, Append1
      <4> HIDE DEF x
      <4> QED BY <3>1, <4>3, <4>4
    <3>2. CASE call[c].kind # "delete"
      <4> DEFINE x == [text |-> call[c].text, deleted |-> FALSE, by |-> c]
      <4>1. x \in Revision /\ x.by = c /\ x.text = call[c].text
        BY <1>1 DEF Revision, Call
      <4>2. Rev < MaxRev /\ log' = Append(log, x)
        BY <1>10, <3>2 DEF Put, Lands, Append1
      <4> HIDE DEF x
      <4> QED BY <4>1, <4>2
    <3> QED BY <3>1, <3>2
  <2>4. /\ Rev \in Nat /\ Rev' = Rev + 1 /\ log'[Rev + 1] = x
        /\ \A r \in 1 .. Rev : log'[r] = log[r]
    BY <2>3 DEF IInv, TypeOK, Rev
  <2>5. attempt'[c][n] = a /\ \A m \in Try : m # n => attempt'[c][m] = attempt[c][m]
    BY <1>3, <2>2
  <2>6. /\ call' = call /\ attempt[c][n].at = "checked"
        /\ call[c].base \in Nat /\ call[c].tries \in Nat
        /\ call[c].guard # "none" => Rev = call[c].base
        /\ call[c].base <= Rev
    BY <1>1, <1>2, <1>10 DEF Put, Guards, Call
  <2>7. \A m \in Try : attempt[c][m].rev \in Nat
    BY <1>1 DEF Attempt
  <2>8. Guards(c)'
    <3>1. Rev' \in Nat /\ Rev <= Rev' /\ log'[Rev'].by = c /\ Rev' \in 1 .. Rev'
      BY <2>3, <2>4
    <3>2. ASSUME NEW m \in Try, m # n
          PROVE  /\ m > call[c].tries => attempt'[c][m].at = "none"
                 /\ attempt'[c][m].at = "checked" =>
                      /\ attempt'[c][m].rev <= Rev'
                      /\ call[c].guard # "none" => attempt'[c][m].rev = call[c].base
                 /\ attempt'[c][m].at = "conflict" /\ call[c].guard # "none" =>
                      Rev' > call[c].base
      <4>1. attempt'[c][m] = attempt[c][m]
        BY <2>5, <3>2
      <4> QED BY <1>2, <2>4, <2>6, <2>7, <4>1 DEF Guards
    <3>3. ~(n > call[c].tries) /\ attempt'[c][n].at \notin {"checked", "conflict"}
      BY <1>4, <2>2, <2>5, <2>6 DEF Try
    <3>4. call[c].base <= Rev'
      BY <2>4, <2>6
    <3>5. /\ call[c].guard = "none" => call[c].base = 0
          /\ call[c].guard = "revision" => call[c].base > 0
      BY <1>2 DEF Guards
    <3> QED BY <2>6, <3>1, <3>2, <3>3, <3>4, <3>5 DEF Guards
  <2>9. Landings(c)'
    <3>1. ASSUME NEW r \in 1 .. Rev', log'[r].by = c
          PROVE  /\ r > call[c].base
                 /\ call[c].guard # "none" => r = call[c].base + 1
                 /\ call[c].kind = "write" => log'[r].text = call[c].text
      <4>1. CASE r = Rev + 1
        <5>1. r > call[c].base /\ (call[c].guard # "none" => r = call[c].base + 1)
          BY <2>4, <2>6, <4>1
        <5>2. log'[r] = x
          BY <2>4, <4>1
        <5> QED BY <2>3, <5>1, <5>2
      <4>2. CASE r \in 1 .. Rev
        BY <1>2, <2>4, <3>1, <4>2 DEF Landings
      <4> QED BY <2>4, <4>1, <4>2
    <3>2. \E m \in Try : attempt'[c][m].at \in {"landed", "remote"}
      BY <2>2, <2>5
    <3> QED BY <2>6, <3>1, <3>2 DEF Landings
  <2> QED BY <2>2, <2>3, <2>6, <2>8, <2>9, ServeChange
<1> QED BY <1>7, <1>8, <1>9, <1>10 DEF Serving

\* Every step preserves the invariant.
LEMMA NextIInv == IInv /\ [Next]_vars => IInv'
<1> SUFFICES ASSUME IInv, [Next]_vars PROVE IInv'
  OBVIOUS
<1>1. CASE DeviceWrites \/ DeviceDeletes
  BY <1>1, DeviceStep
<1>2. ASSUME NEW c \in Calls, Calling(c) PROVE IInv'
  <2>1. CASE Send(c)
    BY <2>1, Sending
  <2>2. CASE ObserveForWrite(c) \/ ReadFails(c) \/ ObserveForDelete(c) \/ Refuse(c)
    BY <2>2, Observing
  <2>3. CASE \/ NoChild(c) \/ Landed(c) \/ TransportFails(c) \/ RemoteFails(c) \/ Conflict(c)
             \/ Resolve(c) \/ ResolveFails(c)
    BY <2>3, Supervising
  <2> QED BY <1>2, <2>1, <2>2, <2>3 DEF Calling
<1>3. ASSUME NEW c \in Calls, NEW n \in Try, Serving(c, n) PROVE IInv'
  BY <1>3, ServeStep
<1>4. CASE UNCHANGED vars
  <2>1. TypeOK'
    BY <1>4 DEF vars, IInv, TypeOK
  <2>2. ASSUME NEW d \in Calls PROVE (Stages(d) /\ Guards(d) /\ Landings(d) /\ Outcomes(d))'
    BY <1>4, Bystander DEF vars
  <2> QED BY <2>1, <2>2 DEF IInv
<1> QED BY <1>1, <1>2, <1>3, <1>4 DEF Next

\* The invariant holds in every reachable state.
THEOREM Invariance == Spec => []IInv
BY InitIInv, NextIInv, PTL DEF Spec

\* Every reachable state is well typed: no call sends a fifth request.
THEOREM TypeCorrect == Spec => []TypeOK
<1>1. IInv => TypeOK
  BY DEF IInv
<1> QED BY <1>1, Invariance, PTL

\* A guarded write or delete, however often it is retried and however late one
\* of its attempts is executed, replaces the revision its caller observed or
\* nothing.
THEOREM NoUpdateIsLost == Spec => []NoLostUpdate
<1>1. IInv => NoLostUpdate
  BY DEF IInv, Landings, NoLostUpdate, LandedAt
<1> QED BY <1>1, Invariance, PTL

\* What the invariant says of answers.
LEMMA Refusals == IInv => RefusedChangesNothing
<1>1. ASSUME IInv, NEW c \in Calls, call[c].result = "conflict", ~call[c].unknown
      PROVE  LandedAt(c) = {}
  <2>1. Guards(c) /\ Landings(c) /\ call[c].tries = 1 /\ attempt[c][1].at = "conflict"
    BY <1>1 DEF IInv, Outcomes
  <2>2. \A n \in Try : attempt[c][n].at \notin {"landed", "remote"}
    <3>1. ASSUME NEW n \in Try, n # 1 PROVE attempt[c][n].at = "none"
      BY <2>1, <3>1 DEF Guards, Try
    <3> QED BY <2>1, <3>1
  <2> QED BY <2>1, <2>2 DEF Landings, LandedAt
<1> QED BY <1>1 DEF RefusedChangesNothing

LEMMA Writes == IInv => WrittenIsInHistory
<1>1. ASSUME IInv, NEW c \in Calls, call[c].kind = "write", call[c].result = "done"
      PROVE  \E r \in call[c].base + 1 .. Rev : log[r].text = call[c].text
  <2>1. Landings(c) /\ Outcomes(c) /\ call[c].base \in Nat /\ Rev \in Nat
    BY <1>1, WritesAssumption DEF IInv, TypeOK, Call, Rev
  <2>2. CASE \E r \in 1 .. Rev : log[r].by = c
    <3>1. PICK r \in 1 .. Rev : log[r].by = c
      BY <2>2
    <3>2. r > call[c].base /\ log[r].text = call[c].text
      BY <1>1, <2>1, <3>1 DEF Landings
    <3> QED BY <2>1, <3>1, <3>2
  <2> QED BY <1>1, <2>1, <2>2 DEF Outcomes
<1> QED BY <1>1 DEF WrittenIsInHistory

LEMMA Deletes == IInv => DeletedIsInHistory
<1>1. ASSUME IInv, NEW c \in Calls, call[c].kind = "delete", call[c].result = "done"
      PROVE  call[c].base + 1 \in LandedAt(c)
  <2>1. Landings(c) /\ Outcomes(c) /\ call[c].guard = "revision"
    BY <1>1 DEF IInv, Stages
  <2>2. PICK r \in 1 .. Rev : log[r].by = c
    BY <1>1, <2>1 DEF Outcomes
  <2> QED BY <2>1, <2>2 DEF Landings, LandedAt
<1> QED BY <1>1 DEF DeletedIsInHistory

\* A conflict reported without an attempt of unknown outcome is a promise that
\* nothing was changed.
THEOREM RefusalsAreHonest == Spec => []RefusedChangesNothing
BY Refusals, Invariance, PTL

\* A write reported done is in the entry's history, after what its caller
\* observed.
THEOREM WritesAreInHistory == Spec => []WrittenIsInHistory
BY Writes, Invariance, PTL

\* A delete reported done removed the revision its stat saw.
THEOREM DeletesAreInHistory == Spec => []DeletedIsInHistory
BY Deletes, Invariance, PTL

(***************************************************************************)
(* The refinement.  A put that lands is the register's Swap, the           *)
(* observations are its Observe, an answer is its Say, a device's step is  *)
(* its Foreign, and every other step of a supervisor or a child is unseen. *)
(***************************************************************************)
Op == [c \in Calls |-> View(call[c])]

\* A step of one call changes what is seen of that call and of no other.
LEMMA ViewChange ==
  ASSUME IInv, NEW c \in Calls, NEW v \in Call, call' = [call EXCEPT ![c] = v]
  PROVE  Op' = [Op EXCEPT ![c] = View(v)] /\ call'[c] = v
<1>1. call \in [Calls -> Call]
  BY DEF IInv, TypeOK
<1>2. Op' = [d \in Calls |-> View(call'[d])]
  BY DEF Op
<1>3. ASSUME NEW d \in Calls PROVE View(call'[d]) = [Op EXCEPT ![c] = View(v)][d]
  BY <1>1 DEF Op
<1>4. [Op EXCEPT ![c] = View(v)] = [d \in Calls |-> [Op EXCEPT ![c] = View(v)][d]]
  BY DEF Op
<1> QED BY <1>1, <1>2, <1>3, <1>4

\* A step that is not seen.
LEMMA Unseen ==
  ASSUME IInv, NEW c \in Calls, NEW v \in Call, call' = [call EXCEPT ![c] = v],
         View(v) = View(call[c])
  PROVE  Op' = Op
<1>1. Op' = [Op EXCEPT ![c] = View(call[c])]
  BY ViewChange
<1>2. Op[c] = View(call[c])
  BY DEF Op
<1> QED BY <1>1, <1>2 DEF Op

\* The observations.
LEMMA ObserveRefines ==
  ASSUME IInv, NEW c \in Calls, NEW kind \in {"write", "delete"},
         NEW guard \in {"none", "create", "revision"}, NEW base,
         base = (IF guard # "none" THEN Rev ELSE 0),
         call[c].at = "idle", kind = "delete" => guard # "none" /\ Rev > 0,
         Guarded(c, kind, guard, base), UNCHANGED log
  PROVE  Register!Observe(c, kind, guard # "none")
<1> DEFINE v == [call[c] EXCEPT !.at = "send", !.kind = kind, !.guard = guard, !.base = base]
<1>1. call[c] \in Call /\ Rev \in 0 .. MaxRev /\ base \in 0 .. MaxRev
  BY WritesAssumption DEF IInv, TypeOK, Rev
<1>2. v \in Call
  BY <1>1 DEF Call
<1>3. call' = [call EXCEPT ![c] = v]
  BY DEF Guarded
<1>4. call[c].kind = "none" /\ call[c].result = "none"
  BY <1>1 DEF IInv, Stages, Call
<1>5. Op[c] = View(call[c]) /\ View(call[c]).kind = "none" /\ View(call[c]).said = "nothing"
  BY <1>4 DEF View, Op
<1>6. View(v) = [kind |-> kind, guarded |-> (guard # "none"), text |-> call[c].text,
                 base |-> base, said |-> "nothing"]
  <2>1. v.kind = kind /\ v.guard = guard /\ v.base = base /\ v.text = call[c].text /\ v.result = "none"
    BY <1>1, <1>4 DEF Call
  <2> HIDE DEF v
  <2> QED BY <2>1 DEF View
<1>7. Op' = [Op EXCEPT ![c] = View(v)] /\ Op[c].text = call[c].text
  <2>1. Op[c].text = call[c].text
    BY <1>5 DEF View
  <2> QED BY <1>2, <1>3, <2>1, ViewChange
<1>8. Op' = [Op EXCEPT ![c] = [kind |-> kind, guarded |-> (guard # "none"), text |-> Op[c].text,
                               base |-> base, said |-> "nothing"]]
  BY <1>6, <1>7
<1> QED BY <1>5, <1>8 DEF Op, Register!Observe, Register!Rev, Rev

\* An answer: what the register may say of a call is said.
LEMMA SayRefines ==
  ASSUME IInv, NEW c \in Calls, NEW result \in {"done", "already", "conflict", "failed"},
         Ends(c, result), UNCHANGED log, call[c].result = "none",
         NEW said \in {"done", "already", "refused", "unsure"},
         View([call[c] EXCEPT !.at = "done", !.result = result]).said = said,
         Register!True(c, said)
  PROVE  Register!Say(c, said)
<1> DEFINE v == [call[c] EXCEPT !.at = "done", !.result = result]
<1>1. call[c] \in Call
  BY DEF IInv, TypeOK
<1>2. v \in Call
  BY <1>1 DEF Call
<1>3. call' = [call EXCEPT ![c] = v]
  BY DEF Ends
<1>4. Op[c] = View(call[c]) /\ View(call[c]).said = "nothing"
  BY DEF View, Op
<1>5. View(v) = [View(call[c]) EXCEPT !.said = said]
  <2>1. v.kind = call[c].kind /\ v.guard = call[c].guard /\ v.base = call[c].base /\ v.text = call[c].text
    BY <1>1 DEF Call
  <2>2. View(v) = [kind |-> v.kind, guarded |-> v.guard # "none", base |-> v.base, text |-> v.text,
                   said |-> View(v).said]
    BY DEF View
  <2>3. [View(call[c]) EXCEPT !.said = said] =
          [kind |-> call[c].kind, guarded |-> call[c].guard # "none", base |-> call[c].base,
           text |-> call[c].text, said |-> said]
    BY DEF View
  <2>4. View(v).said = said
    OBVIOUS
  <2> HIDE DEF v
  <2> QED BY <2>1, <2>2, <2>3, <2>4
<1>6. Op' = [Op EXCEPT ![c] = View(v)]
  BY <1>2, <1>3, ViewChange
<1>7. Op' = [Op EXCEPT ![c] = [@ EXCEPT !.said = said]]
  BY <1>4, <1>5, <1>6
<1> QED BY <1>4, <1>7 DEF Op, Register!Say

LEMMA AnswersNext ==
  IInv' => RefusedChangesNothing' /\ WrittenIsInHistory' /\ DeletedIsInHistory'
BY Refusals, Writes, Deletes, PTL

\* The answer that ends a call is true in the step that gives it.
LEMMA EndRefines ==
  ASSUME IInv, IInv', NEW c \in Calls, NEW result \in {"done", "conflict", "failed"},
         Ends(c, result), UNCHANGED log, call[c].at \in {"send", "wait", "resolve"}
  PROVE  \E said \in {"done", "already", "refused", "unsure"} : Register!Say(c, said)
<1> DEFINE v == [call[c] EXCEPT !.at = "done", !.result = result]
<1>1. /\ call[c] \in Call /\ call \in [Calls -> Call] /\ Rev \in Nat
      /\ call[c].result = "none" /\ call[c].kind \in {"write", "delete"}
  BY WritesAssumption DEF IInv, TypeOK, Stages, Outcomes, Rev, Call
<1>2. /\ call'[c] = v /\ v.result = result /\ v.kind = call[c].kind /\ v.base = call[c].base
      /\ v.text = call[c].text /\ v.unknown = call[c].unknown /\ Rev' = Rev
  BY <1>1 DEF Ends, Call, Rev
<1>3. Op[c] = View(call[c]) /\ Op[c].kind = call[c].kind /\ Op[c].base = call[c].base
      /\ Op[c].text = call[c].text
  BY DEF Op, View
<1>4. call[c].base \in Nat
  BY <1>1, WritesAssumption DEF Call
<1>5. CASE result = "done" /\ call[c].kind = "delete"
  <2>1. call[c].base + 1 \in 1 .. Rev /\ log[call[c].base + 1].by = c
    <3>1. call'[c].base + 1 \in LandedAt(c)'
      BY <1>2, <1>5, AnswersNext DEF DeletedIsInHistory
    <3> QED BY <1>2, <3>1 DEF LandedAt
  <2>2. Register!True(c, "done")
    BY <1>1, <1>3, <1>4, <1>5, <2>1 DEF Register!True, Register!Rev, Rev, Op
  <2>3. View(v).said = "done"
    BY <1>2, <1>5 DEF View
  <2> QED BY <1>1, <2>2, <2>3, <1>5, SayRefines
<1>6. CASE result = "done" /\ call[c].kind = "write"
  <2>1. \E r \in call[c].base + 1 .. Rev : log[r].text = call[c].text
    <3>1. call'[c].kind = "write" /\ call'[c].result = "done"
      BY <1>2, <1>6
    <3>2. \E r \in call'[c].base + 1 .. Rev' : log'[r].text = call'[c].text
      BY <3>1, AnswersNext DEF WrittenIsInHistory
    <3> HIDE DEF v
    <3> QED BY <1>2, <3>2
  <2>2. Register!True(c, "done")
    BY <1>3, <1>6, <2>1 DEF Register!True, Register!Rev, Rev, Op
  <2>3. View(v).said = "done"
    BY <1>2, <1>6 DEF View
  <2> QED BY <1>1, <2>2, <2>3, <1>6, SayRefines
<1>7. CASE result = "conflict" /\ ~call[c].unknown
  <2>1. LandedAt(c)' = {}
    BY <1>2, <1>7, AnswersNext DEF RefusedChangesNothing
  <2>2. \A r \in 1 .. Rev : log[r].by # c
    BY <1>2, <2>1 DEF LandedAt
  <2>3. Register!True(c, "refused")
    BY <1>1, <1>3, <2>2 DEF Register!True, Register!Rev, Rev, Op
  <2>4. View(v).said = "refused"
    BY <1>2, <1>7 DEF View
  <2> QED BY <1>1, <2>3, <2>4, <1>7, SayRefines
<1>8. CASE result = "failed" \/ (result = "conflict" /\ call[c].unknown)
  <2>1. Register!True(c, "unsure")
    BY DEF Register!True
  <2>2. View(v).said = "unsure"
    BY <1>2, <1>8 DEF View
  <2> QED BY <1>1, <2>1, <2>2, <1>8, SayRefines
<1>9. CASE result = "conflict"
  BY <1>7, <1>8, <1>9, Zenon
<1>10. CASE result = "done"
  BY <1>1, <1>5, <1>6, <1>10, Zenon
<1>11. CASE result = "failed"
  BY <1>8, <1>11, Zenon
<1> QED BY <1>9, <1>10, <1>11

\* Every step of a call outside its children is a step of the register or is
\* not seen.
LEMMA CallingRefines ==
  ASSUME IInv, IInv', NEW c \in Calls, Calling(c)
  PROVE  [Register!Next]_<<log, Op>>
<1> USE WritesAssumption
<1>1. call[c] \in Call /\ call \in [Calls -> Call] /\ log' = log
  BY DEF IInv, TypeOK, Calling, ObserveForWrite, ReadFails, ObserveForDelete, Refuse, Send, NoChild,
         Landed, TransportFails, RemoteFails, Conflict, Resolve, ResolveFails
<1>2. ASSUME NEW result \in {"done", "conflict", "failed"}, Ends(c, result),
             call[c].at \in {"send", "wait", "resolve"}
      PROVE  Register!Next
  BY <1>1, <1>2, EndRefines DEF Register!Next
<1>3. ASSUME NEW v \in Call, call' = [call EXCEPT ![c] = v], View(v) = View(call[c])
      PROVE  UNCHANGED <<log, Op>>
  BY <1>1, <1>3, Unseen
<1>4. ASSUME NEW kind \in {"write", "delete"}, NEW guard \in {"none", "create", "revision"},
             Guarded(c, kind, guard, IF guard # "none" THEN Rev ELSE 0), call[c].at = "idle",
             kind = "delete" => guard # "none" /\ Rev > 0
      PROVE  Register!Next
  <2>1. Register!Observe(c, kind, guard # "none")
    BY <1>1, <1>4, ObserveRefines
  <2> QED BY <2>1 DEF Register!Next
<1>5. CASE ObserveForWrite(c)
  <2>1. CASE Rev = 0
    BY <1>4, <1>5, <2>1 DEF ObserveForWrite
  <2>2. CASE Rev # 0
    BY <1>4, <1>5, <2>2 DEF ObserveForWrite
  <2> QED BY <2>1, <2>2
<1>6. CASE ReadFails(c)
  BY <1>4, <1>6 DEF ReadFails
<1>7. ASSUME call[c].at = "idle", NEW result \in {"already", "failed"}, Ends(c, result),
             result = "already" => Rev > 0 /\ log[Rev].deleted
      PROVE  Register!Next
  <2>1. call[c].kind = "none" /\ call[c].result = "none" /\ Op[c].kind = "none"
    BY <1>1, <1>7 DEF IInv, Stages, Call, Op, View
  <2>2. CASE result = "already"
    <3>1. Register!True(c, "already")
      BY <1>7, <2>1, <2>2 DEF Register!True, Register!Rev, Rev, Op
    <3>2. View([call[c] EXCEPT !.at = "done", !.result = result]).said = "already"
      BY <1>1, <2>2 DEF View, Call
    <3> QED BY <1>1, <1>7, <2>1, <3>1, <3>2, SayRefines DEF Register!Next
  <2>3. CASE result = "failed"
    <3>1. Register!True(c, "unsure")
      BY DEF Register!True
    <3>2. View([call[c] EXCEPT !.at = "done", !.result = result]).said = "unsure"
      BY <1>1, <2>3 DEF View, Call
    <3> QED BY <1>1, <1>7, <2>1, <3>1, <3>2, SayRefines DEF Register!Next
  <2> QED BY <1>7, <2>2, <2>3
<1>8. CASE ObserveForDelete(c)
  <2>0. Rev \in Nat
    BY DEF IInv, TypeOK, Rev
  <2>1. CASE Rev = 0
    BY <1>7, <1>8, <2>1 DEF ObserveForDelete
  <2>2. CASE Rev # 0 /\ log[Rev].deleted
    BY <1>7, <1>8, <2>0, <2>2 DEF ObserveForDelete
  <2>3. CASE Rev # 0 /\ ~log[Rev].deleted
    BY <1>4, <1>8, <2>0, <2>3 DEF ObserveForDelete
  <2> QED BY <2>1, <2>2, <2>3
<1>9. CASE Refuse(c)
  BY <1>7, <1>9 DEF Refuse
<1>10. CASE Send(c)
  <2> DEFINE v == [call[c] EXCEPT !.at = "wait", !.tries = @ + 1]
  <2>1. call' = [call EXCEPT ![c] = v] /\ call'[c] = v
    BY <1>1, <1>10 DEF Send
  <2>2. v \in Call
    BY <2>1 DEF IInv, TypeOK
  <2>3. View(v) = View(call[c])
    BY <1>1 DEF View, Call
  <2> QED BY <1>3, <2>1, <2>2, <2>3
<1>11. CASE NoChild(c)
  BY <1>2, <1>11 DEF NoChild
<1>12. CASE Landed(c)
  BY <1>2, <1>12 DEF Landed, Answer
<1>13. ASSUME call[c].result = "none",
              \/ call' = [call EXCEPT ![c].at = "send", ![c].again = TRUE, ![c].unknown = TRUE]
              \/ call' = [call EXCEPT ![c].at = "send", ![c].second = TRUE, ![c].again = FALSE,
                                      ![c].unknown = TRUE]
              \/ call' = [call EXCEPT ![c].at = "resolve"]
       PROVE  UNCHANGED <<log, Op>>
  <2>1. PICK v : call' = [call EXCEPT ![c] = v]
    <3> DEFINE v1 == [call[c] EXCEPT !.at = "send", !.again = TRUE, !.unknown = TRUE]
               v2 == [call[c] EXCEPT !.at = "send", !.second = TRUE, !.again = FALSE, !.unknown = TRUE]
               v3 == [call[c] EXCEPT !.at = "resolve"]
    <3>1. \/ call' = [call EXCEPT ![c] = v1] \/ call' = [call EXCEPT ![c] = v2]
          \/ call' = [call EXCEPT ![c] = v3]
      BY <1>13
    <3> QED BY <3>1
  <2>2. v = call'[c] /\ v \in Call
    BY <1>1, <2>1 DEF IInv, TypeOK
  <2>3. v.kind = call[c].kind /\ v.guard = call[c].guard /\ v.base = call[c].base
        /\ v.text = call[c].text /\ v.result = "none"
    BY <1>1, <1>13, <2>2 DEF Call
  <2>4. View(v) = View(call[c])
    BY <1>13, <2>3 DEF View
  <2> QED BY <1>3, <2>1, <2>2, <2>4
<1>14. call[c].at \in {"wait", "resolve"} => call[c].result = "none"
  BY <1>1 DEF IInv, Stages, Call
<1>15. CASE TransportFails(c)
  BY <1>2, <1>13, <1>14, <1>15 DEF TransportFails
<1>16. CASE RemoteFails(c)
  BY <1>2, <1>13, <1>14, <1>16 DEF RemoteFails, Answer
<1>17. CASE Conflict(c)
  BY <1>2, <1>13, <1>14, <1>17 DEF Conflict, Answer
<1>18. CASE Resolve(c) \/ ResolveFails(c)
  BY <1>2, <1>18 DEF Resolve, ResolveFails
<1> QED BY <1>5, <1>6, <1>8, <1>9, <1>10, <1>11, <1>12, <1>15, <1>16, <1>17, <1>18 DEF Calling

\* A child's step is the register's swap or is not seen.
LEMMA ServingRefines ==
  ASSUME IInv, NEW c \in Calls, NEW n \in Try, Serving(c, n)
  PROVE  [Register!Next]_<<log, Op>>
<1>1. call' = call /\ Op' = Op
  BY DEF Serving, Check, Put, RemoteRefuses, Op
<1>2. CASE Put(c, n) /\ attempt[c][n].rev = Rev
  <2>1. /\ call[c] \in Call /\ attempt[c][n].at = "checked" /\ Stages(c) /\ Guards(c) /\ Outcomes(c)
        /\ Op[c] = View(call[c])
    BY <1>2 DEF IInv, TypeOK, Put, Op
  <2>2. n <= call[c].tries
    BY <2>1, WritesAssumption DEF Guards, Try, Call
  <2>3. call[c].kind # "none"
    <3>1. call[c].tries >= 1
      BY <2>1, <2>2, WritesAssumption DEF Try, Call
    <3> QED BY <2>1, <3>1 DEF Stages
  <2>4. View(call[c]).said # "refused"
    <3>1. ASSUME call[c].result = "conflict", ~call[c].unknown PROVE FALSE
      <4>1. call[c].tries = 1 /\ attempt[c][1].at = "conflict"
        BY <2>1, <3>1 DEF Outcomes
      <4> QED BY <2>1, <2>2, <4>1 DEF Try
    <3> QED BY <2>1, <3>1 DEF View, Call
  <2>5. call[c].guard # "none" => call[c].base = Rev
    BY <1>2, <2>1 DEF Guards
  <2>6. /\ Rev < MaxRev
        /\ log' = Append(log, IF call[c].kind = "delete"
                              THEN [log[Rev] EXCEPT !.deleted = TRUE, !.by = c]
                              ELSE [text |-> call[c].text, deleted |-> FALSE, by |-> c])
    BY <1>2 DEF Put, Lands, Append1
  <2>7. /\ Op[c].kind = call[c].kind /\ Op[c].guarded = (call[c].guard # "none")
        /\ Op[c].base = call[c].base /\ Op[c].text = call[c].text /\ Op[c].said # "refused"
    BY <2>1, <2>4 DEF View
  <2>8. Register!Swap(c)
    BY <1>1, <2>3, <2>5, <2>6, <2>7
       DEF Register!Swap, Register!Becomes, Register!Rev, Rev, Op
  <2> QED BY <2>8 DEF Register!Next
<1>3. CASE ~(Put(c, n) /\ attempt[c][n].rev = Rev)
  BY <1>1, <1>3 DEF Serving, Check, Put, RemoteRefuses
<1> QED BY <1>2, <1>3

\* The servers, the supervisors and their children implement the register.
THEOREM ImplementsTheRegister == Spec => ImplementsRegister
<1>1. Init => Register!Init
  <2> SUFFICES ASSUME Init PROVE Register!Init
    OBVIOUS
  <2>1. ASSUME NEW c \in Calls
        PROVE  View(call[c]) \in [kind : {"none"}, guarded : {FALSE}, base : {0}, text : Texts,
                                  said : {"nothing"}]
    <3>1. PICK t \in Texts : call[c] = Fresh(t)
      BY DEF Init
    <3>2. /\ call[c].kind = "none" /\ call[c].guard = "none" /\ call[c].base = 0
          /\ call[c].text = t /\ call[c].result = "none"
      BY <3>1 DEF Fresh
    <3>3. View(call[c]) = [kind |-> "none", guarded |-> FALSE, base |-> 0, text |-> t,
                           said |-> "nothing"]
      BY <3>2 DEF View
    <3> QED BY <3>3
  <2> QED BY <2>1 DEF Init, Register!Init
<1>2. IInv /\ IInv' /\ [Next]_vars => [Register!Next]_<<log, Op>>
  <2> SUFFICES ASSUME IInv, IInv', [Next]_vars PROVE [Register!Next]_<<log, Op>>
    OBVIOUS
  <2>1. CASE DeviceWrites \/ DeviceDeletes
    <3>1. PICK r : Append1(r) /\ r \in Revision /\ r.by = Device
      <4>1. CASE DeviceWrites
        <5>1. PICK t \in Texts : Append1([text |-> t, deleted |-> FALSE, by |-> Device])
          BY <4>1 DEF DeviceWrites
        <5> DEFINE x == [text |-> t, deleted |-> FALSE, by |-> Device]
        <5>2. x \in Revision /\ x.by = Device /\ Append1(x)
          BY <5>1 DEF Revision
        <5> HIDE DEF x
        <5> QED BY <5>2
      <4>2. CASE DeviceDeletes
        <5>1. log[Rev] \in Revision
          BY <4>2 DEF DeviceDeletes, IInv, TypeOK, Rev
        <5> DEFINE x == [log[Rev] EXCEPT !.deleted = TRUE, !.by = Device]
        <5>2. x \in Revision /\ x.by = Device /\ Append1(x)
          BY <4>2, <5>1 DEF DeviceDeletes, Revision
        <5> HIDE DEF x
        <5> QED BY <5>2
      <4> QED BY <2>1, <4>1, <4>2
    <3>2. r \in [text : Texts, deleted : BOOLEAN, by : {Device}]
      BY <3>1 DEF Revision
    <3>3. Op' = Op
      BY <2>1 DEF DeviceWrites, DeviceDeletes, Op
    <3>4. Register!Foreign
      BY <3>1, <3>2, <3>3 DEF Append1, Rev, Op, Register!Foreign, Register!Becomes, Register!Rev
    <3> QED BY <3>4 DEF Register!Next
  <2>3. ASSUME NEW c \in Calls, Calling(c) PROVE [Register!Next]_<<log, Op>>
    BY <2>3, CallingRefines
  <2>4. ASSUME NEW c \in Calls, NEW n \in Try, Serving(c, n) PROVE [Register!Next]_<<log, Op>>
    BY <2>4, ServingRefines
  <2>5. CASE UNCHANGED vars
    BY <2>5 DEF vars, Op
  <2> QED BY <2>1, <2>3, <2>4, <2>5 DEF Next
<1>3. [Register!Next]_<<log, Op>> <=> [Register!Next]_<<log, [c \in Calls |-> View(call[c])]>>
  BY DEF Op
<1> QED BY <1>1, <1>2, <1>3, Invariance, PTL DEF Spec, ImplementsRegister, Register!Spec
=============================================================================
