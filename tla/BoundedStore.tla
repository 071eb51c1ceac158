--------------------------- MODULE BoundedStore ---------------------------
(***************************************************************************)
(* The object store's requests under their bounds (platform/bounded): an   *)
(* attempt is watched while it waits on the store, cancelled once the      *)
(* store has said nothing for longer than its bound, and made again where  *)
(* that is safe.  A cancelled attempt may still land.  A body that stalls  *)
(* is asked again for what it has not handed over, of the same object.     *)
(* An object is two bytes long, and time passes in ticks.                  *)
(***************************************************************************)
EXTENDS Integers, Sequences, FiniteSets, SequencesExt

CONSTANTS FirstByte, Stall, \* Bounds
          MaxWrites,        \* bound on the versions ever written
          MaxAttempts       \* bound on the attempts of one call

Size == 2

VARIABLES object, written, \* the version the store holds, 0 for none, and the versions used
          call,   \* the caller's request
          att,    \* the attempt: what the store has done of it
          watch,  \* the attempt's watch
          body,   \* a GET's body
          late    \* the cancelled attempts that may still land

vars == <<object, written, call, att, watch, body, late>>

Ops == {"get", "create", "replace", "put", "delete"}
Idempotent == {"get", "create", "replace"}
NoAtt == [taken |-> 0, did |-> "nothing"]
NoBody == [etag |-> 0, got |-> <<>>, cur |-> 0]
NoWatch == [waiting |-> FALSE, under |-> "first", age |-> 0, timer |-> -1, due |-> FALSE, fired |-> FALSE]
NoCall == [op |-> "none", at |-> "idle", cond |-> 0, attempts |-> 0, landed |-> 0, removed |-> FALSE, result |-> "none", ended |-> FALSE]

----------------------------------------------------------------------------
(* The watch.                                                              *)

LimitOf(under) == IF under = "stall" THEN Stall ELSE FirstByte
\* deadline: a timer due no later than the bound is left, and looks again.
Deadline(w) == IF w.timer # -1 /\ LimitOf(w.under) >= w.timer THEN w ELSE [w EXCEPT !.timer = LimitOf(w.under), !.due = FALSE]
\* wait, progress, idle, stop.
Wait(w, under) == IF w.fired THEN w ELSE Deadline([w EXCEPT !.waiting = TRUE, !.under = under, !.age = 0])
Progress(w, under) == IF ~w.waiting THEN w ELSE Deadline([w EXCEPT !.under = under, !.age = 0])
Idle(w) == [w EXCEPT !.waiting = FALSE, !.timer = -1, !.due = FALSE, !.age = 0]
Begun == Wait(NoWatch, "first")

\* Time passes; the timer's function runs some time after it is due.
Tick ==
    /\ watch.waiting /\ ~watch.fired /\ watch.age <= FirstByte
    /\ watch' = [watch EXCEPT !.age = @ + 1, !.timer = IF @ > 0 THEN @ - 1 ELSE @, !.due = @ \/ watch.timer = 1]
    /\ UNCHANGED <<object, written, call, att, body, late>>
\* check: a wait that outlived its bound is cancelled, and one that made
\* progress is looked at again after what is left of it.
Outlived(w) == w.age >= LimitOf(w.under)
Check ==
    /\ watch.due
    /\ watch' = IF ~watch.waiting \/ watch.fired THEN [watch EXCEPT !.timer = -1, !.due = FALSE]
                ELSE IF Outlived(watch) THEN [watch EXCEPT !.fired = TRUE, !.timer = -1, !.due = FALSE]
                ELSE [watch EXCEPT !.timer = LimitOf(watch.under) - watch.age, !.due = FALSE]
    /\ UNCHANGED <<object, written, call, att, body, late>>

----------------------------------------------------------------------------
(* A request.                                                              *)

Call(op) ==
    /\ call.at = "idle"
    /\ call' = [NoCall EXCEPT !.op = op, !.at = "wait", !.attempts = 1, !.cond = IF op = "replace" THEN object ELSE 0]
    /\ att' = NoAtt /\ watch' = Begun /\ body' = NoBody
    /\ UNCHANGED <<object, written, late>>

\* upload: the store takes the body, under the stall bound until it has it all.
Writes == {"create", "replace", "put"}
Takes ==
    /\ call.at = "wait" /\ call.op \in Writes /\ att.taken < Size
    /\ att' = [att EXCEPT !.taken = @ + 1]
    /\ watch' = Progress(watch, IF att.taken + 1 = Size THEN "first" ELSE "stall")
    /\ UNCHANGED <<object, written, call, body, late>>

\* The store applies a write, or refuses it by its condition.
Holds(op, cond) == CASE op = "create" -> object = 0 [] op = "replace" -> object = cond [] OTHER -> TRUE
Applied(op) == IF op = "delete" THEN 0 ELSE written + 1
MayApply(op, taken) == (op = "delete" \/ taken = Size) /\ (op = "delete" \/ written < MaxWrites)
Applies ==
    /\ call.at = "wait" /\ call.op # "get" /\ att.did = "nothing" /\ MayApply(call.op, att.taken)
    /\ IF Holds(call.op, call.cond)
       THEN /\ object' = Applied(call.op) /\ written' = IF call.op = "delete" THEN written ELSE written + 1
            /\ att' = [att EXCEPT !.did = "applied"] /\ call' = [call EXCEPT !.landed = @ + 1]
       ELSE att' = [att EXCEPT !.did = "refused"] /\ UNCHANGED <<object, written, call>>
    /\ UNCHANGED <<watch, body, late>>
\* The attempts given up on before land, or never do.
Lands ==
    \E l \in late :
        /\ late' = late \ {l}
        /\ \/ UNCHANGED <<object, written, call>>
           \/ /\ written < MaxWrites /\ Holds(l.op, l.cond) /\ object' = Applied(l.op)
              /\ written' = IF l.op = "delete" THEN written ELSE written + 1
              /\ call' = IF l.call = call.op /\ call.at # "idle" THEN [call EXCEPT !.landed = @ + 1] ELSE call
        /\ UNCHANGED <<att, watch, body>>
OtherWrites ==
    /\ written < MaxWrites /\ object' = written + 1 /\ written' = written + 1
    /\ UNCHANGED <<call, att, watch, body, late>>
OtherDeletes ==
    /\ object # 0 /\ object' = 0 /\ call' = [call EXCEPT !.removed = call.at # "idle"]
    /\ UNCHANGED <<written, att, watch, body, late>>

Done(result) == [call EXCEPT !.at = "done", !.result = result]
Stopped == NoWatch
Replies ==
    /\ call.at = "wait" /\ call.op # "get" /\ att.did # "nothing"
    /\ call' = Done(IF att.did = "applied" THEN "ok" ELSE "refused")
    /\ watch' = Stopped /\ UNCHANGED <<object, written, att, body, late>>
\* The headers of a GET; a body resumed is of the object it began as.
Same(v) == v = body.etag
Headers ==
    /\ call.at = "wait" /\ call.op = "get"
    /\ IF object = 0 THEN call' = Done("absent") /\ watch' = Stopped /\ UNCHANGED body
       ELSE IF body.etag = 0 \/ Same(object)
            THEN /\ call' = [call EXCEPT !.at = "body"] /\ watch' = Idle(watch)
                 /\ body' = [body EXCEPT !.etag = IF @ = 0 THEN object ELSE @, !.cur = object]
            ELSE call' = Done("changed") /\ watch' = Stopped /\ UNCHANGED body
    /\ UNCHANGED <<object, written, att, late>>

\* body.Read: under the stall bound while it waits for more.
Reads ==
    /\ call.at = "body" /\ call' = [call EXCEPT !.at = "reads"] /\ watch' = Wait(watch, "stall")
    /\ UNCHANGED <<object, written, att, body, late>>
Gives ==
    /\ call.at = "reads" /\ Len(body.got) < Size
    /\ body' = [body EXCEPT !.got = Append(@, body.cur)] /\ watch' = Idle(watch)
    /\ call' = [call EXCEPT !.at = "body"]
    /\ UNCHANGED <<object, written, att, late>>
EndOfBody ==
    /\ call.at = "reads" /\ Len(body.got) = Size /\ call' = Done("ok") /\ watch' = Stopped
    /\ UNCHANGED <<object, written, att, body, late>>

\* call, resume: an attempt its watch cancelled is made again where that is
\* safe, and one whose caller is gone is not.
Repeats(op) == op \in Idempotent
Left == IF call.op # "get" /\ att.did = "nothing" THEN late \cup {[op |-> call.op, cond |-> call.cond, call |-> call.op]} ELSE late
Expires ==
    /\ call.at \in {"wait", "reads"} /\ watch.fired
    /\ \E given \in IF call.at = "reads" /\ Len(body.got) < Size THEN {<<>>, <<body.cur>>} ELSE {<<>>} :
          /\ body' = [body EXCEPT !.got = @ \o given]
          /\ IF call.ended THEN call' = Done("cancelled") /\ watch' = Stopped
             ELSE IF ~Repeats(call.op) THEN call' = Done("timedout") /\ watch' = Stopped
             ELSE IF call.at = "reads" /\ Len(body'.got) = Size THEN call' = Done("ok") /\ watch' = Stopped
             ELSE /\ call.attempts < MaxAttempts
                  /\ call' = [call EXCEPT !.at = "wait", !.attempts = @ + 1] /\ watch' = Begun
    /\ att' = NoAtt /\ late' = Left /\ UNCHANGED <<object, written>>
\* The store fails, or the caller's context ends.
Fails ==
    /\ call.at \in {"wait", "reads"} /\ call' = Done("error") /\ watch' = Stopped /\ late' = Left
    /\ UNCHANGED <<object, written, att, body>>
CallerGoes == call.at \in {"wait", "reads"} /\ ~call.ended /\ call' = [call EXCEPT !.ended = TRUE] /\ UNCHANGED <<object, written, att, watch, body, late>>
Returns == call.at = "done" /\ late = {} /\ call' = NoCall /\ att' = NoAtt /\ body' = NoBody /\ UNCHANGED <<object, written, watch, late>>

Init == object \in {0, 1} /\ written = 1 /\ call = NoCall /\ att = NoAtt /\ watch = NoWatch /\ body = NoBody /\ late = {}
Next == \/ \E op \in Ops : Call(op)
        \/ Tick \/ Check \/ Takes \/ Applies \/ Lands \/ OtherWrites \/ OtherDeletes \/ Replies \/ Headers \/ Reads \/ Gives \/ EndOfBody
        \/ Expires \/ Fails \/ CallerGoes \/ Returns
\* Time passes, timers run, and an attempt cancelled returns.
Spec == Init /\ [][Next]_vars /\ WF_vars(Tick) /\ WF_vars(Check) /\ WF_vars(Expires)

----------------------------------------------------------------------------
\* Every variable keeps its type (watch, body).
TypeOK == /\ watch.age \in 0..(FirstByte + 1) /\ watch.timer \in -1..FirstByte /\ Len(body.got) \in 0..Size
          /\ watch.due => watch.timer # -1

\* A wait is always watched: its timer is due no later than its bound, however
\* the bound changed as the body went (deadline, check).
WaitsWatched == (watch.waiting /\ ~watch.fired) => watch.timer # -1 /\ (watch.due \/ watch.timer <= LimitOf(watch.under) - watch.age)

\* No attempt is cancelled while the store answers within its bound, nor while
\* its caller holds a body unread (check, idle).
NoneCancelledEarly == [][(~watch.fired /\ watch'.fired) => watch.waiting /\ watch.age >= LimitOf(watch.under)]_vars

\* A body is one object's bytes, whatever stalled and was asked again (resume).
OneObject == \A i \in DOMAIN body.got : body.got[i] = body.etag

\* A call changes the store at most once, its retries and the attempts given
\* up on included: an unconditional write is never made again, and a
\* conditional one is refused by what it wrote, while that is there (call).
LandsOnce == (call.removed => call.op \in {"put", "delete"}) => call.landed <= 1

\* Every attempt ends: answered, failed, or cancelled at its bound (watch).
AttemptsEnd == (call.at = "wait" /\ call.attempts < MaxAttempts) ~> (call.at # "wait" \/ call.attempts = MaxAttempts)
====
