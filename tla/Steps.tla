------------------------------- MODULE Steps -------------------------------
(***************************************************************************)
(* The notation in which the main() functions of perftest, and the set-up  *)
(* and tear-down functions they call, are written down: a program is a     *)
(* flat sequence of steps in source order, with the C labels as markers    *)
(* and "goto" as a jump, so that an error ladder (goto free_mem; ...) is   *)
(* the ladder of the source.  Programs.tla executes it.                    *)
(*                                                                         *)
(* Every step is a record [op, rs, to, arg].  "to" is where a failing step *)
(* goes, or the target of a jump; labels and resources are pairs <<owner,  *)
(* name>>, the owner being the function (label) or the structure           *)
(* (resource) they belong to.  A constructor returns a one-step sequence,  *)
(* and programs are put together with \o.                                  *)
(***************************************************************************)
EXTENDS Naturals, Sequences

Step(op, rs, to, arg) == << [op |-> op, rs |-> rs, to |-> to, arg |-> arg] >>

Nowhere == <<"", "">>        \* the step cannot fail
Exit    == <<"", "exit">>    \* exit(1): the process ends, nothing is unwound

\* Control: labels, goto, return, and the C flags tested on the way out.
At(l)            == Step("at", {}, l, "")
Goto(l)          == Step("goto", {}, l, "")
Ret(code)        == Step("ret", {}, Nowhere, code)
Set(flag)        == Step("set", {}, Nowhere, flag)
Clear(flag)      == Step("clear", {}, Nowhere, flag)
IfSet(flag, l)   == Step("if", {}, l, flag)
When(b, steps)   == IF b THEN steps ELSE <<>>

\* A call that can fail and acquires the resources rs when it succeeds.
Get(rs, to)      == Step("get", rs, to, "")
Call(to)         == Get({}, to)
\* The same when a failure is only printed; and a use of a live object.
Try(here, rs)    == Get(rs, here) \o At(here)
Use(rs)          == Step("use", rs, Nowhere, "")
\* free(): NULL is allowed.  The pointer stays stale, or is set to NULL.
Free(rs)         == Step("free", rs, Nowhere, "stale")
FreeNull(rs)     == Step("free", rs, Nowhere, "null")
\* A destructor, which needs a live object: Put whatever the pointer holds,
\* PutIf only when it is not NULL.  The pointer stays stale, or is set to NULL.
\* "to" says what becomes of an error code: ignored (Nowhere), remembered in
\* destroy_ctx's test_result (Noted), or a goto.
Noted            == <<"", "noted">>
Put(rs, to)      == Step("put", rs, to, "stale")
PutNull(rs, to)  == Step("put", rs, to, "null")
PutIf(rs, to)    == Step("putif", rs, to, "stale")
PutIfNull(rs, to) == Step("putif", rs, to, "null")
\* Undoing a registration: without one the call only returns an error.
Undo(rs, to)     == Step("undo", rs, to, "")

\* The out-of-band connection: the socket, or a control QP (spin: the read
\* polls a completion queue until something arrives).
Listen(to)       == Step("accept", {}, to, "")
Connect(to)      == Step("connect", {}, to, "")
Tell(kind, to)   == Step("tell", {}, to, kind)
Hear(kind, to)   == Step("hear", {}, to, kind)
Poll(kind, to)   == Step("poll", {}, to, kind)

\* The measured traffic: receives are posted for the next round; a round is
\* entered (the first work requests are posted) and finished.
Post(to)         == Step("post", {}, to, "")
Enter(way, to)   == Step("enter", {}, to, way)
Finish(way, to)  == Step("finish", {}, to, way)
Run(way, to)     == Enter(way, to) \o Finish(way, to)

\* if (steps fail) { cleanup; goto to; }
Failed(here) == here \o <<"failed">>
OrElse(here, steps, cleanup, to) ==
    LET ok == here \o <<"ok">>
    IN steps \o Goto(ok) \o At(Failed(here)) \o cleanup \o Goto(to) \o At(ok)

\* A call of one of the functions that Programs puts in by name.
Do(f, args) == Step("do", args, Nowhere, f)

\* A function body, then the error ladder that only a goto reaches.
Function(return, body, ladder) == body \o Goto(return) \o ladder \o At(return)
=============================================================================
