--------------------------- MODULE BookmarkShelf ---------------------------
(***************************************************************************)
(* What the bookmark routes promise the clients of one user, with no table *)
(* and no bucket: a shelf holds the user's list or nothing, a write takes  *)
(* effect at one instant between its request and its answer or not at all, *)
(* and a read that succeeds returns the list of one instant of the read.   *)
(* An invocation may die at any time; then its write may have taken effect *)
(* although its client reads an error.                                     *)
(***************************************************************************)
CONSTANTS Handlers, Serves, Urls, ValidUrls,
          NoList        \* the shelf is empty

Reads  == {"get", "head"}
Writes == {"put", "post", "remove", "delete"}
Lists  == SUBSET Urls

VARIABLES shelf, call
vars == <<shelf, call>>

\* found is the list a read has looked at.
Calls == [op     : Reads \union Writes \union {"none"},
          phase  : {"idle", "called", "effected", "answered"},
          arg    : Lists,
          found  : {NoList} \union Lists,
          answer : {"none", "ok", "badRequest", "forbidden", "notFound", "error"},
          body   : Lists]

NoCall == [op |-> "none", phase |-> "idle", arg |-> {}, found |-> NoList,
           answer |-> "none", body |-> {}]

In(h, phase, ops) == call[h].phase = phase /\ call[h].op \in ops

AnsweredBy(c, answer, body) ==
    [c EXCEPT !.phase = "answered", !.found = NoList, !.answer = answer, !.body = body]

Answer(h, answer, body) == call' = [call EXCEPT ![h] = AnsweredBy(@, answer, body)]

-----------------------------------------------------------------------------
Invoke(h) ==
    /\ call[h].phase = "idle"
    /\ \E op \in Serves[h], arg \in Lists :
          LET c == [NoCall EXCEPT !.op = op, !.arg = arg, !.phase = "called"]
          IN  call' = [call EXCEPT ![h] = IF arg \subseteq ValidUrls THEN c
                                          ELSE AnsweredBy(c, "badRequest", {})]
    /\ UNCHANGED shelf

\* What a write makes of the shelf.
Effect(op, arg) ==
    CASE op = "put"    -> arg
      [] op = "post"   -> IF shelf = NoList THEN arg ELSE shelf \union arg
      [] op = "remove" -> shelf \ arg
      [] op = "delete" -> NoList

\* A write takes effect: its client is then told so, or is told of an error.
Write(h) ==
    /\ In(h, "called", Writes)
    /\ call[h].op \in {"remove", "delete"} => shelf # NoList
    /\ shelf' = Effect(call[h].op, call[h].arg)
    /\ \/ call' = [call EXCEPT ![h].phase = "effected"]
       \/ \E answer \in {"ok", "error"} : Answer(h, answer, {})

\* As a write ends, the reads that still hold the list it replaced may lose it.
EndWrite(h) ==
    /\ In(h, "effected", Writes)
    /\ \E answer \in {"ok", "error"}, losers \in SUBSET Handlers :
          /\ \A r \in losers : In(r, "effected", Reads)
          /\ call' = [c \in Handlers |->
                IF c = h THEN AnsweredBy(call[c], answer, {})
                ELSE IF c \in losers THEN [call[c] EXCEPT !.found = NoList]
                ELSE call[c]]
    /\ UNCHANGED shelf

Look(h) ==
    /\ In(h, "called", Reads)
    /\ shelf # NoList
    /\ call' = [call EXCEPT ![h].phase = "effected", ![h].found = shelf]
    /\ UNCHANGED shelf

EndGet(h) ==
    /\ In(h, "effected", {"get"})
    /\ IF call[h].found \in {NoList, {}} THEN Answer(h, "notFound", {})
                                         ELSE Answer(h, "ok", call[h].found)
    /\ UNCHANGED shelf

EndHead(h) ==
    /\ In(h, "effected", {"head"})
    /\ IF call[h].found = NoList THEN Answer(h, "notFound", {})
       ELSE Answer(h, IF call[h].arg \subseteq call[h].found THEN "ok" ELSE "notFound", {})
    /\ UNCHANGED shelf

\* 404 without a look is for an empty shelf; 403 is for writes, while a
\* distribution is pending or when there is nothing to delete.
Refuse(h) ==
    /\ \/ /\ In(h, "called", {"get", "head", "remove"})
          /\ shelf = NoList
          /\ Answer(h, "notFound", {})
       \/ /\ In(h, "called", {"put", "post", "delete"})
          /\ Answer(h, "forbidden", {})
    /\ UNCHANGED shelf

Fail(h) ==
    /\ In(h, "called", Reads \union Writes) \/ In(h, "effected", Reads)
    /\ Answer(h, "error", {})
    /\ UNCHANGED shelf

Leave(h) ==
    /\ call[h].phase = "answered"
    /\ call' = [call EXCEPT ![h] = NoCall]
    /\ UNCHANGED shelf

-----------------------------------------------------------------------------
Init == /\ shelf \in {NoList} \union SUBSET ValidUrls
        /\ call = [h \in Handlers |-> NoCall]

Next == \E h \in Handlers :
           \/ Invoke(h) \/ Write(h)   \/ EndWrite(h) \/ Look(h) \/ EndGet(h)
           \/ EndHead(h) \/ Refuse(h) \/ Fail(h)     \/ Leave(h)

Spec == Init /\ [][Next]_vars
=============================================================================
