------------------------ MODULE RequestThreads_proofs ------------------------
(* What the cache answers while any number of threads write, evict and read: *)
(* for any set of nodes, any number of writes and of crashes.                *)
EXTENDS RequestThreads, FiniteSetTheorems, TLAPS

(* What a request may have left to do.                                       *)
HookRest == {<<"lookup", "upsert", "answer">>, <<"upsert", "answer">>, <<"answer">>}
EditRest == HookRest \cup {<<"evict", "lookup", "upsert", "answer">>,
                           <<"write", "evict", "lookup", "upsert", "answer">>}
Rest == [create   |-> {<<"write", "evict", "locate", "upsert", "answer">>,
                       <<"evict", "locate", "upsert", "answer">>, <<"locate", "upsert", "answer">>,
                       <<"upsert", "answer">>, <<"answer">>},
         rename   |-> EditRest,
         metadata |-> EditRest \cup {<<"load", "write", "evict", "lookup", "upsert", "answer">>,
                                     <<"load", "load", "write", "evict", "lookup", "upsert", "answer">>},
         canvas   |-> HookRest \cup {<<"write", "lookup", "upsert", "answer">>},
         delete   |-> {<<"write", "evict", "erase", "answer">>, <<"evict", "erase", "answer">>,
                       <<"erase", "answer">>, <<"answer">>},
         get      |-> {<<"load", "answer">>, <<"answer">>}]

(* The lists spelled out.                                                    *)
LEMMA Lists ==
    /\ Head(<<"write", "evict", "locate", "upsert", "answer">>) = "write"
    /\ Tail(<<"write", "evict", "locate", "upsert", "answer">>) = <<"evict", "locate", "upsert", "answer">>
    /\ Head(<<"evict", "locate", "upsert", "answer">>) = "evict"
    /\ Tail(<<"evict", "locate", "upsert", "answer">>) = <<"locate", "upsert", "answer">>
    /\ Head(<<"locate", "upsert", "answer">>) = "locate"
    /\ Tail(<<"locate", "upsert", "answer">>) = <<"upsert", "answer">>
    /\ Head(<<"upsert", "answer">>) = "upsert"
    /\ Tail(<<"upsert", "answer">>) = <<"answer">>
    /\ Head(<<"answer">>) = "answer"
    /\ Head(<<"lookup", "upsert", "answer">>) = "lookup"
    /\ Tail(<<"lookup", "upsert", "answer">>) = <<"upsert", "answer">>
    /\ Head(<<"evict", "lookup", "upsert", "answer">>) = "evict"
    /\ Tail(<<"evict", "lookup", "upsert", "answer">>) = <<"lookup", "upsert", "answer">>
    /\ Head(<<"write", "evict", "lookup", "upsert", "answer">>) = "write"
    /\ Tail(<<"write", "evict", "lookup", "upsert", "answer">>) = <<"evict", "lookup", "upsert", "answer">>
    /\ Head(<<"load", "write", "evict", "lookup", "upsert", "answer">>) = "load"
    /\ Tail(<<"load", "write", "evict", "lookup", "upsert", "answer">>) = <<"write", "evict", "lookup", "upsert", "answer">>
    /\ Head(<<"load", "load", "write", "evict", "lookup", "upsert", "answer">>) = "load"
    /\ Tail(<<"load", "load", "write", "evict", "lookup", "upsert", "answer">>)
           = <<"load", "write", "evict", "lookup", "upsert", "answer">>
    /\ Head(<<"write", "lookup", "upsert", "answer">>) = "write"
    /\ Tail(<<"write", "lookup", "upsert", "answer">>) = <<"lookup", "upsert", "answer">>
    /\ Head(<<"write", "evict", "erase", "answer">>) = "write"
    /\ Tail(<<"write", "evict", "erase", "answer">>) = <<"evict", "erase", "answer">>
    /\ Head(<<"evict", "erase", "answer">>) = "evict"
    /\ Tail(<<"evict", "erase", "answer">>) = <<"erase", "answer">>
    /\ Head(<<"erase", "answer">>) = "erase"
    /\ Tail(<<"erase", "answer">>) = <<"answer">>
    /\ Head(<<"load", "answer">>) = "load"
    /\ Tail(<<"load", "answer">>) = <<"answer">>
  OBVIOUS

(* The order of the steps, as far as the cache depends on it.                *)
LEMMA RestFacts ==
    ASSUME NEW op \in DOMAIN Steps, NEW s \in Rest[op]
    PROVE  /\ Head(s) # "answer" => Tail(s) \in Rest[op]
           /\ Head(s) = "write" /\ op # "canvas" => Head(Tail(s)) = "evict"
           /\ Head(s) \notin {"load", "write", "answer"} => Head(Tail(s)) \notin {"load", "write", "evict"}
           /\ Head(s) = "write" => Head(Tail(s)) # "load"
           /\ Head(s) = "load" => op \in Reading
           /\ Head(s) = "load" /\ op # "get" => Head(Tail(s)) \in {"load", "write"}
           /\ Head(s) = "write" /\ op = "canvas" => Head(Tail(s)) = "lookup"
           /\ op \in {"get", "canvas"} => Head(s) # "evict"
           /\ op = "get" => Head(s) \in {"load", "answer"}
<1>1. CASE op = "create"
  BY <1>1, Lists DEF Rest, Reading
<1>2. CASE op = "rename"
  BY <1>2, Lists DEF Rest, EditRest, HookRest, Reading
<1>3. CASE op = "metadata"
  BY <1>3, Lists DEF Rest, EditRest, HookRest, Reading
<1>4. CASE op = "canvas"
  BY <1>4, Lists DEF Rest, HookRest, Reading
<1>5. CASE op = "delete"
  BY <1>5, Lists DEF Rest, Reading
<1>6. CASE op = "get"
  BY <1>6, Lists DEF Rest, Reading
<1>7. QED
  BY <1>1, <1>2, <1>3, <1>4, <1>5, <1>6 DEF Steps

LEMMA RestEnds ==
    ASSUME NEW op \in DOMAIN Steps
    PROVE  /\ Steps[op] \in Rest[op]
           /\ <<"answer">> \in Rest[op]
           /\ Head(Steps[op]) = IF op \in Reading THEN "load" ELSE "write"
           /\ Head(<<"answer">>) = "answer"
  BY Lists DEF Steps, Rest, EditRest, HookRest, Reading

-----------------------------------------------------------------------------
AllRest == UNION {Rest[op] : op \in DOMAIN Steps}
Request == [op: DOMAIN Steps, n: Id, todo: AllRest, held: Record, row: Nat, floor: Nat]

JobsOK ==
    /\ job \in [Thread -> Request \cup {Idle}]
    /\ \A t \in Thread : Busy(t) => job[t].todo \in Rest[job[t].op]

TypeInv ==
    /\ JobsOK
    /\ disk \in [Live -> Record] /\ Live \subseteq issued
    /\ boot \in [DOMAIN boot -> Record] /\ cached \subseteq DOMAIN boot /\ cached \subseteq issued
    /\ index \in [DOMAIN index -> Nat]
    /\ issued \subseteq Id /\ writes \in Nat
    /\ answered \in [Id -> Nat]

LEMMA ModifiedFunctions ==
    ASSUME NEW S, NEW T, NEW f \in [S -> T], NEW x, NEW v \in T
    PROVE  /\ With(f, x, v) \in [S \cup {x} -> T]
           /\ DOMAIN With(f, x, v) = S \cup {x}
           /\ With(f, x, v)[x] = v
           /\ \A y \in S \ {x} : With(f, x, v)[y] = f[y]
           /\ Less(f, x) \in [S \ {x} -> T]
           /\ DOMAIN Less(f, x) = S \ {x}
           /\ \A y \in S \ {x} : Less(f, x)[y] = f[y]
  BY DEF With, Less

(* A thread that runs a request has one.                                     *)
LEMMA Requests ==
    ASSUME TypeInv, NEW t \in Thread
    PROVE  /\ Busy(t) => job[t] \in Request
           /\ ~Busy(t) => job[t] = Idle
  BY DEF TypeInv, JobsOK, Busy, Idle, Request, Steps

(* The job of one thread changes, those of the others do not.                *)
LEMMA JobChange ==
    ASSUME TypeInv, NEW t \in Thread, NEW j \in Request \cup {Idle},
           j # Idle => j.todo \in Rest[j.op], job' = [job EXCEPT ![t] = j]
    PROVE  /\ JobsOK'
           /\ job'[t] = j
           /\ \A u \in Thread \ {t} : job'[u] = job[u]
  BY DEF TypeInv, JobsOK, Busy, Idle, Request, Steps

(* A step that is done: the request goes on with the rest of its list.       *)
Advanced(t, h, r) == [job[t] EXCEPT !.todo = Tail(@), !.held = h, !.row = r]

LEMMA JobAdvances ==
    ASSUME TypeInv, NEW t \in Thread, Busy(t), Head(job[t].todo) # "answer",
           NEW h \in Record, NEW r \in Nat
    PROVE  /\ Advanced(t, h, r) \in Request /\ Advanced(t, h, r) # Idle
           /\ Advanced(t, h, r).todo \in Rest[Advanced(t, h, r).op]
           /\ Advanced(t, h, r).todo = Tail(job[t].todo)
           /\ Advanced(t, h, r).op = job[t].op
           /\ Advanced(t, h, r).n = job[t].n
           /\ Advanced(t, h, r).floor = job[t].floor
           /\ Advanced(t, h, r).held = h
           /\ job[t].held \in Record /\ job[t].row \in Nat
           /\ Done(t) => job' = [job EXCEPT ![t] = Advanced(t, job[t].held, job[t].row)]
           /\ DoneWith(t, h) => job' = [job EXCEPT ![t] = Advanced(t, h, job[t].row)]
<1>1. job[t] \in Request /\ job[t].todo \in Rest[job[t].op] /\ job[t].op \in DOMAIN Steps
  BY Requests DEF TypeInv, JobsOK, Request
<1>2. Tail(job[t].todo) \in Rest[job[t].op]
  BY <1>1, RestFacts
<1>3. Tail(job[t].todo) \in AllRest
  BY <1>1, <1>2 DEF AllRest
<1>4. "none" \notin DOMAIN Steps
  BY DEF Steps
<1>5. /\ Advanced(t, h, r) \in Request
      /\ Advanced(t, h, r).todo = Tail(job[t].todo)
      /\ Advanced(t, h, r).op = job[t].op
      /\ Advanced(t, h, r).n = job[t].n
      /\ Advanced(t, h, r).floor = job[t].floor
      /\ Advanced(t, h, r).held = h
      /\ job[t].held \in Record /\ job[t].row \in Nat
  BY <1>1, <1>3 DEF Request, Advanced
<1>6. /\ Advanced(t, h, r).todo \in Rest[Advanced(t, h, r).op]
      /\ Advanced(t, h, r) # Idle
  BY <1>1, <1>2, <1>4, <1>5 DEF Idle
<1>7. Done(t) => job' = [job EXCEPT ![t] = Advanced(t, job[t].held, job[t].row)]
  <2>1. Advanced(t, job[t].held, job[t].row) = [job[t] EXCEPT !.todo = Tail(@)]
    BY <1>1 DEF Request, Advanced
  <2>2. QED
    BY <2>1 DEF Done, TypeInv, JobsOK
<1>8. DoneWith(t, h) => job' = [job EXCEPT ![t] = Advanced(t, h, job[t].row)]
  <2>1. Advanced(t, h, job[t].row) = [job[t] EXCEPT !.todo = Tail(@), !.held = h]
    BY <1>1 DEF Request, Advanced
  <2>2. QED
    BY <2>1 DEF DoneWith, TypeInv, JobsOK
<1>9. QED
  BY <1>5, <1>6, <1>7, <1>8

LEMMA JobDone ==
    ASSUME TypeInv, NEW t \in Thread, Busy(t), Head(job[t].todo) # "answer", NEW h \in Record,
           DoneWith(t, h) \/ (Done(t) /\ h = job[t].held)
    PROVE  /\ JobsOK'
           /\ \A u \in Thread \ {t} : job'[u] = job[u]
           /\ Busy(t)' /\ job'[t] # Idle
           /\ job'[t].todo = Tail(job[t].todo) /\ job'[t].held = h
           /\ job'[t].op = job[t].op /\ job'[t].n = job[t].n /\ job'[t].floor = job[t].floor
<1>1. PICK j : j = Advanced(t, h, job[t].row)
  OBVIOUS
<1>2. job[t].row \in Nat /\ job[t].held \in Record /\ job[t].op # "none"
  BY Requests DEF Request, Busy
<1>3. /\ j \in Request /\ j # Idle /\ j.todo \in Rest[j.op]
      /\ j.n = job[t].n /\ j.op = job[t].op /\ j.floor = job[t].floor
      /\ j.todo = Tail(job[t].todo) /\ j.held = h
      /\ job' = [job EXCEPT ![t] = j]
  BY <1>1, <1>2, JobAdvances
<1>4. /\ JobsOK' /\ job'[t] = j
      /\ \A u \in Thread \ {t} : job'[u] = job[u]
  BY <1>3, JobChange
<1>5. QED
  BY <1>2, <1>3, <1>4 DEF Busy

LEMMA JobEnds ==
    ASSUME TypeInv, NEW t \in Thread, job' = [job EXCEPT ![t] = Idle]
    PROVE  /\ JobsOK'
           /\ job'[t] = Idle /\ ~Busy(t)'
           /\ \A u \in Thread \ {t} : job'[u] = job[u]
<1>1. Idle \in Request \cup {Idle}
  OBVIOUS
<1>2. /\ JobsOK' /\ job'[t] = Idle
      /\ \A u \in Thread \ {t} : job'[u] = job[u]
  BY <1>1, JobChange
<1>3. QED
  BY <1>2 DEF Busy, Idle

(* A hook goes on, or has nothing more to do.                                *)
LEMMA HookDone ==
    ASSUME TypeInv, NEW t \in Thread, Busy(t), NEW r \in Nat,
           Head(job[t].todo) \in {"locate", "lookup", "upsert", "erase"},
           Done(t) \/ HookEnds(t) \/ job' = [job EXCEPT ![t].todo = Tail(@), ![t].row = r]
    PROVE  /\ JobsOK'
           /\ \A u \in Thread \ {t} : job'[u] = job[u]
           /\ job'[t].op = job[t].op /\ job'[t].n = job[t].n
           /\ job'[t].held = job[t].held /\ job'[t].floor = job[t].floor
           /\ Head(job'[t].todo) \notin {"load", "write", "evict"}
<1>1. job[t] \in Request /\ job[t].todo \in Rest[job[t].op] /\ job[t].op \in DOMAIN Steps
  BY Requests DEF TypeInv, JobsOK, Request
<1>2. /\ Head(Tail(job[t].todo)) \notin {"load", "write", "evict"}
      /\ Tail(job[t].todo) \in Rest[job[t].op] /\ <<"answer">> \in Rest[job[t].op]
      /\ Head(<<"answer">>) = "answer"
  BY <1>1, RestFacts, RestEnds
<1>3. PICK todo, row :
         /\ todo \in {Tail(job[t].todo), <<"answer">>} /\ row \in Nat
         /\ job' = [job EXCEPT ![t] = [job[t] EXCEPT !.todo = todo, !.row = row]]
  <2>1. CASE Done(t)
    <3>1. job' = [job EXCEPT ![t] = [job[t] EXCEPT !.todo = Tail(job[t].todo), !.row = job[t].row]]
      BY <1>1, <2>1 DEF Done, TypeInv, JobsOK, Request
    <3>2. job[t].row \in Nat
      BY <1>1 DEF Request
    <3>3. QED
      BY <3>1, <3>2
  <2>2. CASE HookEnds(t)
    <3>1. job' = [job EXCEPT ![t] = [job[t] EXCEPT !.todo = <<"answer">>, !.row = job[t].row]]
      BY <1>1, <2>2 DEF HookEnds, TypeInv, JobsOK, Request
    <3>2. job[t].row \in Nat
      BY <1>1 DEF Request
    <3>3. QED
      BY <3>1, <3>2
  <2>3. CASE job' = [job EXCEPT ![t].todo = Tail(@), ![t].row = r]
    <3>1. job' = [job EXCEPT ![t] = [job[t] EXCEPT !.todo = Tail(job[t].todo), !.row = r]]
      BY <1>1, <2>3 DEF TypeInv, JobsOK, Request
    <3>2. QED
      BY <3>1
  <2>4. QED
    BY <2>1, <2>2, <2>3
<1>4. PICK j : j = [job[t] EXCEPT !.todo = todo, !.row = row]
  OBVIOUS
<1>5. todo \in AllRest /\ todo \in Rest[job[t].op]
  BY <1>1, <1>2, <1>3 DEF AllRest
<1>6. /\ j \in Request /\ j.todo = todo /\ j.op = job[t].op /\ j.n = job[t].n
      /\ j.held = job[t].held /\ j.floor = job[t].floor
  BY <1>1, <1>3, <1>4, <1>5 DEF Request
<1>7. /\ JobsOK' /\ job'[t] = j
      /\ \A u \in Thread \ {t} : job'[u] = job[u]
  BY <1>3, <1>4, <1>5, <1>6, JobChange
<1>8. QED
  BY <1>2, <1>3, <1>6, <1>7

-----------------------------------------------------------------------------
(* The request of t has changed node.json, or deleted it.                    *)
Past(t) == Busy(t) /\ job[t].op \notin {"get", "canvas"} /\ Head(job[t].todo) \notin {"load", "write"}

(* A node whose create has yet to write: nobody has anything of it.          *)
Unborn(t) ==
    LET n == job[t].n
    IN  /\ n \notin Live /\ n \notin cached /\ answered[n] = 0
        /\ \A u \in Thread \ {t} : Busy(u) /\ job[u].n = n => job[u].op # "create" /\ ~Past(u)

Settled ==
    \A n \in cached : \/ n \in Live /\ boot[n] = disk[n]
                      \/ \E t \in Thread : At(t, "evict") /\ job[t].n = n

Issued ==
    /\ \A n \in Id \ issued : answered[n] = 0
    /\ \A t \in Thread : Busy(t) => job[t].n \in issued

Current ==
    /\ \A n \in cached : answered[n] <= boot[n].rev
    /\ \A n \in Live : answered[n] <= disk[n].rev /\ disk[n].rev <= writes

Writers ==
    \A t \in Thread :
        /\ Past(t) /\ job[t].n \in Live => job[t].held.rev <= disk[job[t].n].rev
        /\ Past(t) /\ ~At(t, "evict") => job[t].n \notin cached
        /\ Busy(t) /\ job[t].op = "canvas" => job[t].held.rev = 0
        /\ At(t, "write") /\ job[t].op = "create" => Unborn(t)

Readers ==
    \A t \in Thread : Busy(t) /\ job[t].op \in Reading =>
        /\ job[t].floor <= answered[job[t].n]
        /\ ~At(t, "load") => job[t].floor <= job[t].held.rev

ThreadInv == TypeInv /\ Settled /\ Issued /\ Current /\ Writers /\ Readers

-----------------------------------------------------------------------------
LEMMA ThreadsInit == Init => ThreadInv
<1> SUFFICES ASSUME Init PROVE ThreadInv
  OBVIOUS
<1>1. PICK S \in SUBSET Id :
         /\ disk = [n \in S |-> Nothing] /\ boot = disk /\ cached = S
         /\ index = [n \in S |-> 0] /\ issued = S
  BY DEF Init
<1>2. /\ writes = 0 /\ answered = [n \in Id |-> 0]
      /\ job = [t \in Thread |-> Idle]
  BY DEF Init
<1>3. \A t \in Thread : ~Busy(t)
  BY <1>2 DEF Busy, Idle
<1>4. Nothing \in Record /\ Nothing.rev = 0
  BY DEF Nothing, Record
<1>5. TypeInv
  BY <1>1, <1>2, <1>3, <1>4 DEF TypeInv, JobsOK, Live
<1>6. Settled /\ Issued
  BY <1>1, <1>2, <1>3 DEF Settled, Issued, Live
<1>7. Current /\ Writers /\ Readers
  BY <1>1, <1>2, <1>3, <1>4 DEF Current, Writers, Readers, Past, At, Live
<1>8. QED
  BY <1>5, <1>6, <1>7 DEF ThreadInv

(* A step that touches neither disk nor cache: the request is past its       *)
(* eviction, has no part in one, or gives up before it has written.          *)
LEMMA QuietStep ==
    ASSUME ThreadInv, NEW t \in Thread, Busy(t), NEW j,
           Head(job[t].todo) # "evict",
           \/ j = Idle
           \/ /\ j.op = job[t].op /\ j.n = job[t].n /\ j.held = job[t].held
              /\ j.floor = job[t].floor
              /\ Head(job[t].todo) \notin {"load", "write"} \/ job[t].op = "canvas"
              /\ Head(j.todo) \notin {"load", "write", "evict"},
           job'[t] = j, \A u \in Thread \ {t} : job'[u] = job[u],
           UNCHANGED <<disk, boot, cached, issued, writes, answered>>
    PROVE  Settled' /\ Issued' /\ Current' /\ Writers' /\ Readers'
<1> USE DEF ThreadInv
<1>1. \A u \in Thread \ {t} : /\ Busy(u)' = Busy(u) /\ Past(u)' = Past(u)
                             /\ \A step : At(u, step)' = At(u, step)
  BY DEF Busy, Past, At
<1>2. /\ Past(t)' => Past(t) /\ job'[t] = j /\ j # Idle
      /\ ~At(t, "evict")' /\ ~At(t, "write")' /\ ~At(t, "load")'
      /\ ~At(t, "evict")
      /\ Busy(t)' => j # Idle
  BY DEF Busy, Past, At, Idle
<1>3. Live' = Live
  BY DEF Live
<1>4. Settled'
  BY <1>1, <1>2, <1>3 DEF Settled
<1>5. Issued'
  BY <1>1, <1>2 DEF Issued
<1>6. Current'
  BY <1>3 DEF Current
<1>7. ASSUME NEW u \in Thread \ {t}, Unborn(u) PROVE Unborn(u)'
  BY <1>1, <1>2, <1>3, <1>7 DEF Unborn
<1>8. Writers'
  BY <1>1, <1>2, <1>3, <1>7 DEF Writers, Busy
<1>9. Readers'
  BY <1>1, <1>2 DEF Readers, Reading, At, Busy
<1>10. QED
  BY <1>4, <1>5, <1>6, <1>8, <1>9

LEMMA Others ==
    ASSUME NEW t \in Thread, \A u \in Thread \ {t} : job'[u] = job[u]
    PROVE  \A u \in Thread \ {t} : /\ Busy(u)' = Busy(u) /\ Past(u)' = Past(u)
                                 /\ \A step : At(u, step)' = At(u, step)
  BY DEF Busy, Past, At

LEMMA LoadKeeps == ASSUME ThreadInv, NEW t \in Thread, Load(t) PROVE ThreadInv'
<1> DEFINE n == job[t].n
<1> USE DEF ThreadInv
<1>1. /\ At(t, "load") /\ Busy(t) /\ Head(job[t].todo) = "load"
      /\ UNCHANGED <<disk, boot, cached, index, issued, writes, answered>>
      /\ Live' = Live
  BY DEF Load, At, Live
<1>2. job[t] \in Request /\ job[t].todo \in Rest[job[t].op] /\ job[t].op \in DOMAIN Steps /\ n \in Id
  BY <1>1, Requests DEF TypeInv, JobsOK, Request
<1>3. job[t].op \in Reading
  BY <1>1, <1>2, RestFacts
<1>4. ASSUME NEW h \in Record, answered[n] <= h.rev, DoneWith(t, h) PROVE ThreadInv'
  <2>1. /\ JobsOK' /\ \A u \in Thread \ {t} : job'[u] = job[u]
        /\ Busy(t)' /\ job'[t].todo = Tail(job[t].todo) /\ job'[t].held = h
        /\ job'[t].op = job[t].op /\ job'[t].n = n /\ job'[t].floor = job[t].floor
    BY <1>1, <1>4, JobDone
  <2>4. TypeInv'
    BY <1>1, <2>1 DEF TypeInv
  <2>5. job[t].op # "get" => Head(job'[t].todo) \in {"load", "write"}
    BY <1>1, <1>2, <2>1, RestFacts
  <2>6. ~Past(t)' /\ ~At(t, "evict")
    BY <1>1, <2>1, <2>5 DEF Past, At
  <2>7. Settled' /\ Issued' /\ Current'
    BY <1>1, <2>1, <2>6, Others DEF Settled, Issued, Current, Busy
  <2>8. Readers'
    <3>1. answered[n] \in Nat /\ job[t].floor \in Nat /\ h.rev \in Nat
      BY <1>2 DEF TypeInv, JobsOK, Request, Record
    <3>2. job[t].floor <= answered[n]
      BY <1>1, <1>3 DEF Readers
    <3>3. QED
      BY <1>1, <1>4, <2>1, <3>1, <3>2, Others DEF Readers
  <2>9. Writers'
    <3>1. job[t].op \notin {"canvas", "create"}
      BY <1>3 DEF Reading
    <3>2. ASSUME NEW u \in Thread \ {t}, Unborn(u) PROVE Unborn(u)'
      BY <1>1, <2>1, <2>6, <3>1, <3>2, Others DEF Unborn
    <3>3. QED
      BY <1>1, <2>1, <2>6, <3>1, <3>2, Others DEF Writers
  <2>10. QED
    BY <2>4, <2>7, <2>8, <2>9
<1>5. CASE n \in cached
  <2>1. boot[n] \in Record /\ answered[n] <= boot[n].rev
    BY <1>5 DEF TypeInv, JobsOK, Current
  <2>2. QED
    BY <1>4, <1>5, <2>1 DEF Load
<1>6. CASE n \notin cached /\ n \in Live
  <2>1. disk[n] \in Record /\ answered[n] <= disk[n].rev
    BY <1>6 DEF TypeInv, JobsOK, Current
  <2>2. QED
    BY <1>4, <1>6, <2>1 DEF Load
<1>7. CASE n \notin cached /\ n \notin Live
  <2>1. job' = [job EXCEPT ![t] = Idle]
    BY <1>7 DEF Load, NotFound
  <2>2. /\ JobsOK' /\ job'[t] = Idle
        /\ \A u \in Thread \ {t} : job'[u] = job[u]
    BY <2>1, JobEnds
  <2>3. TypeInv'
    BY <1>1, <2>2 DEF TypeInv, JobsOK
  <2>4. QED
    BY <1>1, <2>2, <2>3, QuietStep
<1>8. QED
  BY <1>5, <1>6, <1>7

LEMMA HookMoves ==
    ASSUME ThreadInv, NEW t \in Thread, Locate(t) \/ Lookup(t) \/ Upsert(t) \/ Erase(t)
    PROVE  /\ JobsOK' /\ Busy(t)
           /\ \A u \in Thread \ {t} : job'[u] = job[u]
           /\ job'[t].op = job[t].op /\ job'[t].n = job[t].n
           /\ job'[t].held = job[t].held /\ job'[t].floor = job[t].floor
           /\ Head(job'[t].todo) \notin {"load", "write", "evict"}
<1> USE DEF ThreadInv
<1>1. Busy(t) /\ Head(job[t].todo) \in {"locate", "lookup", "upsert", "erase"}
  BY DEF Locate, Lookup, Upsert, Erase, At
<1>2. \E r \in Nat : Done(t) \/ HookEnds(t) \/ job' = [job EXCEPT ![t].todo = Tail(@), ![t].row = r]
  <2>1. CASE Locate(t)
    BY <2>1 DEF Locate
  <2>2. CASE Lookup(t) /\ job[t].n \in DOMAIN index
    BY <2>2 DEF Lookup, TypeInv
  <2>3. CASE Lookup(t) /\ job[t].n \notin DOMAIN index
    BY <2>3 DEF Lookup
  <2>4. CASE Upsert(t)
    BY <2>4 DEF Upsert
  <2>5. CASE Erase(t)
    BY <2>5 DEF Erase
  <2>6. QED
    BY <2>1, <2>2, <2>3, <2>4, <2>5
<1>3. QED
  BY <1>1, <1>2, HookDone

LEMMA HooksKeep ==
    ASSUME ThreadInv, NEW t \in Thread, Locate(t) \/ Lookup(t) \/ Upsert(t) \/ Erase(t)
    PROVE  ThreadInv'
<1> USE DEF ThreadInv
<1>1. /\ Busy(t) /\ Head(job[t].todo) \in {"locate", "lookup", "upsert", "erase"}
      /\ UNCHANGED <<disk, boot, cached, issued, writes, answered>>
  BY DEF Locate, Lookup, Upsert, Erase, At
<1>2. job[t] \in Request /\ job[t].n \in Id
  BY <1>1, Requests DEF Request
<1>3. index' \in [DOMAIN index' -> Nat]
  <2>1. CASE index' = index
    BY <2>1 DEF TypeInv
  <2>2. ASSUME NEW v \in Nat, index' = With(index, job[t].n, v) PROVE index' \in [DOMAIN index' -> Nat]
    BY <2>2 DEF TypeInv, With
  <2>3. CASE index' = Less(index, job[t].n)
    BY <2>3 DEF TypeInv, Less
  <2>4. job[t].row \in Nat /\ job[t].held.title \in Nat
    BY <1>2 DEF Request, Record
  <2>5. QED
    BY <2>1, <2>2, <2>3, <2>4 DEF Locate, Lookup, Upsert, Erase
<1>5. /\ JobsOK'
      /\ \A u \in Thread \ {t} : job'[u] = job[u]
      /\ job'[t].op = job[t].op /\ job'[t].n = job[t].n
      /\ job'[t].held = job[t].held /\ job'[t].floor = job[t].floor
      /\ Head(job'[t].todo) \notin {"load", "write", "evict"}
  BY HookMoves
<1>6. TypeInv'
  BY <1>1, <1>3, <1>5 DEF TypeInv, Live
<1>7. QED
  BY <1>1, <1>5, <1>6, QuietStep

LEMMA EvictKeeps == ASSUME ThreadInv, NEW t \in Thread, Evict(t) PROVE ThreadInv'
<1> DEFINE n == job[t].n
<1> USE DEF ThreadInv
<1>1. /\ Busy(t) /\ Head(job[t].todo) = "evict" /\ Done(t)
      /\ cached' = cached \ {n}
      /\ UNCHANGED <<disk, boot, index, issued, writes, answered>>
      /\ Live' = Live
  BY DEF Evict, At, Live
<1>2. /\ job[t] \in Request /\ job[t].todo \in Rest[job[t].op] /\ job[t].op \in DOMAIN Steps
      /\ job[t].held \in Record
  BY <1>1, Requests DEF TypeInv, JobsOK, Request
<1>3. /\ JobsOK'
      /\ \A u \in Thread \ {t} : job'[u] = job[u]
      /\ job'[t].todo = Tail(job[t].todo) /\ job'[t].held = job[t].held /\ Busy(t)'
      /\ job'[t].op = job[t].op /\ job'[t].n = n /\ job'[t].floor = job[t].floor
  BY <1>1, <1>2, JobDone
<1>4. /\ Head(job'[t].todo) \notin {"load", "write", "evict"}
      /\ job[t].op \notin {"get", "canvas"}
  BY <1>1, <1>2, <1>3, RestFacts
<1>5. Past(t) /\ Past(t)' /\ ~At(t, "evict")' /\ ~At(t, "write")' /\ ~At(t, "load")
  BY <1>1, <1>3, <1>4 DEF Past, At
<1>6. TypeInv'
  BY <1>1, <1>3 DEF TypeInv
<1>7. Settled'
  BY <1>1, <1>3, Others DEF Settled, At
<1>8. Issued' /\ Current'
  BY <1>1, <1>3, Others DEF Issued, Current
<1>9. ASSUME NEW u \in Thread \ {t}, Unborn(u) PROVE Unborn(u)'
  BY <1>1, <1>3, <1>5, <1>9, Others DEF Unborn
<1>10. Writers'
  BY <1>1, <1>3, <1>4, <1>5, <1>9, Others DEF Writers
<1>11. Readers'
  BY <1>1, <1>3, <1>5, Others DEF Readers
<1>12. QED
  BY <1>6, <1>7, <1>8, <1>10, <1>11

LEMMA AnswerKeeps == ASSUME ThreadInv, NEW t \in Thread, Answer(t) PROVE ThreadInv'
<1> DEFINE n == job[t].n
<1> USE DEF ThreadInv
<1>1. /\ Busy(t) /\ Head(job[t].todo) = "answer"
      /\ job' = [job EXCEPT ![t] = Idle]
      /\ UNCHANGED <<disk, boot, cached, index, issued, writes>>
      /\ Live' = Live
      /\ ~At(t, "evict")
  BY DEF Answer, At, Live
<1>2. /\ job[t] \in Request /\ n \in Id /\ job[t].held.rev \in Nat /\ answered[n] \in Nat
  BY <1>1, Requests DEF TypeInv, Request, Record
<1>3. /\ JobsOK' /\ ~Busy(t)'
      /\ \A u \in Thread \ {t} : job'[u] = job[u]
  BY <1>1, JobEnds
<1>4. answered' = answered \/ (/\ Writer(t) /\ job[t].held.rev > answered[n]
                              /\ answered' = [answered EXCEPT ![n] = job[t].held.rev])
  BY DEF Answer
<1>5. /\ answered' \in [Id -> Nat]
      /\ \A m \in Id : answered[m] <= answered'[m]
      /\ \A m \in Id \ {n} : answered'[m] = answered[m]
  BY <1>2, <1>4 DEF TypeInv
<1>6. answered'[n] # answered[n] => Past(t) /\ answered'[n] = job[t].held.rev
  <2>1. SUFFICES ASSUME answered'[n] # answered[n]
                 PROVE  Past(t) /\ answered'[n] = job[t].held.rev
    OBVIOUS
  <2>2. Writer(t) /\ job[t].held.rev > answered[n] /\ answered'[n] = job[t].held.rev
    BY <1>2, <1>4, <2>1 DEF TypeInv
  <2>3. job[t].op # "canvas"
    BY <1>1, <1>2, <2>2 DEF Writers
  <2>4. QED
    BY <1>1, <2>2, <2>3 DEF Past, Writer
<1>7. TypeInv'
  BY <1>1, <1>3, <1>5 DEF TypeInv
<1>8. Settled'
  BY <1>1, <1>3, Others DEF Settled
<1>9. Issued'
  BY <1>1, <1>3, <1>5, Others DEF Issued
<1>10. Current'
  <2>1. cached \subseteq Id /\ Live \subseteq Id
    BY DEF TypeInv
  <2>2. answered'[n] # answered[n] => n \notin cached /\ (n \in Live => answered'[n] <= disk[n].rev)
    BY <1>1, <1>6 DEF Writers
  <2>3. QED
    BY <1>1, <1>5, <2>1, <2>2 DEF Current
<1>11. ASSUME NEW u \in Thread \ {t}, Busy(u), Unborn(u) PROVE Unborn(u)'
  <2>1. job[u].n \in Id
    BY <1>11, Requests DEF Request
  <2>2. answered'[job[u].n] = answered[job[u].n]
    <3>1. CASE job[u].n = n
      BY <1>1, <1>6, <1>11, <3>1 DEF Unborn
    <3>2. CASE job[u].n # n
      BY <1>5, <2>1, <3>2
    <3>3. QED
      BY <3>1, <3>2
  <2>3. QED
    BY <1>1, <1>3, <1>11, <2>2, Others DEF Unborn
<1>12. Writers'
  BY <1>1, <1>3, <1>11, Others DEF Writers, Past, At
<1>13. Readers'
  <2>1. ASSUME NEW u \in Thread \ {t}, Busy(u), job[u].op \in Reading
        PROVE  job[u].floor <= answered'[job[u].n]
    <3>1. /\ job[u].floor \in Nat /\ job[u].n \in Id
          /\ job[u].floor <= answered[job[u].n] /\ answered[job[u].n] <= answered'[job[u].n]
          /\ answered[job[u].n] \in Nat /\ answered'[job[u].n] \in Nat
      BY <1>5, <2>1, Requests DEF Readers, Request, TypeInv
    <3>2. QED
      BY <3>1
  <2>2. QED
    BY <1>3, <2>1, Others DEF Readers
<1>14. QED
  BY <1>7, <1>8, <1>9, <1>10, <1>12, <1>13

LEMMA StartKeeps ==
    ASSUME ThreadInv, NEW t \in Thread, NEW op \in DOMAIN Steps, NEW n \in Id, Start(t, op, n)
    PROVE  ThreadInv'
<1> USE DEF ThreadInv
<1> DEFINE floor == IF op \in Reading THEN answered[n] ELSE 0
<1>1. PICK j : j = [op |-> op, n |-> n, todo |-> Steps[op], held |-> Nothing,
                    row |-> 0, floor |-> floor]
  OBVIOUS
<1>2. /\ ~Busy(t) /\ (op = "create") = (n \notin issued)
      /\ issued' = issued \cup {n}
      /\ job' = [job EXCEPT ![t] = j]
      /\ UNCHANGED <<disk, boot, cached, index, writes, answered>>
      /\ Live' = Live
  BY <1>1 DEF Start, Live
<1>3. /\ floor \in Nat /\ Nothing \in Record /\ Nothing.rev = 0
      /\ answered[n] \in Nat
  BY DEF TypeInv, Nothing, Record
<1>4. /\ Steps[op] \in Rest[op] /\ Steps[op] \in AllRest
      /\ Head(Steps[op]) = IF op \in Reading THEN "load" ELSE "write"
  BY RestEnds DEF AllRest
<1>5. /\ j \in Request /\ j.todo = Steps[op] /\ j.op = op /\ j.n = n /\ j.held = Nothing
      /\ j.floor = floor
  BY <1>1, <1>3, <1>4 DEF Request
<1>6. /\ JobsOK' /\ job'[t] = j
      /\ \A u \in Thread \ {t} : job'[u] = job[u]
  BY <1>2, <1>4, <1>5, JobChange
<1>7. /\ ~Past(t)' /\ ~At(t, "evict")' /\ ~At(t, "evict") /\ ~Past(t)
      /\ At(t, "write")' => op \notin Reading
  BY <1>2, <1>4, <1>5, <1>6 DEF Past, At
<1>8. TypeInv'
  BY <1>2, <1>6 DEF TypeInv
<1>9. Settled'
  BY <1>2, <1>6, <1>7, Others DEF Settled
<1>10. Issued'
  BY <1>2, <1>5, <1>6, Others DEF Issued
<1>11. Current'
  BY <1>2 DEF Current
<1>12. ASSUME NEW u \in Thread \ {t}, Busy(u), Unborn(u) PROVE Unborn(u)'
  <2>1. job[u].n = n => op # "create"
    BY <1>2, <1>12 DEF Issued
  <2>2. QED
    BY <1>2, <1>5, <1>6, <1>7, <1>12, <2>1, Others DEF Unborn
<1>13. ASSUME op = "create" PROVE Unborn(t)'
  <2>1. n \notin issued /\ n \notin Live /\ n \notin cached /\ answered[n] = 0
    BY <1>2, <1>13 DEF TypeInv, Issued
  <2>2. \A u \in Thread \ {t} : Busy(u) => job[u].n # n
    BY <2>1 DEF Issued
  <2>3. QED
    BY <1>2, <1>5, <1>6, <2>1, <2>2, Others DEF Unborn
<1>14. Writers'
  <2>1. ASSUME NEW u \in Thread \ {t}
        PROVE  /\ Past(u) /\ job[u].n \in Live => job[u].held.rev <= disk[job[u].n].rev
               /\ Past(u) /\ ~At(u, "evict") => job[u].n \notin cached
               /\ Busy(u) /\ job[u].op = "canvas" => job[u].held.rev = 0
               /\ At(u, "write") /\ job[u].op = "create" => Unborn(u)'
    BY <1>12 DEF Writers, At
  <2>2. QED
    BY <1>2, <1>3, <1>5, <1>6, <1>7, <1>13, <2>1, Others DEF Writers
<1>15. Readers'
  <2>1. op \in Reading => At(t, "load")' /\ floor <= answered[n]
    BY <1>2, <1>3, <1>4, <1>5, <1>6, Requests DEF At, Busy, Steps
  <2>2. QED
    BY <1>2, <1>5, <1>6, <2>1, Others DEF Readers
<1>16. QED
  BY <1>8, <1>9, <1>10, <1>11, <1>14, <1>15

(* A write that changes node.json or deletes it: the eviction comes next.    *)
LEMMA ChangeKeeps ==
    ASSUME ThreadInv, NEW t \in Thread, At(t, "write"), NEW h \in Record, DoneWith(t, h),
           job[t].op \notin {"canvas", "get"},
           job[t].op = "create" \/ job[t].n \in Live,
           \/ disk' = Less(disk, job[t].n) /\ writes' = writes
           \/ disk' = With(disk, job[t].n, h) /\ writes' = writes + 1 /\ h.rev = writes + 1,
           job[t].op = "metadata" => disk' = With(disk, job[t].n, h),
           UNCHANGED <<boot, cached, index, issued, answered>>
    PROVE  ThreadInv'
<1> DEFINE n == job[t].n
<1> USE DEF ThreadInv
<1>1. Busy(t) /\ Head(job[t].todo) = "write"
  BY DEF At
<1>2. /\ job[t] \in Request /\ job[t].todo \in Rest[job[t].op] /\ job[t].op \in DOMAIN Steps
      /\ n \in Id /\ n \in issued /\ job[t].floor \in Nat
  BY <1>1, Requests DEF TypeInv, JobsOK, Request, Issued
<1>3. /\ JobsOK' /\ \A u \in Thread \ {t} : job'[u] = job[u]
      /\ Busy(t)' /\ job'[t].todo = Tail(job[t].todo) /\ job'[t].held = h
      /\ job'[t].op = job[t].op /\ job'[t].n = n /\ job'[t].floor = job[t].floor
  BY <1>1, JobDone
<1>4. Head(job'[t].todo) = "evict"
  BY <1>1, <1>2, <1>3, RestFacts
<1>5. /\ At(t, "evict")' /\ Past(t)' /\ ~At(t, "write")'
      /\ ~At(t, "evict") /\ ~At(t, "load") /\ ~Past(t)
  BY <1>1, <1>3, <1>4 DEF At, Past
<1>6. /\ disk' \in [Live' -> Record]
      /\ Live' \subseteq Live \cup {n}
      /\ \A m \in Live' \ {n} : m \in Live /\ disk'[m] = disk[m]
      /\ n \in Live' => disk'[n] = h /\ h.rev = writes' /\ writes' = writes + 1
      /\ Live \ {n} \subseteq Live'
  <2>1. CASE disk' = Less(disk, n) /\ writes' = writes
    BY <2>1 DEF Less, Live, TypeInv
  <2>2. CASE disk' = With(disk, n, h) /\ writes' = writes + 1 /\ h.rev = writes + 1
    BY <2>2 DEF With, Live, TypeInv
  <2>3. QED
    BY <2>1, <2>2
<1>7. writes' \in Nat /\ writes <= writes' /\ writes \in Nat
  BY DEF TypeInv
<1>8. TypeInv'
  BY <1>2, <1>3, <1>6, <1>7 DEF TypeInv
<1>9. Settled'
  <2>1. ASSUME NEW m \in cached, m # n
        PROVE  (m \in Live' /\ boot[m] = disk'[m]) \/ \E u \in Thread : At(u, "evict")' /\ job'[u].n = m
    BY <1>3, <1>5, <1>6, <2>1, Others DEF Settled
  <2>2. QED
    BY <1>3, <1>5, <2>1 DEF Settled
<1>10. Issued'
  BY <1>2, <1>3, Others DEF Issued
(* What has been answered of the node, and what others hold of it, is older. *)
<1>11. answered[n] <= writes /\ answered[n] \in Nat
  <2>1. CASE n \in Live
    <3>1. answered[n] <= disk[n].rev /\ disk[n].rev <= writes /\ disk[n].rev \in Nat
      BY <2>1 DEF Current, TypeInv, Record
    <3>2. QED
      BY <1>2, <1>7, <3>1 DEF TypeInv
  <2>2. CASE job[t].op = "create"
    BY <1>7, <2>2 DEF Writers, Unborn
  <2>3. QED
    BY <2>1, <2>2
<1>12. ASSUME NEW u \in Thread \ {t}, Past(u), job[u].n = n PROVE job[u].held.rev <= writes
  <2>1. n \in Live
    BY <1>12 DEF Writers, Unborn, Past
  <2>2. job[u].held.rev <= disk[n].rev /\ disk[n].rev <= writes /\ disk[n].rev \in Nat
    BY <1>12, <2>1 DEF Writers, Current, TypeInv, Record
  <2>3. job[u].held.rev \in Nat
    BY <1>12, Requests DEF Past, Request, Record
  <2>4. QED
    BY <1>7, <2>2, <2>3
<1>13. Current'
  <2>1. ASSUME NEW m \in Live' PROVE answered[m] <= disk'[m].rev /\ disk'[m].rev <= writes'
    <3>1. CASE m = n
      BY <1>6, <1>7, <1>11, <2>1, <3>1
    <3>2. CASE m # n
      <4>1. m \in Live /\ disk'[m] = disk[m] /\ disk[m].rev \in Nat
        BY <1>6, <2>1, <3>2 DEF TypeInv, Record
      <4>2. answered[m] <= disk[m].rev /\ disk[m].rev <= writes
        BY <4>1 DEF Current
      <4>3. QED
        BY <1>7, <4>1, <4>2
    <3>3. QED
      BY <3>1, <3>2
  <2>2. QED
    BY <2>1 DEF Current
<1>14. ASSUME NEW u \in Thread \ {t}, Busy(u), job[u].op = "create", Unborn(u) PROVE Unborn(u)'
  <2>1. job[u].n # n
    BY <1>1, <1>14 DEF Unborn
  <2>2. QED
    BY <1>3, <1>6, <1>14, <2>1, Others DEF Unborn
<1>15. Writers'
  <2>1. ASSUME NEW u \in Thread \ {t}, Past(u), job[u].n \in Live'
        PROVE  job[u].held.rev <= disk'[job[u].n].rev
    <3>1. CASE job[u].n = n
      <4>1. job[u].held.rev <= writes /\ disk'[n].rev = writes + 1
        BY <1>6, <1>12, <2>1, <3>1
      <4>2. job[u].held.rev \in Nat
        BY <2>1, Requests DEF Past, Request, Record
      <4>3. QED
        BY <1>7, <3>1, <4>1, <4>2
    <3>2. CASE job[u].n # n
      BY <1>6, <2>1, <3>2 DEF Writers
    <3>3. QED
      BY <3>1, <3>2
  <2>2. ASSUME NEW u \in Thread \ {t}, At(u, "write"), job[u].op = "create" PROVE Unborn(u)'
    BY <1>14, <2>2 DEF Writers, At
  <2>3. ASSUME Past(t)', n \in Live' PROVE h.rev <= disk'[n].rev
    BY <1>6, <1>7, <2>3
  <2>4. QED
    BY <1>3, <1>5, <2>1, <2>2, <2>3, Others DEF Writers
<1>16. Readers'
  <2>1. job[t].op \in Reading => job[t].floor <= answered[n] /\ job[t].floor <= h.rev
    <3>1. SUFFICES ASSUME job[t].op \in Reading
                   PROVE  job[t].floor <= answered[n] /\ job[t].floor <= h.rev
      OBVIOUS
    <3>2. job[t].floor <= answered[n]
      BY <1>1, <3>1 DEF Readers
    <3>3. n \in Live'
      BY <3>1 DEF Reading, With, Live
    <3>4. QED
      BY <1>2, <1>6, <1>7, <1>11, <3>2, <3>3
  <2>2. QED
    BY <1>3, <2>1, Others DEF Readers
<1>17. QED
  BY <1>8, <1>9, <1>10, <1>13, <1>15, <1>16

LEMMA WriteKeeps == ASSUME ThreadInv, NEW t \in Thread, Write(t) PROVE ThreadInv'
<1> DEFINE n == job[t].n
<1> DEFINE new == [rev |-> writes + 1,
                   title |-> IF job[t].op = "metadata" THEN job[t].held.title ELSE writes + 1]
<1> USE DEF ThreadInv
<1>1. /\ At(t, "write") /\ Busy(t) /\ Head(job[t].todo) = "write"
      /\ UNCHANGED <<boot, cached, index, issued, answered>>
  BY DEF Write, At
<1>2. /\ job[t] \in Request /\ job[t].todo \in Rest[job[t].op] /\ job[t].op \in DOMAIN Steps
      /\ job[t].held \in Record /\ job[t].op # "get"
  <2>1. /\ job[t] \in Request /\ job[t].todo \in Rest[job[t].op] /\ job[t].op \in DOMAIN Steps
    BY <1>1, Requests DEF TypeInv, JobsOK, Request
  <2>2. QED
    BY <1>1, <2>1, RestFacts DEF Request
<1>3. new \in Record /\ new.rev = writes + 1 /\ [rev |-> Gone, title |-> 0] \in Record
  BY <1>2, CountAssumption DEF Record, Gone, TypeInv
<1>4. CASE n \notin Live /\ job[t].op # "create"
  <2>1. job' = [job EXCEPT ![t] = Idle] /\ UNCHANGED <<disk, writes>>
    BY <1>4 DEF Write, NotFound
  <2>2. /\ JobsOK' /\ job'[t] = Idle
        /\ \A u \in Thread \ {t} : job'[u] = job[u]
    BY <2>1, JobEnds
  <2>3. TypeInv'
    BY <1>1, <2>1, <2>2 DEF TypeInv, Live
  <2>4. QED
    BY <1>1, <2>1, <2>2, <2>3, QuietStep
<1>5. CASE (n \in Live \/ job[t].op = "create") /\ job[t].op = "canvas"
  <2>1. Done(t) /\ UNCHANGED <<disk, writes>>
    BY <1>5 DEF Write
  <2>2. /\ JobsOK' /\ \A u \in Thread \ {t} : job'[u] = job[u]
        /\ job'[t].todo = Tail(job[t].todo) /\ job'[t].held = job[t].held
        /\ job'[t].op = job[t].op /\ job'[t].n = n /\ job'[t].floor = job[t].floor
    BY <1>1, <1>2, <2>1, JobDone
  <2>3. Head(job'[t].todo) = "lookup"
    BY <1>1, <1>2, <1>5, <2>2, RestFacts
  <2>4. TypeInv'
    BY <1>1, <2>1, <2>2 DEF TypeInv, Live
  <2>5. QED
    BY <1>1, <1>5, <2>1, <2>2, <2>3, <2>4, QuietStep
<1>6. CASE (n \in Live \/ job[t].op = "create") /\ job[t].op = "delete"
  <2>1. /\ disk' = Less(disk, n) /\ writes' = writes
        /\ DoneWith(t, [rev |-> Gone, title |-> 0])
    BY <1>6 DEF Write
  <2>2. QED
    BY <1>1, <1>3, <1>6, <2>1, ChangeKeeps
<1>7. CASE (n \in Live \/ job[t].op = "create") /\ job[t].op \notin {"delete", "canvas"}
  <2>1. /\ disk' = With(disk, n, new) /\ writes' = writes + 1
        /\ DoneWith(t, new)
    BY <1>7 DEF Write
  <2> HIDE DEF new
  <2>2. QED
    BY <1>1, <1>2, <1>3, <1>7, <2>1, ChangeKeeps
<1>8. QED
  BY <1>4, <1>5, <1>6, <1>7

LEMMA CrashKeeps == ASSUME ThreadInv, Crash PROVE ThreadInv'
<1> USE DEF ThreadInv
<1>1. /\ job' = [t \in Thread |-> Idle]
      /\ boot' = disk /\ cached' = Live
      /\ UNCHANGED <<disk, issued, writes, answered>>
      /\ Live' = Live
  BY DEF Crash, Live
<1>2. \A t \in Thread : ~Busy(t)'
  BY <1>1 DEF Busy, Idle
<1>3. index' \in [DOMAIN index' -> Nat]
  <2>1. CASE index' = index
    BY <2>1 DEF TypeInv
  <2>2. CASE index' = [n \in Live |-> disk[n].title]
    BY <2>2 DEF TypeInv, Record
  <2>3. QED
    BY <2>1, <2>2 DEF Crash
<1>4. JobsOK'
  BY <1>1, <1>2 DEF JobsOK
<1>5. TypeInv'
  BY <1>1, <1>3, <1>4 DEF TypeInv, Live
<1>6. Settled' /\ Issued' /\ Current'
  BY <1>1, <1>2 DEF Settled, Issued, Current
<1>7. Writers' /\ Readers'
  BY <1>2 DEF Writers, Readers, Past, At
<1>8. QED
  BY <1>5, <1>6, <1>7

LEMMA ThreadsNext == ThreadInv /\ [Next]_vars => ThreadInv'
<1> SUFFICES ASSUME ThreadInv, [Next]_vars PROVE ThreadInv'
  OBVIOUS
<1>1. CASE UNCHANGED vars
  BY <1>1 DEF vars, ThreadInv, TypeInv, JobsOK, Settled, Issued, Current, Writers, Readers,
              Unborn, Past, At, Busy, Live
<1>2. CASE Crash
  BY <1>2, CrashKeeps
<1>3. ASSUME NEW t \in Thread, NEW op \in DOMAIN Steps, NEW n \in Id, Start(t, op, n)
      PROVE  ThreadInv'
  BY <1>3, StartKeeps
<1>4. ASSUME NEW t \in Thread, Step(t) PROVE ThreadInv'
  BY <1>4, LoadKeeps, WriteKeeps, EvictKeeps, HooksKeep, AnswerKeeps DEF Step
<1>5. QED
  BY <1>1, <1>2, <1>3, <1>4 DEF Next

LEMMA ThreadsHold == Spec => []ThreadInv
<1>1. Init => ThreadInv
  BY ThreadsInit
<1>2. ThreadInv /\ [Next]_vars => ThreadInv'
  BY ThreadsNext
<1>3. QED
  BY <1>1, <1>2, PTL DEF Spec

-----------------------------------------------------------------------------
(* The rows. Between its disk write and the end of its hook a request owns    *)
(* the difference between the row and the disk; a node that is not suspect    *)
(* has at most one such request, so whatever that leaves behind, it has left  *)
(* behind alone.                                                             *)
Midway(t) == Past(t) /\ ~At(t, "answer")
Writes(t, n) == Busy(t) /\ Writer(t) /\ job[t].n = n

Agreed(n) ==
    \/ stale
    \/ n \notin Live /\ n \notin DOMAIN index
    \/ n \in Live /\ n \in DOMAIN index /\ (index[n] = disk[n].title \/ n \in missed)

(* What the request knows of the disk and of the row it is about to write.    *)
Phase(t) ==
    LET n == job[t].n
    IN  /\ Midway(t) => IF job[t].op = "delete" THEN n \notin Live
                        ELSE n \in Live /\ disk[n] = job[t].held
        /\ Midway(t) /\ job[t].op \in {"rename", "metadata"} => stale \/ n \in DOMAIN index
        /\ At(t, "upsert") /\ job[t].op = "canvas" => n \in DOMAIN index /\ job[t].row = index[n]

RowsInv ==
    \A n \in Id \ suspect :
        /\ \A t, u \in Thread : Writes(t, n) /\ Writes(u, n) => t = u
        /\ (\A t \in Thread : Writes(t, n) => ~Midway(t)) => Agreed(n)
        /\ \A t \in Thread : Writes(t, n) => Phase(t)

(* The order of the steps, as far as the rows depend on it.                   *)
LEMMA HookFacts ==
    ASSUME NEW op \in DOMAIN Steps, NEW s \in Rest[op]
    PROVE  /\ Head(s) \in {"upsert", "erase"} => Head(Tail(s)) = "answer"
           /\ Head(s) = "lookup" => op \in {"rename", "metadata", "canvas"} /\ Head(Tail(s)) = "upsert"
           /\ Head(s) = "locate" => op = "create" /\ Head(Tail(s)) = "upsert"
           /\ Head(s) = "erase" <=> (op = "delete" /\ Head(s) \notin {"write", "evict", "answer"})
           /\ Head(s) = "evict" => Head(Tail(s)) \notin {"upsert", "answer"}
           /\ Head(s) = "upsert" => op \notin {"delete", "get"}
           /\ op # "get" /\ Head(s) = "load" => Head(Tail(s)) \in {"load", "write"}
<1>1. CASE op = "create"
  BY <1>1, Lists DEF Rest
<1>2. CASE op = "rename"
  BY <1>2, Lists DEF Rest, EditRest, HookRest
<1>3. CASE op = "metadata"
  BY <1>3, Lists DEF Rest, EditRest, HookRest
<1>4. CASE op = "canvas"
  BY <1>4, Lists DEF Rest, HookRest
<1>5. CASE op = "delete"
  BY <1>5, Lists DEF Rest
<1>6. CASE op = "get"
  BY <1>6, Lists DEF Rest
<1>7. QED
  BY <1>1, <1>2, <1>3, <1>4, <1>5, <1>6 DEF Steps

(* A step of one request: it touches the node of the request only, and only   *)
(* that node's row, and owes the others nothing.                             *)
LEMMA OwnNode ==
    ASSUME ThreadInv, RowsInv, NEW t \in Thread, NEW n \in Id, Busy(t), job[t].n = n,
           \A u \in Thread \ {t} : job'[u] = job[u],
           job'[t] = Idle \/ (job'[t].op = job[t].op /\ job'[t].n = n),
           suspect' = suspect, stale => stale',
           \A m \in Id \ {n} :
               /\ m \in Live' <=> m \in Live
               /\ m \in Live => disk'[m] = disk[m]
               /\ m \in DOMAIN index' <=> m \in DOMAIN index
               /\ m \in DOMAIN index => index'[m] = index[m],
           \A m \in missed \ {n} : m \in missed',
           ~Writer(t) => UNCHANGED <<disk, index, missed>>,
           Writer(t) /\ n \notin suspect =>
               /\ ~Midway(t)' => Agreed(n)'
               /\ Busy(t)' => Phase(t)'
    PROVE  RowsInv'
<1>1. /\ \A u \in Thread \ {t} : /\ Busy(u)' = Busy(u) /\ Midway(u)' = Midway(u) /\ Writer(u)' = Writer(u)
                                 /\ job'[u] = job[u] /\ At(u, "upsert")' = At(u, "upsert")
                                 /\ \A m : Writes(u, m)' <=> Writes(u, m)
  BY DEF Busy, Past, At, Midway, Writer, Writes
<1>2. \A m : Writes(t, m)' => Writes(t, m) /\ m = n /\ Busy(t)'
  BY DEF Writes, Busy, Writer, Idle
<1>3. ASSUME NEW m \in Id \ suspect, m # n \/ ~Writer(t)
      PROVE  /\ \A u, v \in Thread : Writes(u, m)' /\ Writes(v, m)' => u = v
             /\ (\A u \in Thread : Writes(u, m)' => ~Midway(u)') => Agreed(m)'
             /\ \A u \in Thread : Writes(u, m)' => Phase(u)'
  <2>1. ~Writes(t, m) /\ ~Writes(t, m)'
    BY <1>2, <1>3 DEF Writes
  <2>2. /\ \A u, v \in Thread : Writes(u, m) /\ Writes(v, m) => u = v
        /\ (\A u \in Thread : Writes(u, m) => ~Midway(u)) => Agreed(m)
        /\ \A u \in Thread : Writes(u, m) => Phase(u)
    BY <1>3 DEF RowsInv
  <2>3. /\ m \in Live' <=> m \in Live
        /\ m \in Live => disk'[m] = disk[m]
        /\ m \in DOMAIN index' <=> m \in DOMAIN index
        /\ m \in DOMAIN index => index'[m] = index[m]
        /\ m \in missed => m \in missed'
    BY <1>3 DEF Live
  <2>4. Agreed(m) => Agreed(m)'
    BY <2>3 DEF Agreed
  <2>5. ASSUME NEW u \in Thread, Writes(u, m)' PROVE Phase(u)'
    <3>1. u # t /\ Writes(u, m) /\ Phase(u) /\ job'[u] = job[u] /\ job[u].n = m
      BY <1>1, <2>1, <2>2, <2>5 DEF Writes
    <3>2. QED
      BY <1>1, <2>3, <3>1 DEF Phase
  <2>6. QED
    BY <1>1, <2>1, <2>2, <2>4, <2>5
<1>4. ASSUME n \in Id \ suspect, Writer(t)
      PROVE  /\ \A u, v \in Thread : Writes(u, n)' /\ Writes(v, n)' => u = v
             /\ (\A u \in Thread : Writes(u, n)' => ~Midway(u)') => Agreed(n)'
             /\ \A u \in Thread : Writes(u, n)' => Phase(u)'
  <2>1. Writes(t, n) /\ \A u \in Thread : Writes(u, n) => u = t
    BY <1>4 DEF RowsInv, Writes
  <2>2. ASSUME NEW u \in Thread, Writes(u, n)' PROVE u = t /\ Busy(t)'
    <3>1. CASE u = t
      BY <1>2, <2>2, <3>1
    <3>2. CASE u # t
      <4>1. Writes(u, n)
        BY <1>1, <2>2, <3>2
      <4>2. QED
        BY <2>1, <3>2, <4>1
    <3>3. QED
      BY <3>1, <3>2
  <2>3. Midway(t)' => Writes(t, n)'
    <3>1. SUFFICES ASSUME Midway(t)' PROVE Writes(t, n)'
      OBVIOUS
    <3>2. job'[t].op # "none"
      BY <3>1 DEF Midway, Past, Busy
    <3>3. QED
      BY <1>4, <3>2 DEF Writes, Busy, Writer, Idle
  <2>4. QED
    BY <1>4, <2>2, <2>3
<1>5. ASSUME NEW m \in Id \ suspect
      PROVE  /\ \A u, v \in Thread : Writes(u, m)' /\ Writes(v, m)' => u = v
             /\ (\A u \in Thread : Writes(u, m)' => ~Midway(u)') => Agreed(m)'
             /\ \A u \in Thread : Writes(u, m)' => Phase(u)'
  <2>1. CASE m # n \/ ~Writer(t)
    BY <1>3, <1>5, <2>1
  <2>2. CASE m = n /\ Writer(t)
    BY <1>4, <1>5, <2>2
  <2>3. QED
    BY <2>1, <2>2
<1>6. QED
  BY <1>5 DEF RowsInv

LEMMA RowsInit == Init => RowsInv
<1> SUFFICES ASSUME Init PROVE RowsInv
  OBVIOUS
<1>1. PICK S \in SUBSET Id :
         disk = [n \in S |-> Nothing] /\ index = [n \in S |-> 0]
  BY DEF Init
<1>2. \A t \in Thread : ~Busy(t)
  BY DEF Init, Busy, Idle
<1>3. \A n \in Id : Agreed(n)
  BY <1>1 DEF Agreed, Live, Nothing
<1>4. QED
  BY <1>2, <1>3 DEF RowsInv, Writes

(* What the invariant says of a request that writes a node nobody suspects.   *)
LEMMA SoleWriter ==
    ASSUME ThreadInv, RowsInv, NEW t \in Thread, Busy(t), Writer(t), job[t].n \notin suspect
    PROVE  /\ ~Midway(t) => Agreed(job[t].n)
           /\ Phase(t)
<1>1. job[t].n \in Id \ suspect /\ Writes(t, job[t].n)
  BY Requests DEF ThreadInv, Request, Writes
<1>2. QED
  BY <1>1 DEF RowsInv

LEMMA WellFormed ==
    ASSUME ThreadInv, NEW t \in Thread, Busy(t)
    PROVE  /\ job[t] \in Request /\ job[t].op \in DOMAIN Steps /\ job[t].n \in Id
           /\ job[t].held \in Record /\ job[t].row \in Nat
           /\ job[t].todo \in Rest[job[t].op]
  BY Requests DEF ThreadInv, TypeInv, JobsOK, Request

(* A request that ends, or gives up, before its disk write or after its hook. *)
LEMMA RowsEnd ==
    ASSUME ThreadInv, RowsInv, NEW t \in Thread, Busy(t), ~Midway(t),
           job' = [job EXCEPT ![t] = Idle],
           UNCHANGED <<disk, index, stale, suspect, missed>>
    PROVE  RowsInv'
<1>1. PICK n \in Id : job[t].n = n
  BY WellFormed
<1>2. /\ job'[t] = Idle /\ ~Busy(t)' /\ ~Midway(t)'
      /\ \A u \in Thread \ {t} : job'[u] = job[u]
  BY JobEnds DEF ThreadInv, Midway, Past
<1>3. Live' = Live /\ (Agreed(n) => Agreed(n)')
  BY DEF Live, Agreed
<1>4. Writer(t) /\ n \notin suspect => Agreed(n)'
  BY <1>1, <1>3, SoleWriter
<1>5. QED
  BY <1>1, <1>2, <1>3, <1>4, OwnNode

LEMMA RowsLoad == ASSUME ThreadInv, RowsInv, NEW t \in Thread, Load(t) PROVE RowsInv'
<1>1. /\ Busy(t) /\ Head(job[t].todo) = "load" /\ ~Midway(t)
      /\ UNCHANGED <<disk, index, stale, suspect, missed>> /\ Live' = Live
  BY DEF Load, At, Midway, Past, Live
<1>2. PICK n \in Id : job[t].n = n
  BY <1>1, WellFormed
<1>3. CASE NotFound(t)
  BY <1>1, <1>3, RowsEnd DEF NotFound
<1>4. ASSUME NEW h \in Record, DoneWith(t, h) PROVE RowsInv'
  <2>1. /\ \A u \in Thread \ {t} : job'[u] = job[u]
        /\ job'[t].todo = Tail(job[t].todo)
        /\ job'[t].op = job[t].op /\ job'[t].n = n
    BY <1>1, <1>2, <1>4, JobDone DEF ThreadInv
  <2>2. /\ job[t].op # "get" => Head(job'[t].todo) \in {"load", "write"}
        /\ job[t].op # "canvas"
    <3>1. job[t].op \in DOMAIN Steps /\ job[t].todo \in Rest[job[t].op]
      BY <1>1, WellFormed
    <3>2. job[t].op \in Reading
      BY <1>1, <3>1, RestFacts
    <3>3. job[t].op # "get" => Head(Tail(job[t].todo)) \in {"load", "write"}
      BY <1>1, <3>1, RestFacts
    <3>4. QED
      BY <2>1, <3>2, <3>3 DEF Reading
  <2>3. ~Midway(t)' /\ Phase(t)'
    BY <2>1, <2>2 DEF Midway, Past, Phase, At
  <2>4. Agreed(n) => Agreed(n)'
    BY <1>1 DEF Agreed
  <2>5. Writer(t) /\ n \notin suspect => Agreed(n)'
    BY <1>1, <1>2, <2>4, SoleWriter
  <2>6. QED
    BY <1>1, <1>2, <2>1, <2>3, <2>5, OwnNode
<1>5. \A m \in cached : boot[m] \in Record
  BY DEF ThreadInv, TypeInv
<1>6. \A m \in Live : disk[m] \in Record
  BY DEF ThreadInv, TypeInv
<1>7. QED
  BY <1>3, <1>4, <1>5, <1>6 DEF Load

LEMMA RowsEvict == ASSUME ThreadInv, RowsInv, NEW t \in Thread, Evict(t) PROVE RowsInv'
<1>1. /\ Busy(t) /\ Head(job[t].todo) = "evict" /\ Done(t)
      /\ UNCHANGED <<disk, index, stale, suspect, missed>> /\ Live' = Live
  BY DEF Evict, At, Live
<1>2. PICK n \in Id : job[t].n = n
  BY <1>1, WellFormed
<1>3. /\ \A u \in Thread \ {t} : job'[u] = job[u]
      /\ Busy(t)' /\ job'[t].todo = Tail(job[t].todo) /\ job'[t].held = job[t].held
      /\ job'[t].op = job[t].op /\ job'[t].n = n
  BY <1>1, <1>2, WellFormed, JobDone DEF ThreadInv
<1>4. /\ Head(job'[t].todo) \notin {"load", "write", "evict", "upsert", "answer"}
      /\ job[t].op \notin {"get", "canvas"}
  <2>1. job[t].op \in DOMAIN Steps /\ job[t].todo \in Rest[job[t].op]
    BY <1>1, WellFormed
  <2>2. /\ Head(Tail(job[t].todo)) \notin {"load", "write", "evict"}
        /\ job[t].op \notin {"get", "canvas"}
    BY <1>1, <2>1, RestFacts
  <2>3. Head(Tail(job[t].todo)) \notin {"upsert", "answer"}
    BY <1>1, <2>1, HookFacts
  <2>4. QED
    BY <1>3, <2>2, <2>3
<1>5. Midway(t) /\ Midway(t)' /\ ~At(t, "upsert")' /\ Writer(t)
  BY <1>1, <1>3, <1>4 DEF Midway, Past, At, Writer
<1>6. Phase(t) => Phase(t)'
  BY <1>1, <1>2, <1>3, <1>5 DEF Phase
<1>7. n \notin suspect => Phase(t)'
  BY <1>1, <1>2, <1>5, <1>6, SoleWriter
<1>8. QED
  BY <1>1, <1>2, <1>3, <1>5, <1>7, OwnNode

LEMMA RowsWrite == ASSUME ThreadInv, RowsInv, NEW t \in Thread, Write(t) PROVE RowsInv'
<1>1. /\ Busy(t) /\ Head(job[t].todo) = "write" /\ ~Midway(t)
      /\ UNCHANGED <<index, stale, suspect, missed>>
  BY DEF Write, At, Midway, Past
<1>2. PICK n \in Id : job[t].n = n
  BY <1>1, WellFormed
<1>3. /\ job[t].op \in DOMAIN Steps /\ job[t].todo \in Rest[job[t].op]
      /\ job[t].held \in Record /\ Writer(t)
  <2>1. /\ job[t].op \in DOMAIN Steps /\ job[t].todo \in Rest[job[t].op] /\ job[t].held \in Record
    BY <1>1, WellFormed
  <2>2. QED
    BY <1>1, <2>1, RestFacts DEF Writer
<1>4. ASSUME NEW h \in Record, DoneWith(t, h) \/ (Done(t) /\ h = job[t].held)
      PROVE  /\ \A u \in Thread \ {t} : job'[u] = job[u]
             /\ Busy(t)' /\ job'[t].todo = Tail(job[t].todo) /\ job'[t].held = h
             /\ job'[t].op = job[t].op /\ job'[t].n = n
             /\ Head(job'[t].todo) = IF job[t].op = "canvas" THEN "lookup" ELSE "evict"
  <2>1. /\ \A u \in Thread \ {t} : job'[u] = job[u]
        /\ Busy(t)' /\ job'[t].todo = Tail(job[t].todo) /\ job'[t].held = h
        /\ job'[t].op = job[t].op /\ job'[t].n = n
    BY <1>1, <1>2, <1>4, JobDone DEF ThreadInv
  <2>2. Head(Tail(job[t].todo)) = IF job[t].op = "canvas" THEN "lookup" ELSE "evict"
    BY <1>1, <1>3, RestFacts
  <2>3. QED
    BY <2>1, <2>2
<1>5. n \notin suspect => Agreed(n)
  BY <1>1, <1>2, <1>3, SoleWriter
<1>6. CASE n \notin Live /\ job[t].op # "create"
  <2>1. NotFound(t) /\ UNCHANGED disk
    BY <1>2, <1>6 DEF Write
  <2>2. QED
    BY <1>1, <2>1, RowsEnd DEF NotFound
<1>7. CASE (n \in Live \/ job[t].op = "create") /\ job[t].op = "canvas"
  <2>1. Done(t) /\ UNCHANGED disk /\ Live' = Live
    BY <1>2, <1>7 DEF Write, Live
  <2>2. /\ \A u \in Thread \ {t} : job'[u] = job[u]
        /\ job'[t].op = "canvas" /\ job[t].op = "canvas" /\ job'[t].n = n
        /\ Head(job'[t].todo) = "lookup"
    BY <1>3, <1>4, <1>7, <2>1
  <2>3. ~Midway(t)' /\ Phase(t)'
    BY <2>2 DEF Midway, Past, Phase, At
  <2>4. Agreed(n) => Agreed(n)'
    BY <1>1, <2>1 DEF Agreed
  <2>5. QED
    BY <1>1, <1>2, <1>5, <2>1, <2>2, <2>3, <2>4, OwnNode
<1>8. CASE (n \in Live \/ job[t].op = "create") /\ job[t].op = "delete"
  <2>1. disk' = Less(disk, n) /\ DoneWith(t, [rev |-> Gone, title |-> 0])
    BY <1>2, <1>8 DEF Write
  <2>2. [rev |-> Gone, title |-> 0] \in Record
    BY CountAssumption DEF Record, Gone
  <2>3. /\ \A u \in Thread \ {t} : job'[u] = job[u]
        /\ Busy(t)' /\ job'[t].op = "delete" /\ job[t].op = "delete" /\ job'[t].n = n
        /\ Head(job'[t].todo) = "evict"
    BY <1>4, <1>8, <2>1, <2>2
  <2>4. /\ n \notin Live'
        /\ \A m \in Id \ {n} : (m \in Live' <=> m \in Live) /\ (m \in Live => disk'[m] = disk[m])
    BY <2>1 DEF Less, Live
  <2>5. Midway(t)' /\ Phase(t)'
    BY <2>3, <2>4 DEF Midway, Past, Phase, At
  <2>6. QED
    BY <1>1, <1>2, <1>3, <2>3, <2>4, <2>5, OwnNode
<1>9. CASE (n \in Live \/ job[t].op = "create") /\ job[t].op \notin {"delete", "canvas"}
  <2>1. PICK h : h = [rev |-> writes + 1,
                      title |-> IF job[t].op = "metadata" THEN job[t].held.title ELSE writes + 1]
    OBVIOUS
  <2>2. disk' = With(disk, n, h) /\ DoneWith(t, h)
    BY <1>2, <1>9, <2>1 DEF Write
  <2>3. h \in Record
    BY <1>3, <2>1 DEF Record, ThreadInv, TypeInv
  <2>4. /\ \A u \in Thread \ {t} : job'[u] = job[u]
        /\ Busy(t)' /\ job'[t].op = job[t].op /\ job'[t].n = n /\ job'[t].held = h
        /\ Head(job'[t].todo) = "evict"
    BY <1>4, <1>9, <2>2, <2>3
  <2>5. /\ n \in Live' /\ disk'[n] = h
        /\ \A m \in Id \ {n} : (m \in Live' <=> m \in Live) /\ (m \in Live => disk'[m] = disk[m])
    BY <2>2 DEF With, Live
  <2>6. job[t].op # "get" /\ job[t].op # "canvas" /\ job[t].op # "delete"
    BY <1>3, <1>9 DEF Writer
  <2>7. Midway(t)'
    BY <2>4, <2>6 DEF Midway, Past, At
  <2>8. ASSUME n \notin suspect PROVE Phase(t)'
    <3>1. job[t].op \in {"rename", "metadata"} => stale \/ n \in DOMAIN index
      BY <1>5, <1>9, <2>8 DEF Agreed
    <3>2. QED
      BY <1>1, <2>4, <2>5, <2>6, <3>1 DEF Phase, At
  <2>9. QED
    BY <1>1, <1>2, <1>3, <2>4, <2>5, <2>7, <2>8, OwnNode
<1>10. QED
  BY <1>6, <1>7, <1>8, <1>9

(* A hook goes on with the rest of its list, with the row it has read, or     *)
(* has nothing more to do.                                                   *)
LEMMA RowsGoOn ==
    ASSUME ThreadInv, NEW t \in Thread, Busy(t), NEW todo, NEW row,
           job' = [job EXCEPT ![t] = [job[t] EXCEPT !.todo = todo, !.row = row]]
    PROVE  /\ \A u \in Thread \ {t} : job'[u] = job[u]
           /\ Busy(t)' /\ job'[t].op = job[t].op /\ job'[t].n = job[t].n
           /\ job'[t].held = job[t].held /\ job'[t].todo = todo /\ job'[t].row = row
<1>1. job \in [Thread -> Request \cup {Idle}] /\ job[t] \in Request
  BY WellFormed DEF ThreadInv, TypeInv, JobsOK
<1>2. job'[t] = [job[t] EXCEPT !.todo = todo, !.row = row]
      /\ \A u \in Thread \ {t} : job'[u] = job[u]
  BY <1>1
<1>3. QED
  BY <1>1, <1>2 DEF Request, Busy

LEMMA GoesOn ==
    ASSUME ThreadInv, NEW t \in Thread, Busy(t)
    PROVE  /\ Done(t) => job' = [job EXCEPT ![t] = [job[t] EXCEPT !.todo = Tail(job[t].todo), !.row = job[t].row]]
           /\ HookEnds(t) => job' = [job EXCEPT ![t] = [job[t] EXCEPT !.todo = <<"answer">>, !.row = job[t].row]]
           /\ \A r : job' = [job EXCEPT ![t].todo = Tail(@), ![t].row = r] =>
                  job' = [job EXCEPT ![t] = [job[t] EXCEPT !.todo = Tail(job[t].todo), !.row = r]]
<1>1. job[t] \in Request /\ job \in [Thread -> Request \cup {Idle}]
  BY WellFormed DEF ThreadInv, TypeInv, JobsOK
<1>2. Done(t) => job' = [job EXCEPT ![t] = [job[t] EXCEPT !.todo = Tail(job[t].todo), !.row = job[t].row]]
  BY <1>1 DEF Done, Request
<1>3. HookEnds(t) => job' = [job EXCEPT ![t] = [job[t] EXCEPT !.todo = <<"answer">>, !.row = job[t].row]]
  BY <1>1 DEF HookEnds, Request
<1>4. \A r : job' = [job EXCEPT ![t].todo = Tail(@), ![t].row = r] =>
                  job' = [job EXCEPT ![t] = [job[t] EXCEPT !.todo = Tail(job[t].todo), !.row = r]]
  BY <1>1 DEF Request
<1>5. QED
  BY <1>2, <1>3, <1>4

(* The last step of a hook: whoever had a debt has paid it or raised the flag. *)
LEMMA RowsPaid ==
    ASSUME ThreadInv, RowsInv, NEW t \in Thread, NEW n \in Id, Busy(t), job[t].n = n,
           NEW todo, NEW row, Head(todo) = "answer",
           job' = [job EXCEPT ![t] = [job[t] EXCEPT !.todo = todo, !.row = row]],
           suspect' = suspect, UNCHANGED disk, stale => stale', Writer(t),
           \A m \in Id \ {n} : /\ m \in DOMAIN index' <=> m \in DOMAIN index
                               /\ m \in DOMAIN index => index'[m] = index[m],
           \A m \in missed \ {n} : m \in missed',
           n \notin suspect => Agreed(n)'
    PROVE  RowsInv'
<1>1. /\ \A u \in Thread \ {t} : job'[u] = job[u]
      /\ job'[t].op = job[t].op /\ job'[t].n = n /\ job'[t].todo = todo
  BY RowsGoOn
<1>2. ~Midway(t)' /\ Phase(t)'
  BY <1>1 DEF Midway, Past, Phase, At
<1>3. Live' = Live
  BY DEF Live
<1>4. QED
  BY <1>1, <1>2, <1>3, OwnNode

LEMMA RowsLocate == ASSUME ThreadInv, RowsInv, NEW t \in Thread, Locate(t) PROVE RowsInv'
<1>1. /\ Busy(t) /\ Head(job[t].todo) = "locate"
      /\ UNCHANGED <<disk, index, suspect, missed>> /\ Live' = Live
  BY DEF Locate, At, Live
<1>2. PICK n \in Id : job[t].n = n
  BY <1>1, WellFormed
<1>3. job[t].op = "create" /\ Head(Tail(job[t].todo)) = "upsert"
  BY <1>1, WellFormed, HookFacts
<1>4. Writer(t) /\ Midway(t)
  BY <1>1, <1>3 DEF Writer, Midway, Past, At
<1>5. CASE Done(t) /\ UNCHANGED stale
  <2>1. /\ \A u \in Thread \ {t} : job'[u] = job[u]
        /\ Busy(t)' /\ job'[t].op = job[t].op /\ job'[t].n = n
        /\ job'[t].held = job[t].held /\ job'[t].todo = Tail(job[t].todo)
    <3>1. job' = [job EXCEPT ![t] = [job[t] EXCEPT !.todo = Tail(job[t].todo), !.row = job[t].row]]
      BY <1>1, <1>5, GoesOn
    <3>2. PICK todo, row : todo = Tail(job[t].todo) /\ row = job[t].row
      OBVIOUS
    <3>3. QED
      BY <1>1, <1>2, <3>1, <3>2, RowsGoOn
  <2>2. Midway(t)' /\ (Phase(t) => Phase(t)')
    BY <1>1, <1>2, <1>3, <1>4, <2>1 DEF Midway, Past, At, Phase
  <2>3. n \notin suspect => Phase(t)'
    BY <1>1, <1>2, <1>4, <2>2, SoleWriter
  <2>4. QED
    BY <1>1, <1>2, <1>4, <1>5, <2>1, <2>2, <2>3, OwnNode
<1>6. CASE HookEnds(t) /\ stale' = TRUE
  <2>1. Head(<<"answer">>) = "answer" /\ Agreed(n)'
    BY <1>6, Lists DEF Agreed
  <2>2. job' = [job EXCEPT ![t] = [job[t] EXCEPT !.todo = <<"answer">>, !.row = job[t].row]]
    BY <1>1, <1>6, GoesOn
  <2>3. QED
    BY <1>1, <1>2, <1>4, <1>6, <2>1, <2>2, RowsPaid
<1>7. QED
  BY <1>5, <1>6 DEF Locate

LEMMA RowsLookup == ASSUME ThreadInv, RowsInv, NEW t \in Thread, Lookup(t) PROVE RowsInv'
<1>1. /\ Busy(t) /\ Head(job[t].todo) = "lookup"
      /\ UNCHANGED <<disk, index, stale, suspect>> /\ Live' = Live
  BY DEF Lookup, At, Live
<1>2. PICK n \in Id : job[t].n = n
  BY <1>1, WellFormed
<1>3. job[t].op \in {"rename", "metadata", "canvas"} /\ Head(Tail(job[t].todo)) = "upsert"
  BY <1>1, WellFormed, HookFacts
<1>4. /\ Writer(t)
      /\ Midway(t) <=> job[t].op # "canvas"
  BY <1>1, <1>3 DEF Writer, Midway, Past, At
<1>5. n \notin suspect => Phase(t) /\ (job[t].op = "canvas" => Agreed(n))
  BY <1>1, <1>2, <1>4, SoleWriter
<1>6. CASE /\ n \in DOMAIN index /\ UNCHANGED missed
           /\ job' = [job EXCEPT ![t].todo = Tail(@), ![t].row = index[n]]
  <2>1. job' = [job EXCEPT ![t] = [job[t] EXCEPT !.todo = Tail(job[t].todo), !.row = index[n]]]
    BY <1>1, <1>6, GoesOn
  <2>2. /\ \A u \in Thread \ {t} : job'[u] = job[u]
        /\ Busy(t)' /\ job'[t].op = job[t].op /\ job'[t].n = n /\ job'[t].row = index[n]
        /\ job'[t].held = job[t].held /\ job'[t].todo = Tail(job[t].todo)
    <3>1. job \in [Thread -> Request \cup {Idle}] /\ job[t] \in Request
      BY <1>1, WellFormed DEF ThreadInv, TypeInv, JobsOK
    <3>2. /\ job'[t] = [job[t] EXCEPT !.todo = Tail(job[t].todo), !.row = index[n]]
          /\ \A u \in Thread \ {t} : job'[u] = job[u]
      BY <2>1, <3>1
    <3>3. QED
      BY <1>1, <1>2, <3>1, <3>2 DEF Request, Busy
  <2>3. Midway(t)' <=> Midway(t)
    BY <1>1, <1>3, <2>2 DEF Midway, Past, At
  <2>4. Phase(t) => Phase(t)'
    BY <1>1, <1>2, <1>6, <2>2, <2>3 DEF Phase
  <2>5. Agreed(n) => Agreed(n)'
    BY <1>1, <1>6 DEF Agreed
  <2>6. n \notin suspect => Phase(t)' /\ (~Midway(t)' => Agreed(n)')
    BY <1>4, <1>5, <2>3, <2>4, <2>5
  <2>7. QED
    BY <1>1, <1>2, <1>4, <1>6, <2>2, <2>6, OwnNode
<1>7. CASE /\ HookEnds(t)
           /\ missed' = IF n \in DOMAIN index /\ job[t].op # "canvas" THEN missed \cup {n} ELSE missed
  <2>1. job' = [job EXCEPT ![t] = [job[t] EXCEPT !.todo = <<"answer">>, !.row = job[t].row]]
    BY <1>1, <1>7, GoesOn
  <2>2. ASSUME n \notin suspect, job[t].op = "canvas" PROVE Agreed(n)'
    BY <1>1, <1>5, <1>7, <2>2 DEF Agreed
  <2>3. ASSUME n \notin suspect, job[t].op # "canvas" PROVE Agreed(n)'
    <3>1. n \in Live /\ (stale \/ n \in DOMAIN index)
      BY <1>2, <1>3, <1>4, <1>5, <2>3 DEF Phase
    <3>2. QED
      BY <1>1, <1>7, <2>3, <3>1 DEF Agreed
  <2>4. Head(<<"answer">>) = "answer"
    BY Lists
  <2>5. QED
    BY <1>1, <1>2, <1>4, <1>7, <2>1, <2>2, <2>3, <2>4, RowsPaid
<1>8. QED
  BY <1>2, <1>6, <1>7 DEF Lookup

LEMMA RowsUpsert == ASSUME ThreadInv, RowsInv, NEW t \in Thread, Upsert(t) PROVE RowsInv'
<1>1. /\ Busy(t) /\ Head(job[t].todo) = "upsert"
      /\ UNCHANGED <<disk, suspect>> /\ Live' = Live
      /\ job' = [job EXCEPT ![t].todo = Tail(@), ![t].row = 0]
  BY DEF Upsert, At, Live
<1>2. PICK n \in Id : job[t].n = n
  BY <1>1, WellFormed
<1>3. job[t].op \notin {"delete", "get"} /\ Head(Tail(job[t].todo)) = "answer"
  BY <1>1, WellFormed, HookFacts
<1>4. /\ Writer(t)
      /\ Midway(t) <=> job[t].op # "canvas"
  BY <1>1, <1>3 DEF Writer, Midway, Past, At
<1>5. job' = [job EXCEPT ![t] = [job[t] EXCEPT !.todo = Tail(job[t].todo), !.row = 0]]
  BY <1>1, GoesOn
<1>6. CASE stale' = TRUE /\ UNCHANGED <<index, missed>>
  <2>1. Agreed(n)'
    BY <1>6 DEF Agreed
  <2>2. QED
    BY <1>1, <1>2, <1>3, <1>4, <1>5, <1>6, <2>1, RowsPaid
<1>7. CASE UNCHANGED stale
           /\ index' = With(index, n, IF job[t].op = "canvas" THEN job[t].row ELSE job[t].held.title)
           /\ missed' = IF job[t].op = "canvas" THEN missed ELSE missed \ {n}
  <2>1. /\ n \in DOMAIN index'
        /\ index'[n] = IF job[t].op = "canvas" THEN job[t].row ELSE job[t].held.title
        /\ \A m \in Id \ {n} : /\ m \in DOMAIN index' <=> m \in DOMAIN index
                               /\ m \in DOMAIN index => index'[m] = index[m]
    BY <1>7 DEF With
  <2>2. ASSUME n \notin suspect, job[t].op = "canvas" PROVE Agreed(n)'
    <3>1. Agreed(n) /\ n \in DOMAIN index /\ job[t].row = index[n]
      BY <1>1, <1>2, <1>4, <2>2, SoleWriter DEF Phase, At
    <3>2. QED
      BY <1>1, <1>7, <2>1, <2>2, <3>1 DEF Agreed
  <2>3. ASSUME n \notin suspect, job[t].op # "canvas" PROVE Agreed(n)'
    <3>1. n \in Live /\ disk[n] = job[t].held
      BY <1>1, <1>2, <1>3, <1>4, <2>3, SoleWriter DEF Phase
    <3>2. QED
      BY <1>1, <2>1, <2>3, <3>1 DEF Agreed
  <2>4. QED
    BY <1>1, <1>2, <1>3, <1>4, <1>5, <1>7, <2>1, <2>2, <2>3, RowsPaid
<1>8. QED
  BY <1>2, <1>6, <1>7 DEF Upsert

LEMMA RowsErase == ASSUME ThreadInv, RowsInv, NEW t \in Thread, Erase(t) PROVE RowsInv'
<1>1. /\ Busy(t) /\ Head(job[t].todo) = "erase"
      /\ UNCHANGED <<disk, suspect>> /\ Live' = Live
  BY DEF Erase, At, Live
<1>2. PICK n \in Id : job[t].n = n
  BY <1>1, WellFormed
<1>3. job[t].op = "delete" /\ Head(Tail(job[t].todo)) = "answer"
  BY <1>1, WellFormed, HookFacts
<1>4. Writer(t) /\ Midway(t)
  BY <1>1, <1>3 DEF Writer, Midway, Past, At
<1>5. job' = [job EXCEPT ![t] = [job[t] EXCEPT !.todo = Tail(job[t].todo), !.row = job[t].row]]
  BY <1>1, GoesOn DEF Erase
<1>6. CASE stale' = TRUE /\ UNCHANGED <<index, missed>>
  <2>1. Agreed(n)'
    BY <1>6 DEF Agreed
  <2>2. QED
    BY <1>1, <1>2, <1>3, <1>4, <1>5, <1>6, <2>1, RowsPaid
<1>7. CASE UNCHANGED stale /\ index' = Less(index, n) /\ missed' = missed \ {n}
  <2>1. /\ n \notin DOMAIN index'
        /\ \A m \in Id \ {n} : /\ m \in DOMAIN index' <=> m \in DOMAIN index
                               /\ m \in DOMAIN index => index'[m] = index[m]
    BY <1>7 DEF Less
  <2>2. n \notin suspect => n \notin Live
    BY <1>1, <1>2, <1>3, <1>4, SoleWriter DEF Phase
  <2>3. n \notin suspect => Agreed(n)'
    BY <1>1, <2>1, <2>2 DEF Agreed
  <2>4. QED
    BY <1>1, <1>2, <1>3, <1>4, <1>5, <1>7, <2>1, <2>3, RowsPaid
<1>8. QED
  BY <1>2, <1>6, <1>7 DEF Erase

LEMMA RowsStart ==
    ASSUME ThreadInv, RowsInv, NEW t \in Thread, NEW op \in DOMAIN Steps, NEW n \in Id, Start(t, op, n)
    PROVE  RowsInv'
<1>1. /\ ~Busy(t) /\ UNCHANGED <<disk, index, stale, missed>>
      /\ suspect' = IF op # "get" /\ \E u \in On(n) : Writer(u) THEN suspect \cup {n} ELSE suspect
      /\ Live' = Live
  BY DEF Start, Live
<1>2. /\ job'[t].op = op /\ job'[t].n = n /\ job'[t].todo = Steps[op]
      /\ \A u \in Thread \ {t} : job'[u] = job[u]
  BY DEF Start, ThreadInv, TypeInv, JobsOK
<1>3. Head(Steps[op]) \in {"load", "write"}
  BY RestEnds
<1>4. ~Midway(t)' /\ Phase(t)'
  BY <1>2, <1>3 DEF Midway, Past, Phase, At
<1>5. /\ \A u \in Thread \ {t} : /\ Midway(u)' <=> Midway(u)
                                 /\ Phase(u)' <=> Phase(u)
                                 /\ \A m : Writes(u, m)' <=> Writes(u, m)
      /\ \A m : Agreed(m)' <=> Agreed(m)
  BY <1>1, <1>2 DEF Midway, Past, At, Busy, Phase, Writes, Writer, Agreed
<1>6. ASSUME NEW m, Writes(t, m)' PROVE m = n /\ op # "get"
  BY <1>2, <1>6 DEF Writes, Writer
<1>7. ~\E m : Writes(t, m)
  BY <1>1 DEF Writes
<1>8. ASSUME NEW m \in Id, m \notin suspect'
      PROVE  /\ \A u, v \in Thread : Writes(u, m)' /\ Writes(v, m)' => u = v
             /\ (\A u \in Thread : Writes(u, m)' => ~Midway(u)') => Agreed(m)'
             /\ \A u \in Thread : Writes(u, m)' => Phase(u)'
  <2>1. /\ \A u, v \in Thread : Writes(u, m) /\ Writes(v, m) => u = v
        /\ (\A u \in Thread : Writes(u, m) => ~Midway(u)) => Agreed(m)
        /\ \A u \in Thread : Writes(u, m) => Phase(u)
    BY <1>1, <1>8 DEF RowsInv
  <2>2. Writes(t, m)' => \A u \in Thread : ~Writes(u, m)
    BY <1>1, <1>6, <1>8 DEF Writes, On
  <2>3. ASSUME NEW u \in Thread, NEW v \in Thread, Writes(u, m)', Writes(v, m)' PROVE u = v
    <3>1. CASE u = t \/ v = t
      BY <1>5, <2>2, <2>3, <3>1
    <3>2. CASE u # t /\ v # t
      BY <1>5, <2>1, <2>3, <3>2
    <3>3. QED
      BY <3>1, <3>2
  <2>4. ASSUME \A u \in Thread : Writes(u, m)' => ~Midway(u)' PROVE Agreed(m)'
    BY <1>5, <1>7, <2>1, <2>4
  <2>5. ASSUME NEW u \in Thread, Writes(u, m)' PROVE Phase(u)'
    BY <1>4, <1>5, <2>1, <2>5
  <2>6. QED
    BY <2>3, <2>4, <2>5
<1>9. QED
  BY <1>8 DEF RowsInv

LEMMA RowsCrash == ASSUME ThreadInv, RowsInv, Crash PROVE RowsInv'
<1>1. /\ job' = [t \in Thread |-> Idle] /\ disk' = disk /\ Live' = Live
  BY DEF Crash, Live
<1>2. \A t \in Thread : ~Busy(t)'
  BY <1>1 DEF Busy, Idle
<1>3. ASSUME NEW n \in Id \ suspect' PROVE Agreed(n)'
  <2>1. CASE index' = [m \in Live |-> disk[m].title]
    BY <1>1, <2>1 DEF Agreed
  <2>2. CASE /\ UNCHANGED <<index, missed>>
             /\ suspect' = IF stale THEN Id ELSE suspect \cup {m \in Id : \E t \in On(m) : Writer(t)}
    <3>1. ~stale /\ n \notin suspect /\ \A t \in On(n) : ~Writer(t)
      BY <1>3, <2>2
    <3>2. \A t \in Thread : ~Writes(t, n)
      BY <3>1 DEF Writes, On
    <3>3. Agreed(n)
      BY <1>3, <3>1, <3>2 DEF RowsInv
    <3>4. QED
      BY <1>1, <2>2, <3>1, <3>3 DEF Agreed
  <2>3. QED
    BY <2>1, <2>2 DEF Crash
<1>4. QED
  BY <1>2, <1>3 DEF RowsInv, Writes

LEMMA RowsNext == ThreadInv /\ RowsInv /\ [Next]_vars => RowsInv'
<1> SUFFICES ASSUME ThreadInv, RowsInv, [Next]_vars PROVE RowsInv'
  OBVIOUS
<1>1. CASE UNCHANGED vars
  BY <1>1 DEF vars, RowsInv, Writes, Agreed, Phase, Midway, Past, At, Busy, Writer, Live
<1>2. CASE Crash
  BY <1>2, RowsCrash
<1>3. ASSUME NEW t \in Thread, NEW op \in DOMAIN Steps, NEW n \in Id, Start(t, op, n)
      PROVE  RowsInv'
  BY <1>3, RowsStart
<1>4. ASSUME NEW t \in Thread, Answer(t) PROVE RowsInv'
  <2>1. Busy(t) /\ ~Midway(t) /\ job' = [job EXCEPT ![t] = Idle]
    BY <1>4 DEF Answer, At, Midway
  <2>2. UNCHANGED <<disk, index, stale, suspect, missed>>
    BY <1>4 DEF Answer
  <2>3. QED
    BY <2>1, <2>2, RowsEnd
<1>5. ASSUME NEW t \in Thread, Step(t) PROVE RowsInv'
  BY <1>4, <1>5, RowsLoad, RowsWrite, RowsEvict, RowsLocate, RowsLookup, RowsUpsert, RowsErase DEF Step
<1>6. QED
  BY <1>1, <1>2, <1>3, <1>5 DEF Next

-----------------------------------------------------------------------------
(* An entry of the cache that differs from the disk has its eviction before  *)
(* it, however many threads write the node.                                  *)
THEOREM CacheAlwaysSettles == Spec => []CacheSettles
<1>1. ThreadInv => CacheSettles
  BY DEF ThreadInv, Settled, CacheSettles, On, At
<1>2. QED
  BY <1>1, ThreadsHold, PTL

(* A request that begins after a write was answered reads that write or a    *)
(* later one, from the cache or from the disk.                               *)
THEOREM ReadsFollowAnswers == Spec => []ReadsSeeAnswered
<1>1. ThreadInv => ReadsSeeAnswered
  <2>1. SUFFICES ASSUME ThreadInv, NEW t \in Thread, Busy(t), job[t].op \in Reading,
                        Head(job[t].todo) # "load"
                 PROVE  job[t].held.rev >= job[t].floor
    BY DEF ReadsSeeAnswered
  <2>2. job[t].held.rev \in Nat /\ job[t].floor \in Nat
    BY <2>1, Requests DEF ThreadInv, Request, Record
  <2>3. QED
    BY <2>1, <2>2 DEF ThreadInv, Readers, At
<1>2. QED
  BY <1>1, ThreadsHold, PTL

(* A node whose writing requests neither overlapped nor were cut by a crash   *)
(* has, when none is running, a row exactly when it exists, with its title on *)
(* disk there, or the flag is up: whatever the other threads do, and          *)
(* whichever write to the index fails. A get that fails leaves an older title *)
(* in the row, the flag down, until the next hook that writes it.             *)
THEOREM RowsAlwaysSettle == Spec => []RowsSettle
<1>1. RowsInv => RowsSettle
  BY DEF RowsInv, RowsSettle, Writes, Agreed, On
<1>2. QED
  BY <1>1, RowsInit, RowsNext, ThreadsHold, PTL DEF Spec

-----------------------------------------------------------------------------
(* The rest of the type invariant. The bound on the writes holds because a    *)
(* request that may write is only started while one is left for it, whatever  *)
(* the requests already running still do.                                     *)
Pending == {t \in Thread : /\ Busy(t) /\ job[t].op \in {"create", "rename", "metadata"}
                           /\ Head(job[t].todo) \in {"load", "write"}}

BoundsInv ==
    /\ DOMAIN boot \subseteq issued /\ DOMAIN index \subseteq issued
    /\ stale \in BOOLEAN /\ suspect \subseteq Id /\ missed \subseteq Id /\ crashes \in 0 .. MaxCrashes
    /\ writes + Cardinality(Pending) <= MaxWrites

LEMMA PendingFinite == IsFiniteSet(Pending) /\ Cardinality(Pending) \in Nat
<1>1. Pending \in SUBSET Thread
  BY DEF Pending
<1>2. IsFiniteSet(Pending)
  BY <1>1, PoolAssumption, FS_Subset
<1>3. QED
  BY <1>2, FS_CardinalityType

(* A step that writes nothing and starts nothing.                             *)
LEMMA BoundsKept ==
    ASSUME ThreadInv, BoundsInv, NEW t \in Thread, Busy(t),
           \A u \in Thread \ {t} : job'[u] = job[u],
           job'[t] = Idle \/ (job'[t].op = job[t].op
                                 /\ (Head(job[t].todo) \in {"load", "write"}
                                         \/ Head(job'[t].todo) \notin {"load", "write"})),
           UNCHANGED <<boot, issued, suspect, crashes, writes>>,
           DOMAIN index' \subseteq issued, stale' \in BOOLEAN, missed' \subseteq Id
    PROVE  BoundsInv'
<1>1. Pending' \subseteq Pending
  BY DEF Pending, Busy, Idle
<1>2. Cardinality(Pending') <= Cardinality(Pending) /\ IsFiniteSet(Pending') /\ Cardinality(Pending') \in Nat
  BY <1>1, PendingFinite, FS_Subset, FS_CardinalityType
<1>3. writes + Cardinality(Pending') <= MaxWrites
  BY <1>2, PendingFinite, CountAssumption DEF BoundsInv, ThreadInv, TypeInv
<1>4. QED
  BY <1>3 DEF BoundsInv

LEMMA BoundsWrite == ASSUME ThreadInv, BoundsInv, NEW t \in Thread, Write(t) PROVE BoundsInv'
<1> DEFINE n == job[t].n
<1>1. /\ Busy(t) /\ Head(job[t].todo) = "write"
      /\ UNCHANGED <<boot, index, stale, issued, crashes, suspect, missed>>
  BY DEF Write, At
<1>2. /\ job[t].op \in DOMAIN Steps /\ job[t].todo \in Rest[job[t].op] /\ job[t].held \in Record
      /\ writes \in Nat
  BY <1>1, WellFormed DEF ThreadInv, TypeInv
<1>3. DOMAIN index' \subseteq issued /\ stale' \in BOOLEAN /\ missed' \subseteq Id
  BY <1>1 DEF BoundsInv
<1>4. CASE NotFound(t) /\ writes' = writes
  <2>1. job'[t] = Idle /\ \A u \in Thread \ {t} : job'[u] = job[u]
    BY <1>4, JobEnds DEF NotFound, ThreadInv
  <2>2. QED
    BY <1>1, <1>3, <1>4, <2>1, BoundsKept
<1>5. ASSUME NEW h \in Record, DoneWith(t, h) \/ (Done(t) /\ h = job[t].held)
      PROVE  /\ \A u \in Thread \ {t} : job'[u] = job[u]
             /\ job'[t].op = job[t].op
             /\ Head(job'[t].todo) \notin {"load", "write"}
  <2>1. /\ \A u \in Thread \ {t} : job'[u] = job[u]
        /\ job'[t].op = job[t].op /\ job'[t].todo = Tail(job[t].todo)
    BY <1>1, <1>5, JobDone DEF ThreadInv
  <2>2. Head(Tail(job[t].todo)) \notin {"load", "write"}
    BY <1>1, <1>2, RestFacts
  <2>3. QED
    BY <2>1, <2>2
<1>6. [rev |-> Gone, title |-> 0] \in Record
  BY CountAssumption DEF Record, Gone
<1>7. CASE (Done(t) \/ DoneWith(t, [rev |-> Gone, title |-> 0])) /\ writes' = writes
  <2>1. /\ \A u \in Thread \ {t} : job'[u] = job[u]
        /\ job'[t].op = job[t].op
    BY <1>2, <1>5, <1>6, <1>7
  <2>2. QED
    BY <1>1, <1>3, <1>7, <2>1, BoundsKept
<1>8. CASE /\ job[t].op \in {"create", "rename", "metadata"} /\ writes' = writes + 1
           /\ \E h \in Record : DoneWith(t, h)
  <2>1. /\ \A u \in Thread \ {t} : job'[u] = job[u]
        /\ job'[t].op = job[t].op
        /\ Head(job'[t].todo) \notin {"load", "write"}
    BY <1>5, <1>8
  <2>2. t \in Pending
    BY <1>1, <1>8 DEF Pending
  <2>3. Pending' \subseteq Pending \ {t}
    BY <2>1 DEF Pending, Busy
  <2>4. Cardinality(Pending \ {t}) = Cardinality(Pending) - 1 /\ IsFiniteSet(Pending \ {t})
    BY <2>2, PendingFinite, FS_RemoveElement
  <2>5. Cardinality(Pending') <= Cardinality(Pending \ {t}) /\ Cardinality(Pending') \in Nat
    BY <2>3, <2>4, FS_Subset, FS_CardinalityType
  <2>6. writes' + Cardinality(Pending') <= MaxWrites
    BY <1>2, <1>8, <2>4, <2>5, PendingFinite, CountAssumption DEF BoundsInv
  <2>7. QED
    BY <1>1, <2>6 DEF BoundsInv
<1>9. CASE n \notin Live /\ job[t].op # "create"
  BY <1>4, <1>9 DEF Write
<1>10. CASE (n \in Live \/ job[t].op = "create") /\ job[t].op \in {"delete", "canvas"}
  BY <1>7, <1>10 DEF Write
<1>11. CASE (n \in Live \/ job[t].op = "create") /\ job[t].op \notin {"delete", "canvas"}
  <2>1. PICK h : h = [rev |-> writes + 1,
                      title |-> IF job[t].op = "metadata" THEN job[t].held.title ELSE writes + 1]
    OBVIOUS
  <2>2. h \in Record
    BY <1>2, <2>1 DEF Record
  <2>3. DoneWith(t, h) /\ writes' = writes + 1
    BY <1>11, <2>1 DEF Write
  <2>4. job[t].op # "get"
    BY <1>1, <1>2, RestFacts
  <2>5. job[t].op \in {"create", "rename", "metadata"}
    BY <1>2, <1>11, <2>4 DEF Steps
  <2>6. QED
    BY <1>8, <2>2, <2>3, <2>5
<1>12. QED
  BY <1>9, <1>10, <1>11

LEMMA BoundsNext == ThreadInv /\ BoundsInv /\ [Next]_vars => BoundsInv'
<1> SUFFICES ASSUME ThreadInv, BoundsInv, [Next]_vars PROVE BoundsInv'
  OBVIOUS
<1>1. CASE UNCHANGED vars
  <2>1. Pending' = Pending
    BY <1>1 DEF vars, Pending, Busy
  <2>2. QED
    BY <1>1, <2>1 DEF vars, BoundsInv
<1>2. CASE Crash
  <2>1. /\ boot' = disk /\ stale' = FALSE /\ crashes' = crashes + 1 /\ crashes < MaxCrashes
        /\ UNCHANGED <<issued, writes>> /\ job' = [t \in Thread |-> Idle]
        /\ DOMAIN index' = DOMAIN index \/ DOMAIN index' = Live
        /\ suspect' \subseteq Id \cup suspect /\ missed' \subseteq missed
    BY <1>2 DEF Crash
  <2>2. Pending' = {}
    BY <2>1 DEF Pending, Busy, Idle
  <2>3. writes + Cardinality(Pending') <= MaxWrites
    BY <2>2, PendingFinite, FS_EmptySet, CountAssumption DEF BoundsInv, ThreadInv, TypeInv
  <2>4. DOMAIN boot' \subseteq issued /\ DOMAIN index' \subseteq issued
    BY <2>1 DEF BoundsInv, ThreadInv, TypeInv, Live
  <2>5. crashes' \in 0 .. MaxCrashes
    BY <2>1, CountAssumption DEF BoundsInv
  <2>6. QED
    BY <2>1, <2>3, <2>4, <2>5 DEF BoundsInv
<1>3. ASSUME NEW t \in Thread, NEW op \in DOMAIN Steps, NEW n \in Id, Start(t, op, n)
      PROVE  BoundsInv'
  <2>1. /\ op \in {"create", "rename", "metadata"} => writes + Cardinality({u \in Thread : Busy(u)}) < MaxWrites
        /\ issued' = issued \cup {n} /\ suspect' \subseteq suspect \cup {n}
        /\ UNCHANGED <<boot, index, stale, writes, crashes, missed>>
    BY <1>3 DEF Start
  <2>2. job'[t].op = op /\ \A u \in Thread \ {t} : job'[u] = job[u]
    BY <1>3 DEF Start, ThreadInv, TypeInv, JobsOK
  <2>3. writes \in Nat
    BY DEF ThreadInv, TypeInv
  <2>4. writes + Cardinality(Pending') <= MaxWrites
    <3>1. CASE op \in {"create", "rename", "metadata"}
      <4>1. PICK B : B = {u \in Thread : Busy(u)}
        OBVIOUS
      <4>2. B \in SUBSET Thread /\ Pending' \in SUBSET (B \cup {t})
        BY <2>2, <4>1 DEF Pending, Busy
      <4>3. IsFiniteSet(B) /\ Cardinality(B) \in Nat
        BY <4>2, PoolAssumption, FS_Subset, FS_CardinalityType
      <4>4. IsFiniteSet(B \cup {t}) /\ Cardinality(B \cup {t}) <= Cardinality(B) + 1
            /\ Cardinality(B \cup {t}) \in Nat
        <5>1. /\ IsFiniteSet(B \cup {t})
              /\ Cardinality(B \cup {t}) = IF t \in B THEN Cardinality(B) ELSE Cardinality(B) + 1
          BY <4>3, FS_AddElement
        <5>2. QED
          BY <4>3, <5>1
      <4>5. Cardinality(Pending') <= Cardinality(B \cup {t}) /\ Cardinality(Pending') \in Nat
        BY <4>2, <4>4, FS_Subset, FS_CardinalityType
      <4>6. writes + Cardinality(B) < MaxWrites
        BY <2>1, <3>1, <4>1
      <4>7. QED
        BY <2>3, <4>3, <4>4, <4>5, <4>6, CountAssumption
    <3>2. CASE op \notin {"create", "rename", "metadata"}
      <4>1. Pending' \in SUBSET Pending
        BY <2>2, <3>2 DEF Pending, Busy
      <4>2. Cardinality(Pending') <= Cardinality(Pending) /\ Cardinality(Pending') \in Nat
        BY <4>1, PendingFinite, FS_Subset, FS_CardinalityType
      <4>3. QED
        BY <2>3, <4>2, PendingFinite, CountAssumption DEF BoundsInv
    <3>3. QED
      BY <3>1, <3>2
  <2>5. QED
    BY <2>1, <2>4 DEF BoundsInv
<1>4. ASSUME NEW t \in Thread, Load(t) PROVE BoundsInv'
  <2>1. /\ Busy(t) /\ Head(job[t].todo) = "load"
        /\ UNCHANGED <<boot, index, stale, issued, crashes, suspect, missed, writes>>
    BY <1>4 DEF Load, At
  <2>2. \A m \in cached : boot[m] \in Record
    BY DEF ThreadInv, TypeInv
  <2>3. \A m \in Live : disk[m] \in Record
    BY DEF ThreadInv, TypeInv
  <2>4. CASE NotFound(t)
    <3>1. job'[t] = Idle /\ \A u \in Thread \ {t} : job'[u] = job[u]
      BY <2>4, JobEnds DEF NotFound, ThreadInv
    <3>2. QED
      BY <2>1, <3>1, BoundsKept DEF BoundsInv
  <2>5. ASSUME NEW h \in Record, DoneWith(t, h) PROVE BoundsInv'
    <3>1. job'[t].op = job[t].op /\ \A u \in Thread \ {t} : job'[u] = job[u]
      BY <2>1, <2>5, JobDone DEF ThreadInv
    <3>2. QED
      BY <2>1, <3>1, BoundsKept DEF BoundsInv
  <2>6. QED
    BY <1>4, <2>2, <2>3, <2>4, <2>5 DEF Load
<1>5. ASSUME NEW t \in Thread, Evict(t) PROVE BoundsInv'
  <2>1. /\ Busy(t) /\ Head(job[t].todo) = "evict" /\ Done(t)
        /\ UNCHANGED <<boot, index, stale, issued, crashes, suspect, missed, writes>>
    BY <1>5 DEF Evict, At
  <2>2. /\ job'[t].op = job[t].op /\ job'[t].todo = Tail(job[t].todo)
        /\ \A u \in Thread \ {t} : job'[u] = job[u]
    BY <2>1, WellFormed, JobDone DEF ThreadInv
  <2>3. Head(Tail(job[t].todo)) \notin {"load", "write"}
    BY <2>1, WellFormed, RestFacts
  <2>4. QED
    BY <2>1, <2>2, <2>3, BoundsKept DEF BoundsInv
<1>6. ASSUME NEW t \in Thread, Locate(t) \/ Lookup(t) \/ Upsert(t) \/ Erase(t) PROVE BoundsInv'
  <2>1. /\ Busy(t) /\ job'[t].op = job[t].op
        /\ Head(job'[t].todo) \notin {"load", "write"}
        /\ \A u \in Thread \ {t} : job'[u] = job[u]
    BY <1>6, HookMoves
  <2>2. job[t].n \in issued
    BY <2>1 DEF ThreadInv, Issued
  <2>3. DOMAIN index' \subseteq issued /\ stale' \in BOOLEAN /\ missed' \subseteq Id
    BY <1>6, <2>2 DEF Locate, Lookup, Upsert, Erase, With, Less, BoundsInv, ThreadInv, TypeInv
  <2>4. UNCHANGED <<boot, issued, suspect, crashes, writes>>
    BY <1>6 DEF Locate, Lookup, Upsert, Erase
  <2>5. QED
    BY <2>1, <2>3, <2>4, BoundsKept
<1>7. ASSUME NEW t \in Thread, Answer(t) PROVE BoundsInv'
  <2>1. /\ Busy(t) /\ job' = [job EXCEPT ![t] = Idle]
        /\ UNCHANGED <<boot, index, stale, issued, crashes, suspect, missed, writes>>
    BY <1>7 DEF Answer, At
  <2>2. job'[t] = Idle /\ \A u \in Thread \ {t} : job'[u] = job[u]
    BY <2>1, JobEnds DEF ThreadInv
  <2>3. QED
    BY <2>1, <2>2, BoundsKept DEF BoundsInv
<1>8. ASSUME NEW t \in Thread, Step(t) PROVE BoundsInv'
  BY <1>4, <1>5, <1>6, <1>7, <1>8, BoundsWrite DEF Step
<1>9. QED
  BY <1>1, <1>2, <1>3, <1>8 DEF Next

LEMMA BoundsInit == Init => BoundsInv
<1> SUFFICES ASSUME Init PROVE BoundsInv
  OBVIOUS
<1>1. job = [t \in Thread |-> Idle] /\ stale = FALSE /\ writes = 0 /\ crashes = 0 /\ suspect = {} /\ missed = {}
  BY DEF Init
<1>2. Pending = {}
  BY <1>1 DEF Pending, Busy, Idle
<1>3. writes + Cardinality(Pending) <= MaxWrites
  BY <1>1, <1>2, FS_EmptySet, CountAssumption
<1>4. DOMAIN boot = issued /\ DOMAIN index = issued
  BY DEF Init
<1>5. crashes \in 0 .. MaxCrashes
  BY <1>1, CountAssumption
<1>6. stale \in BOOLEAN /\ suspect \subseteq Id /\ missed \subseteq Id
  BY <1>1
<1>7. QED
  BY <1>3, <1>4, <1>5, <1>6 DEF BoundsInv

(* What a request has left is the end of the list it began with.              *)
LEMMA RestIsSuffix == AllRest \subseteq UNION {Suffixes(Steps[op]) : op \in DOMAIN Steps}
<1>1. ASSUME NEW op \in DOMAIN Steps, NEW s \in Rest[op] PROVE s \in Suffixes(Steps[op])
  <2>1. CASE op = "create"
    BY <1>1, <2>1 DEF Rest, Steps, Suffixes
  <2>2. CASE op = "rename"
    BY <1>1, <2>2 DEF Rest, EditRest, HookRest, Steps, Suffixes
  <2>3. CASE op = "metadata"
    BY <1>1, <2>3 DEF Rest, EditRest, HookRest, Steps, Suffixes
  <2>4. CASE op = "canvas"
    BY <1>1, <2>4 DEF Rest, HookRest, Steps, Suffixes
  <2>5. CASE op = "delete"
    BY <1>1, <2>5 DEF Rest, Steps, Suffixes
  <2>6. CASE op = "get"
    BY <1>1, <2>6 DEF Rest, Steps, Suffixes
  <2>7. QED
    BY <2>1, <2>2, <2>3, <2>4, <2>5, <2>6 DEF Steps
<1>2. QED
  BY <1>1 DEF AllRest

(* Everything has its type, and the watched nodes were all issued.            *)
THEOREM RequestsTypeCorrect == Spec => []TypeOK
<1>1. ThreadInv /\ BoundsInv => TypeOK
  <2> SUFFICES ASSUME ThreadInv, BoundsInv PROVE TypeOK
    OBVIOUS
  <2>1. \A t \in Thread : job[t] = Idle \/ job[t] \in Job
    BY RestIsSuffix DEF ThreadInv, TypeInv, JobsOK, Request, Job
  <2>2. writes \in 0 .. MaxWrites
    BY PendingFinite, CountAssumption DEF ThreadInv, TypeInv, BoundsInv
  <2>3. QED
    BY <2>1, <2>2 DEF ThreadInv, TypeInv, BoundsInv, TypeOK
<1>2. QED
  BY <1>1, BoundsInit, BoundsNext, ThreadsHold, PTL DEF Spec
=============================================================================
