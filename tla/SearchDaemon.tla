---------------------------- MODULE SearchDaemon ----------------------------
(***************************************************************************)
(* searchd: the queue of ThriftTaskMgrServer, the exec threads that take   *)
(* requests from it, the distributed search each of them runs              *)
(* (CommonSearch, with one thread per merge server), and the shutdown of   *)
(* the thread pools.                                                       *)
(*                                                                         *)
(* An exec thread clones the registered CommonSearch for its request, so   *)
(* the members of a search are indexed by the exec thread that runs it.    *)
(* The i-th search thread of the search that e runs is <<e, i>>.           *)
(***************************************************************************)
EXTENDS MergeIndex

CONSTANTS
  Executors,  \* the ThriftExecThreads in the order of threads_, a sequence
  Requests,   \* requests that clients may send, once each
  Query,      \* Query[r]: the words of the picture of r, with their weights
  Ranges,     \* exec_merge_conf: a sequence of [first, last] word ids
  Tids,       \* values of pthread_t
  FreshPow,   \* what query_pow_ may hold in a new object
  Faults,     \* what a call of a merge server may do but answer
  Timeout     \* TRUE: timeout_ > 0

Execs == ToSet(Executors)
MaxParts == Len(Ranges)
Workers == Execs \X (1..MaxParts)
Main == "main"
None == "none"

ASSUME DaemonAssumption ==
  /\ Ranges # <<>> /\ Timeout \in BOOLEAN
  /\ Cardinality(Execs) = Len(Executors) /\ Main \notin Execs
  /\ Faults \subseteq {"throws", "silent"}
  /\ None \notin Tids \cup Requests

VARIABLES
  main,     \* the main thread: "serving", then KillAll, then "done"
  queue,    \* task_queue_
  outcome,  \* what became of a request
  reply,    \* history: the pictures sent for it
  ending,   \* state_ of an exec thread is THREAD_STATE_ENDING
  pc,       \* where an exec thread is
  cur,      \* the request it runs
  proto,    \* the registered CommonSearch: "new", "half" and "ready"
  confs,    \* its exec_merge_conf_
  conf,     \* exec_merge_conf_ of a clone
  parts,    \* servers_to_datas_: the words for each merge server
  sim,      \* result_similar_
  pow,      \* query_pow_
  pow0,     \* history: query_pow_ of the new object
  mutex,    \* the search thread that holds io_mutex_
  wpc,      \* where a search thread is
  reg,      \* query_pow_ as it read it
  tid,      \* pthread_ of a thread
  os,       \* whether a thread runs or has ended under a pthread_t, and
            \*   whether somebody is joining it
  nth,      \* the thread KillAll or StartAll is at
  waits,    \* the pthread_t that pthread_join waits for
  crash     \* why the process died, "no" while it lives

taskVars == <<queue, outcome, reply>>
protoVars == <<proto, confs>>
searchVars == <<conf, parts, sim, pow, pow0, mutex>>
osVars == <<tid, os>>
vars == <<main, taskVars, ending, pc, cur, protoVars, searchVars, wpc, reg,
          osVars, nth, waits, crash>>

Gone == [thread |-> "none", joined |-> FALSE]
Created == [thread |-> "runs", joined |-> FALSE]
Running(w) == wpc[w] \notin {"none", "over"}

\* The exec threads were created before; which pthread_t they got is all one.
ExecTid == CHOOSE f \in [Execs -> Tids] : \A d, e \in Execs : f[d] = f[e] => d = e

Init ==
  /\ main = "serving" /\ queue = <<>>
  /\ outcome = [r \in Requests |-> "new"]
  /\ reply = [r \in Requests |-> {}]
  /\ ending = [e \in Execs |-> FALSE]
  /\ pc = [e \in Execs |-> "loop"]
  /\ cur = [e \in Execs |-> None]
  /\ proto = "new" /\ confs = <<>>
  /\ conf = [e \in Execs |-> <<>>]
  /\ parts = [e \in Execs |-> <<>>]
  /\ sim = [e \in Execs |-> <<>>]
  /\ pow = [e \in Execs |-> 0] /\ pow0 = pow
  /\ mutex = [e \in Execs |-> 0]
  /\ wpc = [w \in Workers |-> "none"]
  /\ reg = [w \in Workers |-> 0]
  /\ tid = [th \in Execs \cup Workers |-> IF th \in Execs THEN ExecTid[th] ELSE None]
  /\ os = [t \in Tids |-> IF \E e \in Execs : tid[e] = t THEN Created ELSE Gone]
  /\ nth = [a \in Execs \cup {Main} |-> 1]
  /\ waits = [a \in Execs \cup {Main} |-> None]
  /\ crash = "no"

Dies(why) == crash' = why
-----------------------------------------------------------------------------
(* The queue *)

\* The framework thread has decoded request r.
ProcessMsg(r) ==
  /\ main = "serving" /\ outcome[r] = "new"
  /\ queue' = Append(queue, r)
  /\ outcome' = [outcome EXCEPT ![r] = "queued"]
  /\ UNCHANGED <<main, reply, ending, pc, cur, protoVars, searchVars, wpc, reg,
                 osVars, nth, waits, crash>>

\* Mutant: front() without pop().
PopKeeps(e, k) ==
  /\ k > 0 => Timeout
  /\ queue' = SubSeq(queue, k + 1, Len(queue))
  /\ LET next == IF k < Len(queue) THEN queue[k + 1] ELSE None
     IN /\ outcome' = [r \in Requests |-> IF \E i \in 1..k : queue[i] = r THEN "expired"
                                          ELSE IF r = next THEN "running"
                                          ELSE outcome[r]]
        /\ cur' = [cur EXCEPT ![e] = next]
        /\ pc' = [pc EXCEPT ![e] = IF next = None THEN "loop" ELSE "clone"]

\* The first k tasks have expired: they are deleted, and nobody is told.  The
\* next one, if any, is the caller's.
PopValidTask(e, k) ==
  /\ k > 0 => Timeout
  /\ queue' = SubSeq(queue, k + 2, Len(queue))
  /\ LET late == {queue[i] : i \in 1..k}
         next == IF k < Len(queue) THEN queue[k + 1] ELSE None
     IN /\ outcome' = [r \in Requests |-> IF r \in late THEN "expired"
                                          ELSE IF r = next THEN "running"
                                          ELSE outcome[r]]
        /\ cur' = [cur EXCEPT ![e] = next]
        /\ pc' = [pc EXCEPT ![e] = IF next = None THEN "loop" ELSE "clone"]

ExecLoop(e) ==
  /\ pc[e] = "loop" /\ ~ending[e] /\ queue # <<>>
  /\ \E k \in 0..Len(queue) : PopValidTask(e, k)
  /\ UNCHANGED <<main, reply, ending, protoVars, searchVars, wpc, reg, osVars,
                 nth, waits, crash>>

\* The exec thread sees state_ and returns from ThreadProc.
ExecEnds(e) ==
  /\ pc[e] = "loop" /\ ending[e]
  /\ pc' = [pc EXCEPT ![e] = "over"]
  /\ os' = [os EXCEPT ![tid[e]].thread = "ended"]
  /\ UNCHANGED <<main, taskVars, ending, cur, protoVars, searchVars, wpc, reg,
                 tid, nth, waits, crash>>

-----------------------------------------------------------------------------
(* Clone of the registered CommonSearch, which is initialised by the first *)
(* clone                                                                   *)

CloneChecks(e) ==
  /\ pc[e] = "clone"
  /\ pc' = [pc EXCEPT ![e] = IF proto = "new" THEN "init" ELSE "copy"]
  /\ UNCHANGED <<main, taskVars, ending, cur, protoVars, searchVars, wpc, reg,
                 osVars, nth, waits, crash>>

\* Up to weighter_: from here on Clone takes the object for initialised.
InitPointers(e) ==
  /\ pc[e] = "init"
  /\ proto' = IF proto = "new" THEN "half" ELSE proto
  /\ pc' = [pc EXCEPT ![e] = "initConf"]
  /\ UNCHANGED <<main, taskVars, ending, cur, confs, searchVars, wpc, reg,
                 osVars, nth, waits, crash>>

InitExecMergeConf(e) ==
  /\ pc[e] = "initConf"
  /\ proto' = "ready" /\ confs' = confs \o Ranges
  /\ pc' = [pc EXCEPT ![e] = "copy"]
  /\ UNCHANGED <<main, taskVars, ending, cur, searchVars, wpc, reg, osVars, nth,
                 waits, crash>>

\* Two threads push into the vector at once.
InitConfRace(e) ==
  /\ pc[e] = "initConf"
  /\ \E f \in Execs \ {e} : pc[f] = "initConf"
  /\ Dies("race")
  /\ UNCHANGED <<main, taskVars, ending, pc, cur, protoVars, searchVars, wpc,
                 reg, osVars, nth, waits>>

CloneCopies(e) ==
  /\ pc[e] = "copy"
  /\ conf' = [conf EXCEPT ![e] = confs]
  /\ sim' = [sim EXCEPT ![e] = <<>>]
  /\ \E x \in FreshPow : /\ pow' = [pow EXCEPT ![e] = x]
                         /\ pow0' = [pow0 EXCEPT ![e] = x]
  /\ pc' = [pc EXCEPT ![e] = "query"]
  /\ UNCHANGED <<main, taskVars, ending, cur, protoVars, parts, mutex, wpc, reg,
                 osVars, nth, waits, crash>>

-----------------------------------------------------------------------------
(* Process *)

\* The picture cannot be fetched or has no features: an error is returned.
ProcessFails(e) ==
  /\ pc[e] = "query"
  /\ pc' = [pc EXCEPT ![e] = "failed"]
  /\ UNCHANGED <<main, taskVars, ending, cur, protoVars, searchVars, wpc, reg,
                 osVars, nth, waits, crash>>

\* DispatchData starts from the first range without asking whether there is
\* one.
ProcessNoConf(e) ==
  /\ pc[e] = "query" /\ conf[e] = <<>>
  /\ Dies("conf")
  /\ UNCHANGED <<main, taskVars, ending, pc, cur, protoVars, searchVars, wpc,
                 reg, osVars, nth, waits>>

Process(e) ==
  /\ pc[e] = "query" /\ conf[e] # <<>>
  /\ LET ps == DispatchData(conf[e], DOMAIN Query[cur[e]])
     IN /\ parts' = [parts EXCEPT ![e] = ps]
        /\ pc' = [pc EXCEPT ![e] = IF ps = <<>> THEN "failed" ELSE "start"]
  /\ nth' = [nth EXCEPT ![e] = 1]
  /\ UNCHANGED <<main, taskVars, ending, cur, protoVars, conf, sim, pow, pow0,
                 mutex, wpc, reg, osVars, waits, crash>>

\* The end of a loop over the search threads: the next one, or the next step.
Onward(e, here, there) ==
  IF nth[e] < Len(parts[e])
  THEN /\ nth' = [nth EXCEPT ![e] = @ + 1]
       /\ pc' = [pc EXCEPT ![e] = here]
  ELSE /\ nth' = [nth EXCEPT ![e] = 1]
       /\ pc' = [pc EXCEPT ![e] = there]

\* StartAll: pthread_create for the next search thread; it may get any
\* pthread_t that is not in use.
StartThread(e) ==
  /\ pc[e] = "start"
  /\ \E t \in Tids :
       /\ os[t] = Gone
       /\ tid' = [tid EXCEPT ![<<e, nth[e]>>] = t]
       /\ os' = [os EXCEPT ![t] = Created]
  /\ wpc' = [wpc EXCEPT ![<<e, nth[e]>>] = "begin"]
  /\ Onward(e, "start", "join1")
  /\ UNCHANGED <<main, taskVars, ending, cur, protoVars, searchVars, reg, waits,
                 crash>>

(* pthread_join of t by a *)

\* An error at once for a pthread_t that names no thread, or one that
\* somebody else is joining.
JoinRefused(t) == os[t] = Gone \/ os[t].joined

JoinWaits(a, t) ==
  /\ waits[a] = None /\ ~JoinRefused(t)
  /\ os' = [os EXCEPT ![t].joined = TRUE]
  /\ waits' = [waits EXCEPT ![a] = t]

\* Mutants: Terminate does not join, and Join tries again after an error.
JoinSkipped(a, t) == UNCHANGED <<os, waits>>

JoinRetried(a, t) ==
  /\ waits[a] = t /\ os[t].thread = "ended"
  /\ os' = [os EXCEPT ![t] = Gone]
  /\ waits' = [waits EXCEPT ![a] = None]

JoinReturns(a, t) ==
  \/ /\ waits[a] = None /\ JoinRefused(t)
     /\ UNCHANGED <<os, waits>>
  \/ /\ waits[a] = t /\ os[t].thread = "ended"
     /\ os' = [os EXCEPT ![t] = Gone]
     /\ waits' = [waits EXCEPT ![a] = None]

\* KillAll joins each search thread twice: in Terminate, and in the
\* destructor, which calls Terminate again.
KillAllWaits(e) ==
  /\ pc[e] \in {"join1", "join2"}
  /\ JoinWaits(e, tid[<<e, nth[e]>>])
  /\ UNCHANGED <<main, taskVars, ending, pc, cur, protoVars, searchVars, wpc,
                 reg, tid, nth, crash>>

KillAllTerminates(e) ==
  /\ pc[e] = "join1"
  /\ JoinReturns(e, tid[<<e, nth[e]>>])
  /\ pc' = [pc EXCEPT ![e] = "join2"]
  /\ UNCHANGED <<main, taskVars, ending, cur, protoVars, searchVars, wpc, reg,
                 tid, nth, crash>>

\* The object is freed; ThreadProc needs it until it has called request_fn_.
KillAllDeletes(e) ==
  /\ pc[e] = "join2"
  /\ JoinReturns(e, tid[<<e, nth[e]>>])
  /\ IF wpc[<<e, nth[e]>>] = "begin" THEN Dies("freed") ELSE UNCHANGED crash
  /\ Onward(e, "join1", "rank")
  /\ UNCHANGED <<main, taskVars, ending, cur, protoVars, searchVars, wpc, reg,
                 tid>>

\* The rest of Process, the release of the clone, and the answer.  SendMsg and
\* CloseIO do nothing once the framework is down.
Answer(e, res) ==
  /\ outcome' = [outcome EXCEPT ![cur[e]] = IF main = "serving" THEN res ELSE "unsent"]
  /\ cur' = [cur EXCEPT ![e] = None]
  /\ pc' = [pc EXCEPT ![e] = "loop"]
  /\ conf' = [conf EXCEPT ![e] = <<>>] /\ parts' = [parts EXCEPT ![e] = <<>>]
  /\ sim' = [sim EXCEPT ![e] = <<>>]
  /\ pow' = [pow EXCEPT ![e] = 0] /\ pow0' = [pow0 EXCEPT ![e] = 0]
  /\ IF \E i \in 1..MaxParts : Running(<<e, i>>)
     THEN Dies("freed") ELSE UNCHANGED crash
  /\ wpc' = [w \in Workers |-> IF w[1] = e THEN "none" ELSE wpc[w]]
  /\ tid' = [th \in DOMAIN tid |-> IF th \in Workers /\ th[1] = e THEN None ELSE tid[th]]

RankAndReply(e) ==
  /\ pc[e] = "rank"
  /\ reply' = [reply EXCEPT ![cur[e]] = Rank(sim[e], pow[e])]
  /\ Answer(e, "replied")
  /\ UNCHANGED <<main, queue, ending, protoVars, mutex, reg, os, nth, waits>>

ReplyError(e) ==
  /\ pc[e] = "failed"
  /\ Answer(e, "error")
  /\ UNCHANGED <<main, queue, reply, ending, protoVars, mutex, reg, os, nth,
                 waits>>
-----------------------------------------------------------------------------
(* A search thread <<e, i>>: ExecMerge *)

WordsOf(w) == parts[w[1]][w[2]]

\* What the merge servers answer for the words of a request.
Answers == {<<r, words, SearcherMerge(Query[r], words)>> : <<r, words>> \in
              UNION {{r} \X SUBSET DOMAIN Query[r] : r \in Requests}}
AnswerTo(w) == (CHOOSE a \in Answers : a[1] = cur[w[1]] /\ a[2] = WordsOf(w))[3]

WorkerGoes(w, from, to) ==
  /\ wpc[w] = from
  /\ wpc' = [wpc EXCEPT ![w] = to]

ExecMergeBegins(w) ==
  /\ WorkerGoes(w, "begin", "call")
  /\ UNCHANGED <<main, taskVars, ending, pc, cur, protoVars, searchVars, reg,
                 osVars, nth, waits, crash>>

\* The merge server answers, and query_pow_ is read for the addition.
MergeAnswers(w) ==
  /\ WorkerGoes(w, "call", "pow")
  /\ AnswerTo(w) # <<>>
  /\ reg' = [reg EXCEPT ![w] = pow[w[1]]]
  /\ UNCHANGED <<main, taskVars, ending, pc, cur, protoVars, searchVars, osVars,
                 nth, waits, crash>>

\* A server that found nothing leaves ret_num at 0 and result empty, and
\* binary_iarchive throws on it; a connection that fails throws as well.  No
\* search thread catches anything.
MergeThrows(w) ==
  /\ wpc[w] = "call"
  /\ AnswerTo(w) = <<>> \/ "throws" \in Faults
  /\ Dies("abort")
  /\ UNCHANGED <<main, taskVars, ending, pc, cur, protoVars, searchVars, wpc,
                 reg, osVars, nth, waits>>

\* The request has expired in the queue of the merge server, which sends no
\* reply and keeps the connection; the socket has no timeout.
MergeSilent(w) ==
  /\ "silent" \in Faults
  /\ WorkerGoes(w, "call", "hung")
  /\ UNCHANGED <<main, taskVars, ending, pc, cur, protoVars, searchVars, reg,
                 osVars, nth, waits, crash>>

\* Mutant: = for +=.
SetQueryPow(w) ==
  /\ WorkerGoes(w, "pow", "lock")
  /\ pow' = [pow EXCEPT ![w[1]] = QueryPow(Query[cur[w[1]]], WordsOf(w))]
  /\ reg' = [reg EXCEPT ![w] = 0]
  /\ UNCHANGED <<main, taskVars, ending, pc, cur, protoVars, conf, parts, sim,
                 pow0, mutex, osVars, nth, waits, crash>>

AddQueryPow(w) ==
  /\ WorkerGoes(w, "pow", "lock")
  /\ pow' = [pow EXCEPT ![w[1]] = reg[w] + QueryPow(Query[cur[w[1]]], WordsOf(w))]
  /\ reg' = [reg EXCEPT ![w] = 0]
  /\ UNCHANGED <<main, taskVars, ending, pc, cur, protoVars, conf, parts, sim,
                 pow0, mutex, osVars, nth, waits, crash>>

MergeLocks(w) ==
  /\ mutex[w[1]] = 0
  /\ WorkerGoes(w, "lock", "merge")
  /\ mutex' = [mutex EXCEPT ![w[1]] = w[2]]
  /\ UNCHANGED <<main, taskVars, ending, pc, cur, protoVars, conf, parts, sim,
                 pow, pow0, reg, osVars, nth, waits, crash>>

\* MergeThreadsResult under the lock, and the end of the thread.
MergeResult(w) ==
  /\ WorkerGoes(w, "merge", "over")
  /\ \E g \in EndPics :
       sim' = [sim EXCEPT ![w[1]] = MergeThreadsResult(@, AnswerTo(w), g)]
  /\ mutex' = [mutex EXCEPT ![w[1]] = 0]
  /\ os' = [os EXCEPT ![tid[w]].thread = "ended"]
  /\ UNCHANGED <<main, taskVars, ending, pc, cur, protoVars, conf, parts, pow,
                 pow0, reg, tid, nth, waits, crash>>
-----------------------------------------------------------------------------
(* The main thread *)

\* framework.Start returns, framework.Uninit, KillAll begins.
Shutdown ==
  /\ main = "serving"
  /\ main' = "join1"
  /\ ending' = [ending EXCEPT ![Executors[1]] = TRUE]
  /\ UNCHANGED <<taskVars, pc, cur, protoVars, searchVars, wpc, reg, osVars,
                 nth, waits, crash>>

Victim == Executors[nth[Main]]

PoolWaits ==
  /\ main \in {"join1", "join2"}
  /\ JoinWaits(Main, tid[Victim])
  /\ UNCHANGED <<main, taskVars, ending, pc, cur, protoVars, searchVars, wpc,
                 reg, tid, nth, crash>>

PoolTerminates ==
  /\ main = "join1"
  /\ JoinReturns(Main, tid[Victim])
  /\ main' = "join2"
  /\ UNCHANGED <<taskVars, ending, pc, cur, protoVars, searchVars, wpc, reg,
                 tid, nth, crash>>

\* Mutant: only the first exec thread is told to end.
PoolForgets ==
  /\ main = "join2"
  /\ JoinReturns(Main, tid[Victim])
  /\ IF nth[Main] < Len(Executors)
     THEN main' = "join1" /\ nth' = [nth EXCEPT ![Main] = @ + 1]
     ELSE main' = "done" /\ UNCHANGED nth
  /\ UNCHANGED <<taskVars, ending, pc, cur, protoVars, searchVars, wpc, reg, tid,
                 crash>>

\* On to the next exec thread; behind the last one main returns.
PoolDeletes ==
  /\ main = "join2"
  /\ JoinReturns(Main, tid[Victim])
  /\ IF pc[Victim] # "over" THEN Dies("freed") ELSE UNCHANGED crash
  /\ IF nth[Main] < Len(Executors)
     THEN /\ main' = "join1"
          /\ nth' = [nth EXCEPT ![Main] = @ + 1]
          /\ ending' = [ending EXCEPT ![Executors[nth[Main] + 1]] = TRUE]
     ELSE /\ main' = "done"
          /\ UNCHANGED <<nth, ending>>
  /\ UNCHANGED <<taskVars, pc, cur, protoVars, searchVars, wpc, reg, tid>>
-----------------------------------------------------------------------------
ExecStep(e) ==
  \/ ExecLoop(e) \/ ExecEnds(e)
  \/ CloneChecks(e) \/ InitPointers(e) \/ InitExecMergeConf(e) \/ InitConfRace(e)
  \/ CloneCopies(e)
  \/ ProcessFails(e) \/ ProcessNoConf(e) \/ Process(e)
  \/ StartThread(e) \/ KillAllWaits(e) \/ KillAllTerminates(e) \/ KillAllDeletes(e)
  \/ RankAndReply(e) \/ ReplyError(e)

WorkerStep(w) ==
  \/ ExecMergeBegins(w) \/ MergeAnswers(w) \/ MergeThrows(w) \/ MergeSilent(w)
  \/ AddQueryPow(w) \/ MergeLocks(w) \/ MergeResult(w)

PoolStep == PoolWaits \/ PoolTerminates \/ PoolDeletes

Next ==
  /\ crash = "no"
  /\ \/ \E r \in Requests : ProcessMsg(r)
     \/ \E e \in Execs : ExecStep(e)
     \/ \E w \in Workers : WorkerStep(w)
     \/ Shutdown
     \/ PoolStep

Spec == Init /\ [][Next]_vars

\* Every thread keeps being scheduled; requests and the shutdown may stay out.
FairSpec ==
  /\ Spec
  /\ \A e \in Execs : WF_vars(crash = "no" /\ ExecStep(e))
  /\ \A w \in Workers : WF_vars(crash = "no" /\ WorkerStep(w))
  /\ WF_vars(crash = "no" /\ PoolStep)
-----------------------------------------------------------------------------
(* Properties *)

ExecPcs == {"loop", "clone", "init", "initConf", "copy", "query", "start",
            "join1", "join2", "rank", "failed", "over"}
WorkerPcs == {"none", "begin", "call", "hung", "pow", "lock", "merge", "over"}

\* Type correctness.
TypeOK ==
  /\ main \in {"serving", "join1", "join2", "done"}
  /\ ToSet(queue) \subseteq Requests
  /\ outcome \in [Requests -> {"new", "queued", "running", "expired", "replied",
                               "error", "unsent"}]
  /\ ending \in [Execs -> BOOLEAN]
  /\ pc \in [Execs -> ExecPcs]
  /\ cur \in [Execs -> Requests \cup {None}]
  /\ proto \in {"new", "half", "ready"}
  /\ \A e \in Execs : Len(parts[e]) <= MaxParts /\ mutex[e] \in 0..MaxParts
  /\ pow \in [Execs -> Int] /\ pow0 \in [Execs -> Int]
  /\ wpc \in [Workers -> WorkerPcs]
  /\ reg \in [Workers -> Int]
  /\ tid \in [Execs \cup Workers -> Tids \cup {None}]
  /\ os \in [Tids -> [thread : {"none", "runs", "ended"}, joined : BOOLEAN]]
  /\ nth[Main] \in 1..Len(Executors)
  /\ \A e \in Execs : nth[e] \in 1..MaxParts
  /\ waits \in [Execs \cup {Main} -> Tids \cup {None}]
  /\ crash \in {"no", "abort", "conf", "race", "freed"}

\* A request is in one place: waiting in task_queue_ once, or run by one exec
\* thread, or neither (PopValidTask under task_queue_mutex_).
OnePlace ==
  \A r \in Requests :
    /\ Cardinality({i \in DOMAIN queue : queue[i] = r})
         = (IF outcome[r] = "queued" THEN 1 ELSE 0)
    /\ Cardinality({e \in Execs : cur[e] = r})
         = (IF outcome[r] = "running" THEN 1 ELSE 0)

Merged(e) == {i \in DOMAIN parts[e] : wpc[<<e, i>>] = "over"}
PartWords(e, I) == UNION {parts[e][i] : i \in I}

\* Whatever the order in which the answers come, and whatever is read at end()
\* of the list, result_similar_ holds every picture of the answers merged so
\* far once, in ascending order, with the sums of its weights over their words
\* (MergeThreadsResult, MergeBucketResult).
MergedExactly ==
  \A e \in Execs : cur[e] # None =>
    /\ IsAscending(sim[e])
    /\ ToSet(sim[e]) = Found(Query[cur[e]], PartWords(e, Merged(e)))

\* DispatchData gives every word of the query that some range covers to one
\* merge server.
Dispatched ==
  \A e \in Execs : pc[e] \in {"start", "join1", "join2", "rank"} =>
    /\ PartWords(e, DOMAIN parts[e])
         = {w \in DOMAIN Query[cur[e]] :
              \E c \in DOMAIN Ranges : w \in Ranges[c].first..Ranges[c].last}
    /\ \A i, j \in DOMAIN parts[e] : i # j => parts[e][i] \cap parts[e][j] = {}

\* The additions to query_pow_ are not locked and can be lost, but what it
\* gains is always the sum for some of the merge servers that answered, and
\* not for none of them.
PowOfSome ==
  \A e \in Execs : cur[e] # None =>
    LET added == {i \in DOMAIN parts[e] : wpc[<<e, i>>] \in {"lock", "merge", "over"}}
    IN \E I \in SUBSET added :
         /\ pow[e] = pow0[e] + QueryPow(Query[cur[e]], PartWords(e, I))
         /\ added # {} => I # {}

\* ParallelRequester::Run may return while a search thread still runs, but
\* only because another thread is joining that search thread: one that was
\* joined before under the same pthread_t, and is joined again by its
\* destructor.
StrayNeedsThief ==
  \A e \in Execs : pc[e] = "rank" =>
    \A i \in DOMAIN parts[e] :
      Running(<<e, i>>) => \E a \in (Execs \cup {Main}) \ {e} :
                             waits[a] = tid[<<e, i>>]

Hung == \E w \in Workers : wpc[w] = "hung"

\* A request that was taken from the queue is done with, unless the process
\* dies or a merge server never answers.
SearchEnds ==
  \A r \in Requests :
    outcome[r] = "running" ~> (outcome[r] # "running" \/ crash # "no" \/ Hung)

\* KillAll ends: the exec threads see state_, however many requests wait.
KillAllEnds == main = "join1" ~> (main = "done" \/ crash # "no" \/ Hung)

\* "The similarity is the cosine" (searcher.cc:202): the reply to a search has
\* the pictures, with the cosines, that the words of the query give.
CosineReply ==
  \A r \in Requests : outcome[r] = "replied" =>
    LET words == {w \in DOMAIN Query[r] :
                    \E c \in DOMAIN Ranges : w \in Ranges[c].first..Ranges[c].last}
    IN reply[r] = {[pic |-> x.pic, num |-> x.sim * x.sim,
                    den |-> x.pow * QueryPow(Query[r], words)] :
                   x \in {y \in Found(Query[r], words) :
                            100 * y.sim * y.sim > y.pow * QueryPow(Query[r], words)}}
=============================================================================
