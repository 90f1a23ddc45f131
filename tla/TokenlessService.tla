-------------------------- MODULE TokenlessService --------------------------
(***************************************************************************)
(* TokenlessService and TokenlessConn: requests to one server over a       *)
(* bounded set of connections, one request at a time on each, with a timer *)
(* per request and a queue of requests that found no connection.           *)
(*                                                                         *)
(* The module is the program with one framework thread (what searchd and   *)
(* the merge services set up): events, timers and tasks run to completion  *)
(* one after another.  What interleaves with them is user code: a callback *)
(* is called in the middle of a handler, and it may call Query.  The rest  *)
(* of an interrupted handler is a frame on the variable stack.             *)
(*                                                                         *)
(* Of the framework the module has what matters here: descriptors by fd,   *)
(* the FIFO queue of tasks, and CloseIO going by the fd alone.             *)
(***************************************************************************)
EXTENDS Naturals, Sequences, FiniteSets

CONSTANTS
  Reqs,        \* the requests made (TokenlessRpc)
  Failed,      \* what the callback gets instead of an answer
  ConnLimit,   \* the 400 of GetIdleConn
  Fds,         \* file descriptors the OS hands out
  MaxSalt,     \* bound: connections per fd
  Bit31,       \* what bit 31 of the clock in ms may be: it flips every 24.8 days
  FaultySend   \* TRUE: writing to a connection may fail

ASSUME FdsAssumption == Fds \subseteq Nat \ {0}
ASSUME LimitAssumption == ConnLimit \in Nat /\ MaxSalt \in Nat
ASSUME FlagAssumption == Bit31 \subseteq BOOLEAN /\ FaultySend \in BOOLEAN

Conns == 1..(ConnLimit + 1)
IoIds == Fds \X (1..MaxSalt)
NoIo == <<0, 0>>
NoReq == "none"
NoTimer == "0"
Garbage == "garbage"     \* what timer_id_ holds before it is first set
Fd(io) == io[1]

Task(op, io, c, r) == [op |-> op, io |-> io, c |-> c, r |-> r]

\* A handler that is not finished: what is left of it, and whether it waits
\* for a callback to return.
Frame(k, c, io, user) == [k |-> k, c |-> c, io |-> io, user |-> user]

VARIABLES
  inited,        \* inited_
  idle,          \* idle_conns_
  busy,          \* busy_conns_: the connections whose iter_ is not end()
  next_conn_id,  \* next_conn_id_
  delay,         \* delay_reqs_
  closing,       \* Uninit: those of all_conns still to be closed
  dead,          \* connections destroyed by Uninit
  status, io_id, rpc, timer,   \* status_, io_id_, rpc_, timer_id_
  timers,        \* timers libevent has: the id is that of the request
  salt, desc,    \* FdManager: next_salt and descriptor of an fd
  link,          \* state of the TcpConn of an io id
  peer,          \* its observer and processor
  sent,          \* requests on it the server has not answered
  phase, batch, tasks,   \* FrameworkThread::Loop
  stack,         \* unfinished handlers, innermost first
  st, calls,     \* history: fate of a request, calls of its callback
  expired,       \* requests whose expire_time has come
  bit31,         \* bit 31 of the clock
  crash          \* why the thread no longer runs, "no" while it does

poolVars == <<inited, idle, busy, next_conn_id, delay, closing, dead>>
connVars == <<status, io_id, rpc, timer, timers>>
netVars == <<salt, desc, link, peer, sent>>
loopVars == <<phase, batch, tasks>>
reqVars == <<st, calls>>
vars == <<poolVars, connVars, netVars, loopVars, stack, reqVars, expired, bit31,
          crash>>

Elems(s) == {s[i] : i \in 1..Len(s)}

TypeOK ==
  /\ inited \in BOOLEAN
  /\ idle \in Seq(Conns) /\ busy \subseteq Conns
  /\ next_conn_id \in 0..(ConnLimit + 1)
  /\ delay \in Seq(Reqs)
  /\ closing \subseteq Conns /\ dead \subseteq Conns
  /\ status \in [Conns -> {"kClosed", "kConnecting", "kConnected", "kSending",
                           "kUninited"}]
  /\ io_id \in [Conns -> IoIds \cup {NoIo}]
  /\ rpc \in [Conns -> Reqs \cup {NoReq}]
  /\ timer \in [Conns -> Reqs \cup {NoTimer, Garbage}]
  /\ timers \subseteq Reqs \X Conns
  /\ salt \in [Fds -> 0..MaxSalt]
  /\ desc \in [Fds -> IoIds \cup {NoIo}]
  /\ link \in [IoIds -> {"none", "connecting", "connected", "freed"}]
  /\ peer \in [IoIds -> Conns]
  /\ sent \in [IoIds -> Seq(Reqs)]
  /\ phase \in {"events", "tasks"} /\ batch \in 0..Len(tasks)
  /\ tasks \in Seq([op : {"add", "close", "exec"}, io : IoIds \cup {NoIo},
                    c : Conns, r : Reqs \cup {NoReq}])
  /\ stack \in Seq([k : {"Reset", "Processed", "Keep", "Return", "Expired",
                         "FreeFd", "Close", "Uninit"},
                    c : Conns, io : IoIds \cup {NoIo}, user : BOOLEAN])
  /\ st \in [Reqs -> {"new", "refused", "pending", "done"}]
  /\ calls \in [Reqs -> Seq(Reqs \cup {Failed})]
  /\ expired \subseteq Reqs /\ bit31 \in BOOLEAN
  /\ crash \in {"no", "assert", "deadlock", "freed"}

\* After Init(); timer_id_ is not set by the constructor.
Init ==
  /\ inited = TRUE /\ idle = <<>> /\ busy = {} /\ next_conn_id = 0
  /\ delay = <<>> /\ closing = {} /\ dead = {}
  /\ status = [c \in Conns |-> "kClosed"]
  /\ io_id = [c \in Conns |-> NoIo]
  /\ rpc = [c \in Conns |-> NoReq]
  /\ timer \in {[c \in Conns |-> v] : v \in {NoTimer, Garbage}}
  /\ timers = {}
  /\ salt = [fd \in Fds |-> 0]
  /\ desc = [fd \in Fds |-> NoIo]
  /\ link = [io \in IoIds |-> "none"]
  /\ peer = [io \in IoIds |-> 1]
  /\ sent = [io \in IoIds |-> <<>>]
  /\ phase = "events" /\ batch = 0 /\ tasks = <<>> /\ stack = <<>>
  /\ st = [r \in Reqs |-> "new"]
  /\ calls = [r \in Reqs |-> <<>>]
  /\ expired = {} /\ bit31 \in Bit31 /\ crash = "no"
-----------------------------------------------------------------------------
AtRest == stack = <<>>
UserCode == stack # <<>> => Head(stack).user
InEvents == AtRest /\ phase = "events"
InTasks == AtRest /\ phase = "tasks" /\ batch > 0

\* An fd the OS may give to the next socket: no TcpConn has it open.
FreeFds == {fd \in Fds : /\ salt[fd] < MaxSalt
                         /\ \A s \in 1..MaxSalt :
                              link[<<fd, s>>] \notin {"connecting", "connected"}}

\* Callback(): the user's callback of r is called with v.
Callback(r, v) ==
  /\ st' = [st EXCEPT ![r] = "done"]
  /\ calls' = [calls EXCEPT ![r] = Append(@, v)]

SetConn(c, s, io, r, t) ==
  /\ status' = [status EXCEPT ![c] = s]
  /\ io_id' = [io_id EXCEPT ![c] = io]
  /\ rpc' = [rpc EXCEPT ![c] = r]
  /\ timer' = [timer EXCEPT ![c] = t]

\* CloseIO posts a task behind those in q; it refuses the io id 0.
CloseIO(q, io) == IF io = NoIo THEN q
                  ELSE Append(q, Task("close", io, 1, NoReq))
-----------------------------------------------------------------------------
(* TokenlessConn::Reset up to its callback; the rest is the frame "Reset". *)

\* Mutant: ClearRpc is not called.
ResetKeepsRpc(c, rest) ==
  /\ SetConn(c, "kClosed", NoIo, rpc[c], NoTimer)
  /\ IF rpc[c] # NoReq THEN Callback(rpc[c], Failed) ELSE UNCHANGED reqVars
  /\ stack' = <<Frame("Reset", c, io_id[c], rpc[c] # NoReq)>> \o rest

\* Mutant: the request is dropped without its callback.
ResetForgets(c, rest) ==
  /\ SetConn(c, "kClosed", NoIo, NoReq, NoTimer)
  /\ UNCHANGED reqVars
  /\ stack' = <<Frame("Reset", c, io_id[c], FALSE)>> \o rest

Reset(c, rest) ==
  /\ SetConn(c, "kClosed", NoIo, NoReq, NoTimer)
  /\ IF rpc[c] # NoReq THEN Callback(rpc[c], Failed) ELSE UNCHANGED reqVars
  /\ stack' = <<Frame("Reset", c, io_id[c], rpc[c] # NoReq)>> \o rest

\* RealDelFd: ~TcpConn closes the socket and, if it was connected, calls
\* OnClosed, which resets a connection that still has this io id.
RealDelFd(fd) ==
  LET io == desc[fd]
      c == peer[io]
      rest == <<Frame("FreeFd", c, io, FALSE)>>
  IN  /\ link' = [link EXCEPT ![io] = "freed"]
      /\ sent' = [sent EXCEPT ![io] = <<>>]
      /\ IF link[io] = "connected" /\ io_id[c] = io
         THEN Reset(c, rest)
         ELSE /\ stack' = rest
              /\ UNCHANGED <<status, io_id, rpc, timer, reqVars>>
      /\ UNCHANGED <<timers, salt, desc, peer>>
-----------------------------------------------------------------------------
(* TokenlessConn::Query with the tasks q waiting: the ways it accepts a    *)
(* request, fails, or dies.                                                *)

\* Connect made a TcpConn with a new io id.
Connect(c, fd, l) ==
  LET io == <<fd, salt[fd] + 1>>
  IN  /\ fd \in FreeFds
      /\ salt' = [salt EXCEPT ![fd] = @ + 1]
      /\ link' = [link EXCEPT ![io] = l]
      /\ peer' = [peer EXCEPT ![io] = c]
      /\ UNCHANGED <<desc, sent>>

\* SendRequest fails if the descriptor of the io id is gone, or is not there
\* yet.
Sendable(c) == io_id[c] # NoIo /\ desc[Fd(io_id[c])] = io_id[c]

QueryAccepts(c, r, q) ==
  /\ rpc[c] = NoReq
  /\ r \notin expired
  /\ timers' = timers \cup {<<r, c>>}
  /\ \/ \E fd \in Fds :
          /\ status[c] = "kClosed"
          /\ Connect(c, fd, "connecting")
          /\ SetConn(c, "kConnecting", <<fd, salt[fd] + 1>>, r, r)
          /\ tasks' = Append(q, Task("add", <<fd, salt[fd] + 1>>, c, NoReq))
     \/ /\ status[c] = "kConnected" /\ Sendable(c)
        /\ SetConn(c, "kSending", io_id[c], r, r)
        /\ sent' = [sent EXCEPT ![io_id[c]] = Append(@, r)]
        /\ tasks' = q
        /\ UNCHANGED <<salt, desc, link, peer>>

\* The request has expired, or there is no socket to be had.
QueryFailsEarly(c, r, q) ==
  /\ rpc[c] = NoReq
  /\ r \in expired \/ status[c] = "kClosed"
  /\ tasks' = q
  /\ UNCHANGED <<connVars, netVars>>

\* Connect failed; or it was done at once, and the request is sent before the
\* task that registers the io id has run.  The io id is closed in both cases.
QueryFailsConnect(c, r, q) ==
  /\ rpc[c] = NoReq /\ r \notin expired /\ status[c] = "kClosed"
  /\ \E fd \in Fds :
       LET io == <<fd, salt[fd] + 1>>
       IN  \/ /\ Connect(c, fd, "freed")
              /\ tasks' = CloseIO(q, io)
           \/ /\ Connect(c, fd, "connected")
              /\ tasks' = CloseIO(Append(q, Task("add", io, c, NoReq)), io)
  /\ UNCHANGED connVars

\* SendRequest failed, or the status does not allow a request.
QueryFailsSend(c, r, q) ==
  /\ rpc[c] = NoReq /\ r \notin expired
  /\ status[c] # "kClosed"
  /\ status[c] = "kConnected" => ~Sendable(c)
  /\ SetConn(c, "kClosed", NoIo, NoReq, timer[c])
  /\ tasks' = CloseIO(q, io_id[c])
  /\ UNCHANGED <<timers, netVars>>

QueryFails(c, r, q) ==
  \/ QueryFailsEarly(c, r, q)
  \/ QueryFailsConnect(c, r, q)
  \/ QueryFailsSend(c, r, q)

\* assert(rpc_.out_msg == NULL); or TrySend fails inside SendRequest, and
\* RealDelFd calls OnClosed, which locks the mutex_ that Query holds.
QueryDies(c, r) ==
  \/ rpc[c] # NoReq /\ crash' = "assert"
  \/ /\ rpc[c] = NoReq /\ r \notin expired
     /\ FaultySend /\ status[c] = "kConnected" /\ Sendable(c)
     /\ crash' = "deadlock"
-----------------------------------------------------------------------------
(* TokenlessService::Query, called by user code.                           *)

\* Mutant: an idle connection stays in the list.
GetIdleConnKeepsIt(c) ==
  \/ /\ idle # <<>> /\ c = Head(idle)
     /\ busy' = busy \cup {c}
     /\ UNCHANGED <<idle, next_conn_id>>
  \/ /\ idle = <<>> /\ next_conn_id <= ConnLimit /\ c = next_conn_id + 1
     /\ next_conn_id' = c
     /\ busy' = busy \cup {c}
     /\ UNCHANGED idle

\* GetIdleConn hands out c: the first idle one, or a new one.
GetIdleConn(c) ==
  \/ /\ idle # <<>> /\ c = Head(idle)
     /\ idle' = Tail(idle)
     /\ busy' = busy \cup {c}
     /\ UNCHANGED next_conn_id
  \/ /\ idle = <<>> /\ next_conn_id <= ConnLimit /\ c = next_conn_id + 1
     /\ next_conn_id' = c
     /\ busy' = busy \cup {c}
     /\ UNCHANGED idle

NoConn == idle = <<>> /\ next_conn_id > ConnLimit

Outcome(r, o) == st' = [st EXCEPT ![r] = o] /\ UNCHANGED calls

Query(r) ==
  /\ UserCode /\ inited /\ st[r] = "new"
  /\ \E c \in Conns :
       /\ GetIdleConn(c)
       /\ \/ /\ QueryAccepts(c, r, tasks)
             /\ Outcome(r, "pending")
             /\ UNCHANGED stack
          \/ /\ QueryFails(c, r, tasks)
             /\ Outcome(r, "refused")
             /\ stack' = <<Frame("Return", c, NoIo, FALSE)>> \o stack
  /\ UNCHANGED <<inited, delay, closing, dead, phase, batch, expired, crash>>

QueryCrashes(r) ==
  /\ UserCode /\ inited /\ st[r] = "new"
  /\ \E c \in Conns : GetIdleConn(c) /\ QueryDies(c, r)
  /\ UNCHANGED <<inited, delay, closing, dead, connVars, netVars, loopVars,
                 stack, reqVars, expired>>

\* No connection to be had: the request waits in delay_reqs_.
QueryDelayed(r) ==
  /\ UserCode /\ inited /\ st[r] = "new" /\ NoConn
  /\ IF r \in expired
     THEN Outcome(r, "refused") /\ UNCHANGED delay
     ELSE Outcome(r, "pending") /\ delay' = Append(delay, r)
  /\ UNCHANGED <<inited, idle, busy, next_conn_id, closing, dead, connVars,
                 netVars, loopVars, stack, expired, crash>>

QueryUninited(r) ==
  /\ UserCode /\ ~inited /\ st[r] = "new"
  /\ Outcome(r, "refused")
  /\ UNCHANGED <<poolVars, connVars, netVars, loopVars, stack, expired, crash>>
-----------------------------------------------------------------------------
(* The rest of a handler, once the callback it called has returned.        *)

Top(k) == stack # <<>> /\ Head(stack).k = k

\* Reset: CloseIO, then ReturnIdleConn.
ResumeReset ==
  /\ Top("Reset")
  /\ tasks' = CloseIO(tasks, Head(stack).io)
  /\ stack' = <<Frame("Return", Head(stack).c, NoIo, FALSE)>> \o Tail(stack)
  /\ UNCHANGED <<poolVars, connVars, netVars, phase, batch, reqVars, expired,
                 crash>>

\* ProcessMsg: close the connection unless it is kept, then ReturnIdleConn.
ResumeProcessMsg ==
  LET c == Head(stack).c
  IN  /\ Top("Processed") \/ Top("Keep")
      /\ IF Top("Keep") THEN UNCHANGED <<connVars, tasks>>
         ELSE /\ SetConn(c, "kClosed", NoIo, rpc[c], timer[c])
              /\ tasks' = CloseIO(tasks, io_id[c])
              /\ UNCHANGED timers
      /\ stack' = <<Frame("Return", c, NoIo, FALSE)>> \o Tail(stack)
      /\ UNCHANGED <<poolVars, netVars, phase, batch, reqVars, expired, crash>>

\* expire_time_ has been through an int: with bit 31 clear it is long past,
\* with bit 31 set it is beyond any clock.
DelayExpired == ~bit31

\* ReturnIdleConn: the connection takes the first delayed request, through a
\* task, or becomes idle.
ReturnIdleConn ==
  LET c == Head(stack).c
  IN  /\ Top("Return")
      /\ \/ /\ c \notin busy
            /\ stack' = Tail(stack)
            /\ UNCHANGED <<idle, busy, delay, tasks, reqVars>>
         \/ /\ c \in busy /\ (~inited \/ delay = <<>>)
            /\ idle' = Append(idle, c) /\ busy' = busy \ {c}
            /\ stack' = Tail(stack)
            /\ UNCHANGED <<delay, tasks, reqVars>>
         \/ /\ c \in busy /\ inited /\ delay # <<>> /\ ~DelayExpired
            /\ delay' = Tail(delay)
            /\ tasks' = Append(tasks, Task("exec", NoIo, c, Head(delay)))
            /\ stack' = Tail(stack)
            /\ UNCHANGED <<idle, busy, reqVars>>
         \/ /\ c \in busy /\ inited /\ delay # <<>> /\ DelayExpired
            /\ delay' = Tail(delay)
            /\ Callback(Head(delay), Failed)
            /\ stack' = <<Frame("Expired", c, NoIo, TRUE)>> \o Tail(stack)
            /\ UNCHANGED <<idle, busy, tasks>>
      /\ UNCHANGED <<inited, next_conn_id, closing, dead, connVars, netVars,
                     phase, batch, expired, crash>>

\* ReturnIdleConn after the callback of a delayed request that was too late.
ResumeExpired ==
  /\ Top("Expired")
  /\ idle' = Append(idle, Head(stack).c) /\ busy' = busy \ {Head(stack).c}
  /\ stack' = Tail(stack)
  /\ UNCHANGED <<inited, next_conn_id, delay, closing, dead, connVars, netVars,
                 loopVars, reqVars, expired, crash>>

\* RealDelFd: FreeFd.
ResumeFreeFd ==
  /\ Top("FreeFd")
  /\ desc' = [desc EXCEPT ![Fd(Head(stack).io)] = NoIo]
  /\ stack' = Tail(stack)
  /\ UNCHANGED <<poolVars, connVars, salt, link, peer, sent, loopVars, reqVars,
                 expired, crash>>
-----------------------------------------------------------------------------
(* Events and timers.  The observer of an io id must not be destroyed.     *)

Registered(io) == desc[Fd(io)] = io /\ peer[io] \notin dead

\* OnWrite of a connecting TcpConn: OnOpened sends the waiting request.
OnOpened(io) ==
  LET c == peer[io]
  IN  /\ InEvents /\ Registered(io) /\ link[io] = "connecting"
      /\ link' = [link EXCEPT ![io] = "connected"]
      /\ \/ /\ timer[c] = NoTimer
            /\ UNCHANGED <<connVars, sent, stack, reqVars>>
         \/ /\ timer[c] # NoTimer /\ io_id[c] = io /\ rpc[c] # NoReq
            /\ SetConn(c, "kSending", io, rpc[c], timer[c])
            /\ sent' = [sent EXCEPT ![io] = Append(@, rpc[c])]
            /\ UNCHANGED <<timers, stack, reqVars>>
         \/ /\ timer[c] # NoTimer /\ (io_id[c] # io \/ rpc[c] = NoReq)
            /\ Reset(c, <<>>)
            /\ UNCHANGED <<timers, sent>>
      /\ UNCHANGED <<poolVars, salt, desc, peer, loopVars, expired, crash>>

\* The write in OnOpened fails: OnClosed waits for the mutex_ OnOpened holds.
OnOpenedDies(io) ==
  LET c == peer[io]
  IN  /\ InEvents /\ Registered(io) /\ link[io] = "connecting"
      /\ FaultySend
      /\ timer[c] # NoTimer /\ io_id[c] = io /\ rpc[c] # NoReq
      /\ crash' = "deadlock"
      /\ UNCHANGED <<poolVars, connVars, netVars, loopVars, stack, reqVars,
                     expired>>

\* The connection attempt failed: nobody is told.
ConnectFails(io) ==
  /\ InEvents /\ Registered(io) /\ link[io] = "connecting"
  /\ RealDelFd(Fd(io))
  /\ UNCHANGED <<poolVars, loopVars, expired, crash>>

\* End of stream or an error.
OnClosed(io) ==
  /\ InEvents /\ Registered(io) /\ link[io] = "connected"
  /\ RealDelFd(Fd(io))
  /\ UNCHANGED <<poolVars, loopVars, expired, crash>>

\* TokenlessConn::ProcessMsg: the server's answer to the first request sent
\* on io arrives.  A message that is not the answer awaited fails the request
\* at hand; without a timer the message is dropped and the io id forgotten.
\* With EOF behind the message, or short_connect_, the connection is closed.
ProcessMsg(io) ==
  LET c == peer[io]
      r == rpc[c]
      msg == Head(sent[io])
      success == io_id[c] = io /\ status[c] = "kSending" /\ r # NoReq
  IN  /\ InEvents /\ Registered(io) /\ link[io] = "connected" /\ sent[io] # <<>>
      /\ sent' = [sent EXCEPT ![io] = Tail(@)]
      /\ IF timer[c] = NoTimer
         THEN /\ SetConn(c, "kClosed", NoIo, r, NoTimer)
              /\ UNCHANGED <<stack, reqVars>>
         ELSE /\ SetConn(c, "kConnected", io_id[c], NoReq, NoTimer)
              /\ IF r # NoReq THEN Callback(r, IF success THEN msg ELSE Failed)
                              ELSE UNCHANGED reqVars
              /\ \E k \in IF success THEN {"Processed", "Keep"} ELSE {"Processed"} :
                   stack' = <<Frame(k, c, NoIo, r # NoReq)>>
      /\ UNCHANGED <<poolVars, timers, salt, desc, link, peer, loopVars,
                     expired, crash>>

\* Mutant: the id of the timer is not compared.
OnTimerAnyId(r, c) ==
  /\ InEvents /\ <<r, c>> \in timers /\ r \in expired /\ c \notin dead
  /\ timers' = timers \ {<<r, c>>}
  /\ Reset(c, <<>>)
  /\ UNCHANGED <<poolVars, netVars, loopVars, expired, crash>>

\* TokenlessConn::OnTimer: a timer whose request is over does nothing.
OnTimer(r, c) ==
  /\ InEvents /\ <<r, c>> \in timers /\ r \in expired /\ c \notin dead
  /\ timers' = timers \ {<<r, c>>}
  /\ IF timer[c] = r THEN Reset(c, <<>>)
     ELSE UNCHANGED <<status, io_id, rpc, timer, stack, reqVars>>
  /\ UNCHANGED <<poolVars, netVars, loopVars, expired, crash>>
-----------------------------------------------------------------------------
(* The loop and its tasks.                                                 *)

\* Mutant: the batch counts one task too many.
LoopSwapOneMore ==
  /\ InEvents
  /\ phase' = "tasks" /\ batch' = Len(tasks) + 1
  /\ UNCHANGED <<poolVars, connVars, netVars, tasks, stack, reqVars, expired,
                 crash>>

LoopSwap ==
  /\ InEvents
  /\ phase' = "tasks" /\ batch' = Len(tasks)
  /\ UNCHANGED <<poolVars, connVars, netVars, tasks, stack, reqVars, expired,
                 crash>>

LoopNext ==
  /\ AtRest /\ phase = "tasks" /\ batch = 0
  /\ phase' = "events"
  /\ UNCHANGED <<poolVars, connVars, netVars, batch, tasks, stack, reqVars,
                 expired, crash>>

Pop == /\ InTasks
       /\ batch' = batch - 1
       /\ UNCHANGED <<phase, expired>>

\* AddTcpConnTaskCallback
RunAdd ==
  LET io == Head(tasks).io
  IN  /\ Pop /\ Head(tasks).op = "add"
      /\ tasks' = Tail(tasks)
      /\ desc' = [desc EXCEPT ![Fd(io)] = io]
      /\ UNCHANGED <<poolVars, connVars, salt, link, peer, sent, stack, reqVars,
                     crash>>

\* CloseIOTaskCallback closes whatever connection now has the fd.
RunClose ==
  LET fd == Fd(Head(tasks).io)
  IN  /\ Pop /\ Head(tasks).op = "close"
      /\ tasks' = Tail(tasks)
      /\ IF desc[fd] = NoIo THEN UNCHANGED <<connVars, netVars, stack, reqVars>>
         ELSE peer[desc[fd]] \notin dead /\ RealDelFd(fd)
      /\ UNCHANGED <<poolVars, crash>>

\* ExecDelayReqCallback: the delayed request is given to the connection.
RunExec ==
  LET c == Head(tasks).c
      r == Head(tasks).r
  IN  /\ Pop /\ Head(tasks).op = "exec"
      /\ \/ /\ QueryAccepts(c, r, Tail(tasks))
            /\ UNCHANGED <<stack, reqVars>>
         \/ /\ QueryFails(c, r, Tail(tasks))
            /\ Callback(r, Failed)
            /\ stack' = <<Frame("Return", c, NoIo, TRUE)>>
      /\ UNCHANGED <<poolVars, crash>>

RunExecCrashes ==
  /\ InTasks /\ Head(tasks).op = "exec"
  /\ QueryDies(Head(tasks).c, Head(tasks).r)
  /\ UNCHANGED <<poolVars, connVars, netVars, loopVars, stack, reqVars, expired>>
-----------------------------------------------------------------------------
(* TokenlessService::Uninit, and what touches its connections afterwards.  *)

UninitBegins ==
  /\ UserCode /\ inited
  /\ inited' = FALSE
  /\ closing' = busy \cup Elems(idle)
  /\ stack' = <<Frame("Uninit", 1, NoIo, FALSE)>> \o stack
  /\ UNCHANGED <<idle, busy, next_conn_id, delay, dead, connVars, netVars,
                 loopVars, reqVars, expired, crash>>

\* TokenlessConn::Close: Reset, and then the frame "Close".
UninitCloses(c) ==
  /\ Top("Uninit") /\ c \in closing
  /\ closing' = closing \ {c}
  /\ Reset(c, <<Frame("Close", c, NoIo, FALSE)>> \o stack)
  /\ UNCHANGED <<inited, idle, busy, next_conn_id, delay, dead, timers, netVars,
                 loopVars, expired, crash>>

ResumeClose ==
  LET c == Head(stack).c
  IN  /\ Top("Close")
      /\ SetConn(c, "kUninited", io_id[c], rpc[c], timer[c])
      /\ stack' = Tail(stack)
      /\ UNCHANGED <<poolVars, timers, netVars, loopVars, reqVars, expired, crash>>

\* The lists are cleared; a connection that a task holds lives on.
UninitEnds ==
  /\ Top("Uninit") /\ closing = {}
  /\ idle' = <<>> /\ busy' = {}
  /\ dead' = dead \cup ((busy \cup Elems(idle))
                        \ {k.c : k \in {j \in Elems(tasks) : j.op = "exec"}})
  /\ stack' = Tail(stack)
  /\ UNCHANGED <<inited, next_conn_id, delay, closing, connVars, netVars,
                 loopVars, reqVars, expired, crash>>

\* An event or a timer reaches a connection that has been destroyed.
UseAfterFree ==
  /\ AtRest
  /\ \/ \E io \in IoIds : /\ desc[Fd(io)] = io /\ peer[io] \in dead
                          /\ link[io] \in {"connecting", "connected"}
     \/ \E t \in timers : t[1] \in expired /\ t[2] \in dead
  /\ crash' = "freed"
  /\ UNCHANGED <<poolVars, connVars, netVars, loopVars, stack, reqVars, expired>>
-----------------------------------------------------------------------------
\* The clock reaches the request's expire_time.
Expire(r) ==
  /\ r \notin expired /\ st[r] \in {"new", "pending"}
  /\ expired' = expired \cup {r}
  /\ UNCHANGED <<poolVars, connVars, netVars, loopVars, stack, reqVars, crash>>

Resume ==
  \/ ResumeReset \/ ResumeProcessMsg \/ ReturnIdleConn \/ ResumeExpired
  \/ ResumeFreeFd \/ ResumeClose \/ UninitEnds
  \/ \E c \in Conns : UninitCloses(c)

TaskStep == RunAdd \/ RunClose \/ RunExec

EventStep ==
  \E io \in IoIds :
    OnOpened(io) \/ ConnectFails(io) \/ OnClosed(io) \/ ProcessMsg(io)

FatalStep ==
  \/ \E r \in Reqs : QueryCrashes(r)
  \/ \E io \in IoIds : OnOpenedDies(io)
  \/ RunExecCrashes \/ UseAfterFree

Next ==
  /\ crash = "no" /\ UNCHANGED bit31
  /\ \/ \E r \in Reqs : Query(r) \/ QueryDelayed(r) \/ QueryUninited(r) \/ Expire(r)
     \/ \E r \in Reqs, c \in Conns : OnTimer(r, c)
     \/ Resume \/ TaskStep \/ EventStep
     \/ LoopSwap \/ LoopNext
     \/ UninitBegins
     \/ FatalStep

Spec == Init /\ [][Next]_vars

\* The thread keeps running, callbacks return, time passes, and a timer that
\* is due fires in a later pass of the event loop, each of which looks at all
\* timers.
Fairness ==
  /\ WF_vars(Next /\ (Resume \/ TaskStep \/ LoopSwap \/ LoopNext))
  /\ \A r \in Reqs : /\ WF_vars(Next /\ Expire(r))
                     /\ SF_vars(Next /\ \E c \in Conns : OnTimer(r, c))

FairSpec == Spec /\ Fairness
-----------------------------------------------------------------------------
Service == INSTANCE Rpc

(* A service keeps the promise of module Rpc: a request is refused or its  *)
(* callback called once, and an answer passed to it is the answer to this  *)
(* request, whatever timeouts, late answers, closed and reused connections *)
(* there have been.                                                        *)
IsRpc == Service!Spec

(* Every accepted request has its callback called.                         *)
IsFairRpc == Service!FairSpec

(* A connection is in one place: idle without a request, or handed out.    *)
(* Two users of one connection would mix up their answers.                 *)
OnePlace ==
  /\ \A c \in Elems(idle) : c \notin busy /\ rpc[c] = NoReq
  /\ \A i, j \in 1..Len(idle) : idle[i] = idle[j] => i = j

(* Timers are never cancelled: one that fires after its request is over    *)
(* must not end the request that has the connection by then.               *)
TimerEndsOwn ==
  [][\A r \in Reqs, c \in Conns :
       OnTimer(r, c) => \A q \in Reqs : calls'[q] # calls[q] => q = r]_vars

(* TokenlessConn::Query asserts that no request is being executed on the   *)
(* connection (tokenless_service.cc:21-23).                                *)
NoQueryRunning == crash # "assert"

(* "The callback is called whether it succeeds or fails"                   *)
(* (tokenless_service_pool.h:69): every accepted request gets it.          *)
CallbackAlways == \A r \in Reqs : st[r] = "pending" ~> st[r] = "done"
=============================================================================
