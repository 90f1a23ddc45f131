----------------------------- MODULE Framework -----------------------------
(***************************************************************************)
(* The blitz network core: Framework, FdManager, FrameworkThread, TcpConn  *)
(* and TcpServer.  A framework thread owns the fds with fd % thread_count_ *)
(* equal to its number; what other threads ask of an fd reaches the owner  *)
(* as a task in its queue.  An io id is <<fd, salt>>: the salt tells apart *)
(* the connections that used the same fd one after another.                *)
(*                                                                         *)
(* A handler (TcpConn or TcpServer) is named by its io id.  Payloads are   *)
(* not modelled: an OutMsg is <<sender, number, io id it was sent to>>.    *)
(***************************************************************************)
EXTENDS Naturals, Sequences, FiniteSets

CONSTANTS
  Fds,            \* the file descriptors the OS hands out
  ThreadCount,    \* thread_count_
  Clients,        \* threads outside the framework that call its API
  Callbacks,      \* framework threads whose callbacks call the API
  MaxSalt,        \* bound: connections per fd
  MaxMsgs,        \* bound: messages per sender
  MaxTasks,       \* bound: tasks waiting for one thread
  FaultyEpoll     \* TRUE: event_add may fail

Threads == 0..(ThreadCount - 1)

ASSUME FdsAssumption == Fds \subseteq Nat \ {0}
ASSUME ThreadAssumption == ThreadCount \in Nat \ {0}
ASSUME BoundAssumption == MaxSalt \in Nat /\ MaxMsgs \in Nat /\ MaxTasks \in Nat
ASSUME CallerAssumption == /\ Clients \cap Threads = {}
                           /\ Callbacks \subseteq Threads
                           /\ FaultyEpoll \in BOOLEAN

IoIds == Fds \X (1..MaxSalt)
NoIo == <<0, 0>>
NoFd == 0
Fd(io) == io[1]
Owner(fd) == fd % ThreadCount

Senders == Clients \cup Callbacks
Msgs == Senders \X (1..MaxMsgs) \X IoIds
NoMsg == <<>>
AddOps == {"addConn", "addAccept", "addServ"}
Ops == AddOps \cup {"send", "close", "reactivate"}
Tasks == [op : Ops, io : IoIds, msg : Msgs \cup {NoMsg}]
Task(op, io, m) == [op |-> op, io |-> io, msg |-> m]
NoTask == [op |-> "none", io |-> NoIo, msg |-> NoMsg]

VARIABLES
  status,    \* status_
  main,      \* how far the main thread is in Stop and Uninit
  running,   \* threads_[t].running_
  phase,     \* where thread t is in Loop
  queue,     \* task_queue_running_ of thread t followed by its task_queue_
  batch,     \* how many of them are in task_queue_running_
  deleting,  \* the fd thread t has closed and not yet freed in RealDelFd
  sock,      \* the OS's view of an fd, and who is to register an open one
  salt,      \* items_[fd].next_salt
  desc,      \* items_[fd].descriptor.io_id, NoIo when not in_use
  conn,      \* the handler's connect_status_, and "none", "listen", "freed"
  out,       \* sending_msg_ followed by out_msg_queue_
  busy,      \* sending_msg_ # NULL
  posting,   \* client: the task it is about to post, NoTask otherwise
  known,     \* io ids the application has been told of
  nmsg,      \* messages created by a sender
  opened,    \* history: calls of OnOpened
  closed,    \* history: calls of OnClosed
  ret,       \* history: what Connect returned
  released,  \* history: messages the framework has released
  wire,      \* history: messages written in full to a connection
  crash      \* why the process died, "no" while it lives

loopVars == <<running, phase, queue, batch, deleting>>
connVars == <<conn, out, busy, opened, closed, released, wire>>
vars == <<status, main, loopVars, sock, salt, desc, connVars, posting, known,
          nmsg, ret, crash>>

Elems(s) == {s[i] : i \in 1..Len(s)}

TypeOK ==
  /\ status \in {"kUninit", "kInit", "kStart"}
  /\ main \in {"up", "stopping", "stopped", "noFds", "noTasks", "noThreads"}
  /\ running \in [Threads -> BOOLEAN]
  /\ phase \in [Threads -> {"new", "events", "tasks", "exited"}]
  /\ queue \in [Threads -> Seq(Tasks)]
  /\ batch \in [Threads -> Nat]
  /\ deleting \in [Threads -> Fds \cup {NoFd}]
  /\ sock \in [Fds -> {"closed", "setup", "queued", "registered"}]
  /\ salt \in [Fds -> 0..MaxSalt]
  /\ desc \in [Fds -> IoIds \cup {NoIo}]
  /\ conn \in [IoIds -> {"none", "kClosed", "kConnecting", "kConnected",
                         "listen", "freed"}]
  /\ out \in [IoIds -> Seq(Msgs)]
  /\ busy \in [IoIds -> BOOLEAN]
  /\ posting \in [Clients -> Tasks \cup {NoTask}]
  /\ known \subseteq IoIds
  /\ nmsg \in [Senders -> 0..MaxMsgs]
  /\ opened \in [IoIds -> Nat]
  /\ closed \in [IoIds -> Nat]
  /\ ret \in [IoIds -> {"none", "0", "1", "fail"}]
  /\ released \subseteq Msgs
  /\ wire \in [IoIds -> Seq(Msgs)]
  /\ crash \in {"no", "assert", "divide", "null", "double_free"}

\* After Init(): descriptors empty, threads not started.
Init ==
  /\ status = "kInit"
  /\ main = "up"
  /\ running = [t \in Threads |-> FALSE]
  /\ phase = [t \in Threads |-> "new"]
  /\ queue = [t \in Threads |-> <<>>]
  /\ batch = [t \in Threads |-> 0]
  /\ deleting = [t \in Threads |-> NoFd]
  /\ sock = [fd \in Fds |-> "closed"]
  /\ salt = [fd \in Fds |-> 0]
  /\ desc = [fd \in Fds |-> NoIo]
  /\ conn = [io \in IoIds |-> "none"]
  /\ out = [io \in IoIds |-> <<>>]
  /\ busy = [io \in IoIds |-> FALSE]
  /\ posting = [c \in Clients |-> NoTask]
  /\ known = {}
  /\ nmsg = [a \in Senders |-> 0]
  /\ opened = [io \in IoIds |-> 0]
  /\ closed = [io \in IoIds |-> 0]
  /\ ret = [io \in IoIds |-> "none"]
  /\ released = {}
  /\ wire = [io \in IoIds |-> <<>>]
  /\ crash = "no"
-----------------------------------------------------------------------------
(* Destroying handlers: ~TcpConn, ~TcpServer.                              *)

\* An accepted TcpConn has fd_ = -1 until PassiveConnected: it closes nothing.
HasFd(io) == conn[io] # "kClosed"

Connected(S) == {io \in S : conn[io] = "kConnected"}

\* Mutant: RemoveSentFailMsg is not called.
DestroyKeepsQueue(S, Up, extra) ==
  /\ sock' = [fd \in Fds |->
               IF \E io \in S : Fd(io) = fd /\ HasFd(io) THEN "closed"
                                                        ELSE sock[fd]]
  /\ closed' = [io \in IoIds |-> IF io \in Up THEN closed[io] + 1 ELSE closed[io]]
  /\ conn' = [io \in IoIds |-> IF io \in S THEN "freed" ELSE conn[io]]
  /\ UNCHANGED <<released, out, busy>>

\* Close every handler in S: close(fd_), OnClosed to those in Up, and Release
\* of the messages not sent; extra are messages that never got into out.
Destroy(S, Up, extra) ==
  /\ sock' = [fd \in Fds |->
               IF \E io \in S : Fd(io) = fd /\ HasFd(io) THEN "closed"
                                                        ELSE sock[fd]]
  /\ closed' = [io \in IoIds |-> IF io \in Up THEN closed[io] + 1 ELSE closed[io]]
  /\ conn' = [io \in IoIds |-> IF io \in S THEN "freed" ELSE conn[io]]
  /\ released' = released \cup extra \cup UNION {Elems(out[io]) : io \in S}
  /\ out' = [io \in IoIds |-> IF io \in S THEN <<>> ELSE out[io]]
  /\ busy' = [io \in IoIds |-> IF io \in S THEN FALSE ELSE busy[io]]

\* RealDelFd up to fn_free: the handler is destroyed, the descriptor still in
\* use.  FreeFd follows.  It goes by fd alone: the salt is not looked at.
RealDelFd(t, fd, Up, extra) ==
  /\ Destroy({desc[fd]}, Up, extra)
  /\ deleting' = [deleting EXCEPT ![t] = fd]

FreeFd(t) ==
  /\ deleting[t] # NoFd
  /\ desc' = [desc EXCEPT ![deleting[t]] = NoIo]
  /\ deleting' = [deleting EXCEPT ![t] = NoFd]
  /\ UNCHANGED <<status, main, running, phase, queue, batch, sock, salt,
                 connVars, posting, known, nmsg, ret>>
-----------------------------------------------------------------------------
(* Sending: TcpConn::SendMsg and TrySend, on the thread that owns the fd.  *)

\* TrySend wrote the first k messages of q; the rest waits for EV_WRITE.
SendSome(io, q) ==
  \E k \in 0..Len(q) :
    /\ wire' = [wire EXCEPT ![io] = @ \o SubSeq(q, 1, k)]
    /\ released' = released \cup Elems(SubSeq(q, 1, k))
    /\ out' = [out EXCEPT ![io] = SubSeq(q, k + 1, Len(q))]
    /\ busy' = [busy EXCEPT ![io] = k < Len(q)]
    /\ UNCHANGED <<deleting, sock, closed>>

\* TrySend returned -1 after k messages: the caller deletes the fd.
SendFails(t, io, q) ==
  \E k \in 0..(Len(q) - 1) :
    /\ wire' = [wire EXCEPT ![io] = @ \o SubSeq(q, 1, k)]
    /\ RealDelFd(t, Fd(io), {io}, Elems(q))

\* Mutant: a message that has to wait goes to the front of the queue.
HandlerSendJumps(t, h, m) ==
  \/ /\ busy[h] \/ conn[h] # "kConnected"
     /\ out' = [out EXCEPT ![h] = <<m>> \o @]
     /\ UNCHANGED <<deleting, sock, closed, conn, busy, released, wire>>
  \/ /\ ~busy[h] /\ conn[h] = "kConnected"
     /\ \/ SendSome(h, Append(out[h], m)) /\ UNCHANGED conn
        \/ SendFails(t, h, Append(out[h], m))

\* TcpConn::SendMsg of handler h: queue the message, send it if nothing else
\* is being sent.
HandlerSend(t, h, m) ==
  \/ /\ busy[h] \/ conn[h] # "kConnected"
     /\ out' = [out EXCEPT ![h] = Append(@, m)]
     /\ UNCHANGED <<deleting, sock, closed, conn, busy, released, wire>>
  \/ /\ ~busy[h] /\ conn[h] = "kConnected"
     /\ \/ SendSome(h, Append(out[h], m)) /\ UNCHANGED conn
        \/ SendFails(t, h, Append(out[h], m))

\* Mutant: GetByIoId does not compare io ids.
RealSendMsgAnySalt(t, io, m) ==
  LET h == desc[Fd(io)]
  IN  /\ \/ /\ h = NoIo
            /\ released' = released \cup {m}
            /\ UNCHANGED <<deleting, sock, closed, conn, out, busy, wire>>
         \/ h # NoIo /\ HandlerSend(t, h, m)
      /\ UNCHANGED opened

\* Mutant: a message without a connection is not released.
RealSendMsgLeaks(t, io, m) ==
  LET h == desc[Fd(io)]
  IN  /\ \/ /\ h # io
            /\ UNCHANGED <<deleting, sock, closed, conn, out, busy, wire, released>>
         \/ h = io /\ HandlerSend(t, h, m)
      /\ UNCHANGED opened

\* RealSendMsg: the handler registered for the fd gets the message if its io
\* id is the one named (GetByIoId); otherwise the message is released.
RealSendMsg(t, io, m) ==
  LET h == desc[Fd(io)]
  IN  /\ \/ /\ h # io
            /\ released' = released \cup {m}
            /\ UNCHANGED <<deleting, sock, closed, conn, out, busy, wire>>
         \/ h = io /\ HandlerSend(t, h, m)
      /\ UNCHANGED opened
-----------------------------------------------------------------------------
(* FrameworkThread::Loop.                                                  *)

Idle(t) == deleting[t] = NoFd
InEvents(t) == phase[t] = "events" /\ Idle(t)
InTasks(t) == phase[t] = "tasks" /\ Idle(t) /\ batch[t] > 0

\* task_queue_running_.swap(task_queue_)
LoopSwap(t) ==
  /\ InEvents(t)
  /\ phase' = [phase EXCEPT ![t] = "tasks"]
  /\ batch' = [batch EXCEPT ![t] = Len(queue[t])]
  /\ UNCHANGED <<status, main, running, queue, deleting, sock, salt, desc,
                 connVars, posting, known, nmsg, ret>>

\* Mutant: the loop goes on until its queue is empty.
LoopNextWhenEmpty(t) ==
  /\ phase[t] = "tasks" /\ Idle(t) /\ batch[t] = 0
  /\ phase' = [phase EXCEPT ![t] = IF running[t] \/ queue[t] # <<>>
                                  THEN "events" ELSE "exited"]
  /\ UNCHANGED <<status, main, running, queue, batch, deleting, sock, salt,
                 desc, connVars, posting, known, nmsg, ret>>

\* The batch is done: back to the loop's test of running_.
LoopNext(t) ==
  /\ phase[t] = "tasks" /\ Idle(t) /\ batch[t] = 0
  /\ phase' = [phase EXCEPT ![t] = IF running[t] THEN "events" ELSE "exited"]
  /\ UNCHANGED <<status, main, running, queue, batch, deleting, sock, salt,
                 desc, connVars, posting, known, nmsg, ret>>

\* The task at the head of the batch is taken.
Pop(t) ==
  /\ InTasks(t)
  /\ queue' = [queue EXCEPT ![t] = Tail(@)]
  /\ batch' = [batch EXCEPT ![t] = @ - 1]
  /\ UNCHANGED <<status, main, running, phase, salt, posting, nmsg, ret>>

\* AddTcpConnTaskCallback, AddAcceptTcpCallback, AddTcpServTaskCallback:
\* RealAddFd registers the handler; if the fd is in use the handler is
\* destroyed.  An accepted connection becomes connected either way.
RunAdd(t) ==
  LET task == Head(queue[t])
      io == task.io
      accepted == IF task.op = "addAccept" THEN {io} ELSE {}
  IN  /\ Pop(t)
      /\ task.op \in AddOps
      /\ opened' = [opened EXCEPT ![io] = IF task.op = "addAccept" THEN @ + 1 ELSE @]
      /\ known' = known \cup accepted
      /\ IF desc[Fd(io)] = NoIo
         THEN /\ desc' = [desc EXCEPT ![Fd(io)] = io]
              /\ sock' = [sock EXCEPT ![Fd(io)] = "registered"]
              /\ conn' = [conn EXCEPT ![io] = IF task.op = "addAccept"
                                              THEN "kConnected" ELSE @]
              /\ UNCHANGED <<out, busy, closed, released>>
         ELSE /\ Destroy({io}, accepted \cup Connected({io}), {})
              /\ UNCHANGED desc
      /\ UNCHANGED <<deleting, wire>>

\* event_add fails: RealAddFd has already freed the handler when the task's
\* callback deletes it once more.
RunAddFails(t) ==
  /\ FaultyEpoll
  /\ InTasks(t)
  /\ Head(queue[t]).op \in AddOps
  /\ desc[Fd(Head(queue[t]).io)] = NoIo
  /\ crash' = "double_free"
  /\ UNCHANGED <<status, main, loopVars, sock, salt, desc, connVars, posting,
                 known, nmsg, ret>>

\* SendMsgTaskCallback
RunSend(t) ==
  /\ Pop(t)
  /\ Head(queue[t]).op = "send"
  /\ RealSendMsg(t, Head(queue[t]).io, Head(queue[t]).msg)
  /\ UNCHANGED <<desc, known>>

\* CloseIOTaskCallback: RealDelFd(fd).
RunClose(t) ==
  LET fd == Fd(Head(queue[t]).io)
  IN  /\ Pop(t)
      /\ Head(queue[t]).op = "close"
      /\ IF desc[fd] = NoIo
         THEN UNCHANGED <<deleting, sock, connVars>>
         ELSE /\ RealDelFd(t, fd, Connected({desc[fd]}), {})
              /\ UNCHANGED <<opened, wire>>
      /\ UNCHANGED <<desc, known>>

\* ReactivateIOTaskCallback: del and add the event again; the event of an
\* unused descriptor is NULL.
RunReactivate(t) ==
  /\ Pop(t)
  /\ Head(queue[t]).op = "reactivate"
  /\ crash' = IF desc[Fd(Head(queue[t]).io)] = NoIo THEN "null" ELSE crash
  /\ UNCHANGED <<deleting, sock, connVars, desc, known>>
-----------------------------------------------------------------------------
(* Events: LibeventCallback on a registered fd.                            *)

Post(t, task) ==
  /\ Len(queue[t]) < MaxTasks
  /\ queue' = [queue EXCEPT ![t] = Append(@, task)]

\* The connection whose event thread t handles.
EventOn(t, fd) == InEvents(t) /\ Owner(fd) = t /\ desc[fd] # NoIo

\* TcpConn::OnRead returned nonzero: end of stream, error, or bad data.
OnReadEnds(t, fd) ==
  /\ EventOn(t, fd)
  /\ conn[desc[fd]] \in {"kConnecting", "kConnected"}
  /\ RealDelFd(t, fd, Connected({desc[fd]}), {})
  /\ UNCHANGED <<status, main, running, phase, queue, batch, salt, desc,
                 opened, wire, posting, known, nmsg, ret>>

\* TcpConn::OnWrite while connecting, getsockopt reports an error.  OnClosed
\* is not called: the connection never was kConnected.
ConnectFails(t, fd) ==
  /\ EventOn(t, fd)
  /\ conn[desc[fd]] = "kConnecting"
  /\ RealDelFd(t, fd, {}, {})
  /\ UNCHANGED <<status, main, running, phase, queue, batch, salt, desc,
                 opened, wire, posting, known, nmsg, ret>>

\* Mutant: connect_status_ stays kConnecting.
OnWriteStaysConnecting(t, fd) ==
  LET io == desc[fd]
  IN  /\ EventOn(t, fd)
      /\ conn[io] \in {"kConnecting", "kConnected"}
      /\ opened' = [opened EXCEPT ![io] = IF conn[io] = "kConnecting" THEN @ + 1 ELSE @]
      /\ \/ SendSome(io, out[io]) /\ UNCHANGED conn
         \/ SendFails(t, io, out[io])
      /\ UNCHANGED <<status, main, running, phase, queue, batch, salt, desc,
                     posting, known, nmsg, ret>>

\* TcpConn::OnWrite: OnOpened if it was connecting, then TrySend.
OnWrite(t, fd) ==
  LET io == desc[fd]
  IN  /\ EventOn(t, fd)
      /\ conn[io] \in {"kConnecting", "kConnected"}
      /\ opened' = [opened EXCEPT ![io] = IF conn[io] = "kConnecting" THEN @ + 1 ELSE @]
      /\ \/ /\ SendSome(io, out[io])
            /\ conn' = [conn EXCEPT ![io] = "kConnected"]
         \/ SendFails(t, io, out[io])
      /\ UNCHANGED <<status, main, running, phase, queue, batch, salt, desc,
                     posting, known, nmsg, ret>>

\* Mutant: the accepting thread adds the connection itself.
AcceptAddsHere(t, lfd, fd) ==
  LET io == <<fd, salt[fd] + 1>>
  IN  /\ EventOn(t, lfd)
      /\ conn[desc[lfd]] = "listen"
      /\ sock[fd] = "closed" /\ salt[fd] < MaxSalt
      /\ salt' = [salt EXCEPT ![fd] = @ + 1]
      /\ sock' = [sock EXCEPT ![fd] = "queued"]
      /\ conn' = [conn EXCEPT ![io] = "kClosed"]
      /\ Post(t, Task("addAccept", io, NoMsg))
      /\ UNCHANGED <<status, main, running, phase, batch, deleting, desc, out,
                     busy, opened, closed, released, wire, posting, known,
                     nmsg, ret>>

\* TcpServer::OnRead accepted a connection on fd: AssignFdIoId, AddAcceptTcp.
Accept(t, lfd, fd) ==
  LET io == <<fd, salt[fd] + 1>>
  IN  /\ EventOn(t, lfd)
      /\ conn[desc[lfd]] = "listen"
      /\ sock[fd] = "closed" /\ salt[fd] < MaxSalt
      /\ salt' = [salt EXCEPT ![fd] = @ + 1]
      /\ sock' = [sock EXCEPT ![fd] = "queued"]
      /\ conn' = [conn EXCEPT ![io] = "kClosed"]
      /\ Post(Owner(fd), Task("addAccept", io, NoMsg))
      /\ UNCHANGED <<status, main, running, phase, batch, deleting, desc, out,
                     busy, opened, closed, released, wire, posting, known,
                     nmsg, ret>>

\* Mutant: a failed accept also makes OnRead return nonzero.
AcceptFailsCloses(t, lfd) ==
  /\ EventOn(t, lfd)
  /\ conn[desc[lfd]] = "listen"
  /\ Post(t, Task("reactivate", desc[lfd], NoMsg))
  /\ RealDelFd(t, lfd, {}, {})
  /\ UNCHANGED <<status, main, running, phase, batch, salt, desc, opened,
                 wire, posting, known, nmsg, ret>>

\* accept failed with EMFILE or the like: ReactivateIO.
AcceptFails(t, lfd) ==
  /\ EventOn(t, lfd)
  /\ conn[desc[lfd]] = "listen"
  /\ Post(t, Task("reactivate", desc[lfd], NoMsg))
  /\ UNCHANGED <<status, main, running, phase, batch, deleting, sock, salt,
                 desc, connVars, posting, known, nmsg, ret>>
-----------------------------------------------------------------------------
(* The API, called by a framework thread's callback.  While the thread     *)
(* runs neither status_ nor thread_count_ changes.                         *)

Calls(t) == t \in Callbacks /\ phase[t] \in {"events", "tasks"}

\* socket, AssignFdIoId, connect: r is what TcpConn::Connect returned.  A
\* failed connection is deleted at once.
OpenSocket(fd, r, next) ==
  LET io == <<fd, salt[fd] + 1>>
  IN  /\ sock[fd] = "closed" /\ salt[fd] < MaxSalt
      /\ salt' = [salt EXCEPT ![fd] = @ + 1]
      /\ sock' = [sock EXCEPT ![fd] = IF r = "fail" THEN "closed" ELSE next]
      /\ conn' = [conn EXCEPT ![io] = CASE r = "fail" -> "freed"
                                        [] r = "0" -> "kConnected"
                                        [] r = "1" -> "kConnecting"
                                        [] r = "listen" -> "listen"]
      /\ UNCHANGED <<out, busy, opened, closed, released, wire>>

ThreadConnect(t, fd, r) ==
  LET io == <<fd, salt[fd] + 1>>
  IN  /\ Calls(t)
      /\ OpenSocket(fd, r, "queued")
      /\ ret' = [ret EXCEPT ![io] = r]
      /\ IF r = "fail" THEN UNCHANGED <<queue, known>>
         ELSE /\ Post(Owner(fd), Task("addConn", io, NoMsg))
              /\ known' = known \cup {io}
      /\ UNCHANGED <<status, main, running, phase, batch, deleting, desc,
                     posting, nmsg>>

\* SendMsg: directly on the owner's own thread, else through a task.
ThreadSend(t, io) ==
  LET m == <<t, nmsg[t] + 1, io>>
  IN  /\ Calls(t) /\ io \in known
      /\ nmsg[t] < MaxMsgs
      /\ nmsg' = [nmsg EXCEPT ![t] = @ + 1]
      /\ IF Owner(Fd(io)) = t
         THEN Idle(t) /\ RealSendMsg(t, io, m) /\ UNCHANGED queue
         ELSE /\ Post(Owner(Fd(io)), Task("send", io, m))
              /\ UNCHANGED <<deleting, sock, connVars>>
      /\ UNCHANGED <<status, main, running, phase, batch, salt, desc, posting,
                     known, ret>>

ThreadClose(t, io) ==
  /\ Calls(t) /\ io \in known
  /\ Post(Owner(Fd(io)), Task("close", io, NoMsg))
  /\ UNCHANGED <<status, main, running, phase, batch, deleting, sock, salt,
                 desc, connVars, posting, known, nmsg, ret>>
-----------------------------------------------------------------------------
(* The API, called by a thread outside the framework.  Each call is two    *)
(* steps, for Uninit may come between them: up to the point where the      *)
(* thread number is known, and PostTask.                                   *)

ClientIdle(c) == posting[c] = NoTask /\ status # "kUninit"

\* Connect before its PostTask.  AssignFdIoId uses items_, which Uninit frees.
ClientConnect(c, fd, r) ==
  LET io == <<fd, salt[fd] + 1>>
  IN  /\ ClientIdle(c)
      /\ main \in {"up", "stopping", "stopped"}
      /\ OpenSocket(fd, r, "setup")
      /\ IF r = "fail"
         THEN ret' = [ret EXCEPT ![io] = "fail"] /\ UNCHANGED posting
         ELSE /\ posting' = [posting EXCEPT ![c] = Task("addConn", io, NoMsg)]
              /\ UNCHANGED ret
      /\ UNCHANGED <<status, main, loopVars, desc, known, nmsg>>

\* Bind before its PostTask; programs bind before they start the framework.
ClientBind(c, fd) ==
  LET io == <<fd, salt[fd] + 1>>
  IN  /\ ClientIdle(c) /\ status = "kInit" /\ main = "up"
      /\ OpenSocket(fd, "listen", "setup")
      /\ posting' = [posting EXCEPT ![c] = Task("addServ", io, NoMsg)]
      /\ UNCHANGED <<status, main, loopVars, desc, known, nmsg, ret>>

\* SendMsg before its PostTask.
ClientSend(c, io) ==
  /\ ClientIdle(c) /\ io \in known
  /\ main # "noThreads"
  /\ nmsg[c] < MaxMsgs
  /\ nmsg' = [nmsg EXCEPT ![c] = @ + 1]
  /\ posting' = [posting EXCEPT ![c] = Task("send", io, <<c, nmsg[c] + 1, io>>)]
  /\ UNCHANGED <<status, main, loopVars, sock, salt, desc, connVars, known, ret>>

\* CloseIO before its PostTask.
ClientClose(c, io) ==
  /\ ClientIdle(c) /\ io \in known
  /\ main # "noThreads"
  /\ posting' = [posting EXCEPT ![c] = Task("close", io, NoMsg)]
  /\ UNCHANGED <<status, main, loopVars, sock, salt, desc, connVars, known,
                 nmsg, ret>>

\* A call that meets Uninit half-way: items_ is NULL, thread_count_ is 0.
ClientCrash(c) ==
  /\ ClientIdle(c)
  /\ \/ main \in {"noFds", "noTasks", "noThreads"} /\ crash' = "null"
     \/ main = "noThreads" /\ known # {} /\ crash' = "divide"
  /\ UNCHANGED <<status, main, loopVars, sock, salt, desc, connVars, posting,
                 known, nmsg, ret>>

\* PostTask(thread_number, task), and the return from the call.
ClientPost(c) ==
  LET task == posting[c]
      io == task.io
  IN  /\ task # NoTask
      /\ main # "noThreads"
      /\ Post(Owner(Fd(io)), task)
      /\ posting' = [posting EXCEPT ![c] = NoTask]
      /\ sock' = IF task.op \in AddOps
                 THEN [sock EXCEPT ![Fd(io)] = "queued"] ELSE sock
      /\ known' = IF task.op = "addConn" THEN known \cup {io} ELSE known
      /\ ret' = IF task.op = "addConn"
                THEN [ret EXCEPT ![io] = IF conn[io] = "kConnected"
                                         THEN "0" ELSE "1"]
                ELSE ret
      /\ UNCHANGED <<status, main, running, phase, batch, deleting, salt, desc,
                     connVars, nmsg>>

\* PostTask's assert(thread_number < thread_count_) after Uninit.
ClientPostAssert(c) ==
  /\ posting[c] # NoTask
  /\ main = "noThreads"
  /\ crash' = "assert"
  /\ UNCHANGED <<status, main, loopVars, sock, salt, desc, connVars, posting,
                 known, nmsg, ret>>
-----------------------------------------------------------------------------
(* The main thread: Start, Stop (on SIGINT) and Uninit.                    *)

apiVars == <<posting, known, nmsg, ret>>

Start ==
  /\ main = "up" /\ status = "kInit"
  /\ status' = "kStart"
  /\ running' = [t \in Threads |-> TRUE]
  /\ phase' = [t \in Threads |-> "events"]
  /\ UNCHANGED <<main, queue, batch, deleting, sock, salt, desc, connVars,
                 apiVars>>

StopThreads ==
  /\ main = "up" /\ status = "kStart"
  /\ main' = "stopping"
  /\ running' = [t \in Threads |-> FALSE]
  /\ UNCHANGED <<status, phase, queue, batch, deleting, sock, salt, desc,
                 connVars, apiVars>>

JoinThreads ==
  /\ main = "stopping"
  /\ \A t \in Threads : phase[t] = "exited"
  /\ main' = "stopped"
  /\ status' = "kInit"
  /\ UNCHANGED <<loopVars, sock, salt, desc, connVars, apiVars>>

\* Mutant: OnClosed is called whatever the connection's state.
UninitFdsTellsAll ==
  LET S == {desc[fd] : fd \in {f \in Fds : desc[f] # NoIo}}
  IN  /\ main = "stopped"
      /\ main' = "noFds"
      /\ Destroy(S, S, {})
      /\ desc' = [fd \in Fds |-> NoIo]
      /\ UNCHANGED <<status, loopVars, salt, opened, wire, apiVars>>

\* FdManager::Uninit destroys every registered handler.
UninitFds ==
  LET S == {desc[fd] : fd \in {f \in Fds : desc[f] # NoIo}}
  IN  /\ main = "stopped"
      /\ main' = "noFds"
      /\ Destroy(S, Connected(S), {})
      /\ desc' = [fd \in Fds |-> NoIo]
      /\ UNCHANGED <<status, loopVars, salt, opened, wire, apiVars>>

\* Mutant: every task is deleted as if it held a message.
DrainReleasesAll ==
  LET left == UNION {Elems(queue[t]) : t \in Threads}
      S == {k.io : k \in {j \in left : j.op \in {"addConn", "addServ"}}}
      M == {k.msg : k \in left}
  IN  /\ Destroy(S, Connected(S), M)
      /\ queue' = [t \in Threads |-> <<>>]

\* Mutant: messages of tasks that did not run are not released.
DrainLeaks ==
  LET left == UNION {Elems(queue[t]) : t \in Threads}
      S == {k.io : k \in {j \in left : j.op \in {"addConn", "addServ"}}}
  IN  /\ Destroy(S, Connected(S), {})
      /\ queue' = [t \in Threads |-> <<>>]

\* Mutant: the task of a listening socket has no fn_delete either.
DrainForgetsServ ==
  LET left == UNION {Elems(queue[t]) : t \in Threads}
      S == {k.io : k \in {j \in left : j.op = "addConn"}}
      M == {k.msg : k \in {j \in left : j.op = "send"}}
  IN  /\ Destroy(S, Connected(S), M)
      /\ queue' = [t \in Threads |-> <<>>]

\* fn_delete of every task left; the tasks made by AddAcceptTcp, CloseIO and
\* ReactivateIO have none.
Drain ==
  LET left == UNION {Elems(queue[t]) : t \in Threads}
      S == {k.io : k \in {j \in left : j.op \in {"addConn", "addServ"}}}
      M == {k.msg : k \in {j \in left : j.op = "send"}}
  IN  /\ Destroy(S, Connected(S), M)
      /\ queue' = [t \in Threads |-> <<>>]

UninitThreads ==
  /\ main = "noFds"
  /\ main' = "noTasks"
  /\ Drain
  /\ UNCHANGED <<status, running, phase, batch, deleting, salt, desc, opened,
                 wire, apiVars>>

\* delete [] threads_ drains once more; thread_count_ = 0.
DeleteThreads ==
  /\ main = "noTasks"
  /\ main' = "noThreads"
  /\ Drain
  /\ UNCHANGED <<status, running, phase, batch, deleting, salt, desc, opened,
                 wire, apiVars>>

SetUninit ==
  /\ main = "noThreads" /\ status # "kUninit"
  /\ status' = "kUninit"
  /\ UNCHANGED <<main, loopVars, sock, salt, desc, connVars, apiVars>>
-----------------------------------------------------------------------------
LoopStep(t) ==
  \/ FreeFd(t) \/ LoopSwap(t) \/ LoopNext(t)
  \/ RunAdd(t) \/ RunSend(t) \/ RunClose(t)

EventStep(t) ==
  \E fd \in Fds :
    \/ OnReadEnds(t, fd) \/ ConnectFails(t, fd) \/ OnWrite(t, fd)
    \/ AcceptFails(t, fd)
    \/ \E fd2 \in Fds : Accept(t, fd, fd2)

CallbackStep(t) ==
  \/ \E fd \in Fds, r \in {"0", "1", "fail"} : ThreadConnect(t, fd, r)
  \/ \E io \in IoIds : ThreadSend(t, io) \/ ThreadClose(t, io)

ClientStep(c) ==
  \/ \E fd \in Fds, r \in {"0", "1", "fail"} : ClientConnect(c, fd, r)
  \/ \E fd \in Fds : ClientBind(c, fd)
  \/ \E io \in IoIds : ClientSend(c, io) \/ ClientClose(c, io)
  \/ ClientPost(c)

MainStep ==
  \/ Start \/ StopThreads \/ JoinThreads
  \/ UninitFds \/ UninitThreads \/ DeleteThreads \/ SetUninit

\* The steps that may kill the process.
FatalStep ==
  \/ \E t \in Threads : RunAddFails(t) \/ RunReactivate(t)
  \/ \E c \in Clients : ClientCrash(c) \/ ClientPostAssert(c)

Next ==
  /\ crash = "no"
  /\ \/ /\ \/ \E t \in Threads : LoopStep(t) \/ EventStep(t) \/ CallbackStep(t)
           \/ \E c \in Clients : ClientStep(c)
           \/ MainStep
        /\ UNCHANGED crash
     \/ FatalStep

Spec == Init /\ [][Next]_vars

\* Threads keep looping, and Stop and Uninit, once begun, go on.
Fairness ==
  /\ \A t \in Threads : WF_vars(Next /\ (LoopStep(t) \/ RunReactivate(t)))
  /\ WF_vars(Next /\ main # "up" /\ MainStep)

FairSpec == Spec /\ Fairness
-----------------------------------------------------------------------------
(* RealAddFd never finds the fd of the handler it is to register in use:   *)
(* the worry of the comment at tcp_connect.cc:130, where a closed fd that  *)
(* is still in the FdManager would make AddFd fail for the next accept.    *)
AddFindsFdFree ==
  \A t \in Threads :
    InTasks(t) /\ Head(queue[t]).op \in AddOps
      => desc[Fd(Head(queue[t]).io)] = NoIo

(* A message goes to the connection it was sent to or nowhere, even if the *)
(* fd meanwhile belongs to another connection: what is queued on or was    *)
(* written to a connection was sent to that connection's io id.            *)
NoMisdelivery ==
  \A io \in IoIds : \A m \in Elems(out[io]) \cup Elems(wire[io]) : m[3] = io

-----------------------------------------------------------------------------
(* Why AddFindsFdFree and NoMisdelivery hold: an inductive invariant.      *)

\* A task waits with the owner of its fd.
TasksAtOwner ==
  \A t \in Threads : \A i \in 1..Len(queue[t]) : Owner(Fd(queue[t][i].io)) = t

\* An fd that a task is to register is "queued", for one task only.
AddsQueued ==
  \A t \in Threads : \A i \in 1..Len(queue[t]) :
    queue[t][i].op \in AddOps =>
      /\ sock[Fd(queue[t][i].io)] = "queued"
      /\ \A j \in 1..Len(queue[t]) :
           queue[t][j].op \in AddOps /\ Fd(queue[t][j].io) = Fd(queue[t][i].io) => j = i

\* An fd that a client is to post for registration is "setup", for one client.
AddsSetup ==
  \A c \in Clients : posting[c].op \in AddOps =>
    /\ sock[Fd(posting[c].io)] = "setup"
    /\ \A d \in Clients :
         posting[d].op \in AddOps /\ Fd(posting[d].io) = Fd(posting[c].io) => d = c

\* A descriptor in use belongs to a registered fd, or its owner is about to
\* free it.
DescOwned ==
  \A fd \in Fds : desc[fd] # NoIo =>
    /\ Fd(desc[fd]) = fd
    /\ sock[fd] = "registered" \/ deleting[Owner(fd)] = fd

DeletingOwn == \A t \in Threads : deleting[t] # NoFd => Owner(deleting[t]) = t

BatchQueued == \A t \in Threads : batch[t] <= Len(queue[t])

\* A thread ends between two batches, and Uninit comes when all have ended.
ExitedQuiet ==
  /\ \A t \in Threads : phase[t] = "exited" => Idle(t) /\ batch[t] = 0
  /\ main \notin {"up", "stopping"} => \A t \in Threads : phase[t] = "exited"

Owned ==
  /\ TasksAtOwner /\ AddsQueued /\ AddsSetup /\ DescOwned /\ DeletingOwn
  /\ BatchQueued /\ ExitedQuiet

\* A message about to be sent names the io id it goes to.
Addressed ==
  /\ \A t \in Threads : \A i \in 1..Len(queue[t]) :
       queue[t][i].op = "send" => queue[t][i].msg \in Msgs /\ queue[t][i].msg[3] = queue[t][i].io
  /\ \A c \in Clients :
       posting[c].op = "send" => posting[c].msg \in Msgs /\ posting[c].msg[3] = posting[c].io

IndInv == TypeOK /\ Owned /\ Addressed /\ NoMisdelivery
-----------------------------------------------------------------------------
(* What one thread sends to one connection is written in that order, none  *)
(* of it twice, whether it went through a task or directly.                *)
SenderOrder ==
  \A io \in IoIds : \A i, j \in 1..Len(wire[io]) :
    i < j /\ wire[io][i][1] = wire[io][j][1] => wire[io][i][2] < wire[io][j][2]

(* Each message has one reference in the framework from SendMsg on: it is  *)
(* about to be posted, in a task, in a connection's queue, or released, and *)
(* never two of these.  A leak or a second Release would break this, on    *)
(* any path: sent, unsendable, connection closed, task never run.          *)
OneReference ==
  \A a \in Senders : \A n \in 1..nmsg[a] :
    LET Is(m) == m # NoMsg /\ m[1] = a /\ m[2] = n
    IN  Cardinality({c \in Clients : Is(posting[c].msg)})
        + Cardinality({p \in Threads \X (1..MaxTasks) :
                         p[2] <= Len(queue[p[1]]) /\ Is(queue[p[1]][p[2]].msg)})
        + Cardinality({io \in IoIds : \E m \in Elems(out[io]) : Is(m)})
        + Cardinality({m \in released : Is(m)}) = 1

(* The observer's contract (framework.h:58): OnOpened and OnClosed come at *)
(* most once; a connection that Connect reported as made (0) or failed gets *)
(* no OnOpened, and OnClosed only ends what was made or opened.            *)
ObserverContract ==
  \A io \in IoIds :
    /\ opened[io] <= 1 /\ closed[io] <= 1
    /\ ret[io] \in {"0", "fail"} => opened[io] = 0
    /\ closed[io] = 1 => opened[io] = 1 \/ ret[io] = "0"

(* After OnClosed nothing happens on that io id: no OnOpened, nothing is   *)
(* written, although tasks naming it may still be queued.                  *)
QuietAfterClosed ==
  [][\A io \in IoIds : closed[io] > 0 =>
       wire'[io] = wire[io] /\ opened'[io] = opened[io] /\ out'[io] = <<>>]_vars

(* As long as the framework is not being taken down the process lives: the *)
(* reactivation of a listening socket never meets an unused descriptor, and *)
(* PostTask's assertion on the thread number (framework.cc:368) can fail   *)
(* only when an outside thread goes on posting into Uninit.                *)
CrashOnlyAtExit ==
  crash \notin {"no", "double_free"} => main \in {"noFds", "noTasks", "noThreads"}

(* Once Stop has been called the threads end, whatever clients go on       *)
(* posting, and Uninit finishes.                                           *)
StopTerminates ==
  main = "stopping" ~> (status = "kUninit" \/ crash # "no")

(* Uninit "releases all handles" (framework.cc:57).  What stays open when  *)
(* it is done is a connection accepted on one thread that its owner did    *)
(* not come to register; nothing else is left behind, whatever tasks were  *)
(* waiting when the threads stopped.                                       *)
OnlyAcceptsLeak ==
  status = "kUninit" => \A fd \in Fds :
    \/ sock[fd] \in {"closed", "setup"}
    \/ sock[fd] = "queued" /\ conn[<<fd, salt[fd]>>] = "kClosed"

(* CloseIO takes an io id, the "unique identifier" of a connection         *)
(* (framework.h:57), so its task closes no other connection.               *)
CloseOnlyNamed ==
  [][\A t \in Threads :
       RunClose(t) => \A io \in IoIds :
         conn[io] # "freed" /\ conn'[io] = "freed" => io = Head(queue[t]).io]_vars
=============================================================================
