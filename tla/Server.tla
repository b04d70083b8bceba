------------------------------- MODULE Server -------------------------------
(***************************************************************************)
(* Server.cpp, Connection.cpp and TcpSocket.cpp with main(): the thread    *)
(* that accepts the phones' connections, the worker thread that runs the   *)
(* commands of one of them, and the end of the program.                    *)
(*                                                                         *)
(* MAX_SERVER_CONNECTIONS is 1 (WedLit.h), so there is one worker.  A      *)
(* TcpSocket is a descriptor and valid_; the three of them that hold a     *)
(* connection are the local tmpConn of an iteration of exec(), its local   *)
(* conn, which the worker is given by address, and the socket_ of the      *)
(* worker's Connection.  A moved TcpSocket copies both fields and clears   *)
(* the source; assigning does not close what the target held.              *)
(*                                                                         *)
(* The phones are the environment: they connect, send one command each as  *)
(* SendCommandTask does, close, or vanish with a reset.                    *)
(***************************************************************************)
EXTENDS Naturals, Sequences, FiniteSets

CONSTANTS MaxConn,  \* bound: connections that phones make
          Fd,       \* the descriptors the process may have for them
          Backlog   \* the argument of listen()

Conn == 1 .. MaxConn   \* numbered in the order in which they are made
NoConn == 0
NoFd == 0

ASSUME ServerAssumption ==
  /\ MaxConn \in Nat
  /\ Fd \subseteq Nat \ {NoFd}
  /\ Backlog \in Nat

VARIABLES
  exitReq,   \* appContext.exitReq
  main,      \* where exec(), and after it main(), is
  socket,    \* the three sockets
  done,      \* Worker::done
  worker,    \* where the worker is; "none": not joinable
  file,      \* the kernel's table: the connection a descriptor is open for
  queue,     \* connections that wait to be accepted
  phone,     \* what each phone does with its connection
  command,   \* its command
  late,      \* history: connections taken and commands begun after exitReq
  raced      \* history: conn was destroyed before the worker took it

kernelVars == <<file, queue>>
phoneVars == <<phone, command>>
historyVars == <<late, raced>>
envVars == <<kernelVars, phoneVars, historyVars>>
vars == <<exitReq, main, socket, done, worker, envVars>>

Sockets == {"tmpConn", "conn", "socket_"}
Dead == [fd |-> NoFd, valid |-> FALSE]   \* default constructed, or moved from

Goto(place) == main' = place
WorkerGoto(place) == worker' = place

(* valid_ = false, with the descriptor closed (close(), the destructor) or *)
(* not.                                                                    *)
Invalidate(s) == socket' = [socket EXCEPT ![s].valid = FALSE]
CloseFd(s) ==
  file' = IF socket[s].valid THEN [file EXCEPT ![socket[s].fd] = NoConn]
                             ELSE file

Move(from, to) ==
  socket' = [socket EXCEPT ![to] = socket[from], ![from] = Dead]

Served == file[socket["socket_"].fd]

Init ==
  /\ exitReq = FALSE
  /\ main \in {"test", "exited"}   \* without a port there is nothing to do
  /\ socket = [s \in Sockets |-> Dead]
  /\ done = FALSE
  /\ worker = "none"
  /\ file = [f \in Fd |-> NoConn]
  /\ queue = <<>>
  /\ phone = [c \in Conn |-> "new"]
  /\ command = [c \in Conn |-> "none"]
  /\ late = [taken |-> 0, begun |-> 0]
  /\ raced = FALSE

Count(field) ==
  late' = IF exitReq THEN [late EXCEPT ![field] = @ + 1] ELSE late
------------------------------------------------------------------------------
TestNothing ==
  /\ main = "test"
  /\ Goto("polling")
  /\ UNCHANGED <<exitReq, socket, done, worker, envVars>>

(* Server::exec()                                                          *)
Test ==
  /\ main = "test"
  /\ Goto(IF exitReq THEN "leaving" ELSE "polling")
  /\ UNCHANGED <<exitReq, socket, done, worker, envVars>>

(* TcpSocket::accept(tmpConn, -1): the kernel takes the lowest descriptor; *)
(* without one accept() fails and leaves the connection in the queue.      *)
Accept ==
  LET free == {f \in Fd : file[f] = NoConn}
  IN
  /\ main = "polling" /\ queue # <<>>
  /\ IF free = {}
       THEN Goto("test") /\ UNCHANGED <<socket, kernelVars, late>>
       ELSE \E f \in free :
              /\ \A g \in free : f <= g
              /\ file' = [file EXCEPT ![f] = Head(queue)]
              /\ queue' = Tail(queue)
              /\ socket' = [socket EXCEPT !["tmpConn"] =
                                            [fd |-> f, valid |-> TRUE]]
              /\ Count("taken")
              /\ Goto("choosing")
  /\ UNCHANGED <<exitReq, done, worker, phoneVars, raced>>

(* The slot is free if it has no thread, or one that says it is done.      *)
Choose ==
  /\ main = "choosing"
  /\ worker = "none" \/ done
  /\ Goto(IF worker = "none" THEN "moving" ELSE "joining")
  /\ UNCHANGED <<exitReq, socket, done, worker, envVars>>

Join ==
  /\ main = "joining" /\ worker = "ended"
  /\ WorkerGoto("none")
  /\ Goto("moving")
  /\ UNCHANGED <<exitReq, socket, done, envVars>>

CopyConn ==
  /\ main = "moving"
  /\ socket' = [socket EXCEPT !["conn"] = socket["tmpConn"]]
  /\ Goto("starting")
  /\ UNCHANGED <<exitReq, done, worker, envVars>>

MoveConn ==
  /\ main = "moving"
  /\ Move("tmpConn", "conn")
  /\ Goto("starting")
  /\ UNCHANGED <<exitReq, done, worker, envVars>>

StartWorkerDone ==
  /\ main = "starting"
  /\ WorkerGoto("starting")
  /\ Goto("test")
  /\ UNCHANGED <<exitReq, socket, done, envVars>>

StartWorker ==
  /\ main = "starting"
  /\ done' = FALSE
  /\ WorkerGoto("starting")
  /\ Goto("test")
  /\ UNCHANGED <<exitReq, socket, envVars>>

(* No slot: tmpConn.close(), and the phone sees its connection end.        *)
Refuse ==
  /\ main = "choosing"
  /\ worker # "none" /\ ~done
  /\ CloseFd("tmpConn") /\ Invalidate("tmpConn")
  /\ command' = [command EXCEPT ![file[socket["tmpConn"].fd]] = "refused"]
  /\ Goto("test")
  /\ UNCHANGED <<exitReq, done, worker, queue, phone, historyVars>>

(* The end of exec(), which destroys conn: the worker may not have taken   *)
(* it yet.                                                                 *)
Leave ==
  /\ main = "leaving"
  /\ CloseFd("conn")
  /\ raced' = (worker = "starting")
  /\ Goto("left")
  /\ UNCHANGED <<exitReq, socket, done, worker, queue, phoneVars, late>>

(* main() after exec(): ~Server() joins the worker, then closes the port.  *)
Shutdown ==
  /\ main = "left"
  /\ worker \in {"none", "ended"}
  /\ WorkerGoto("none")
  /\ Goto("exited")
  /\ UNCHANGED <<exitReq, socket, done, envVars>>
------------------------------------------------------------------------------
(* Server::manageConnection(), Connection::Connection(): takes the socket. *)
(* After Leave that is destroyed memory: what it held, or anything else.   *)
Take ==
  /\ worker = "starting"
  /\ \/ Move("conn", "socket_")
     \/ /\ main \in {"left", "exited"}
        /\ socket' = [socket EXCEPT !["socket_"] = Dead]
  /\ WorkerGoto("looping")
  /\ UNCHANGED <<exitReq, main, done, envVars>>

(* Connection::exec()                                                      *)
Loop ==
  /\ worker = "looping"
  /\ WorkerGoto(IF socket["socket_"].valid /\ ~exitReq
                  THEN "receiving" ELSE "finishing")
  /\ UNCHANGED <<exitReq, main, socket, done, envVars>>

(* TcpSocket::recv(2000) with a command to read.  A reset raises POLLHUP   *)
(* as well, which invalidates the socket but does not close it.            *)
Receive ==
  /\ worker = "receiving" /\ command[Served] = "unread"
  /\ command' = [command EXCEPT ![Served] = "running"]
  /\ IF phone[Served] = "reset" THEN Invalidate("socket_")
                                ELSE UNCHANGED socket
  /\ Count("begun")
  /\ WorkerGoto("commanding")
  /\ UNCHANGED <<exitReq, main, done, kernelVars, phone, raced>>

(* Connection::processCommand(); what it does is the matter of Playback.   *)
ProcessCommand ==
  /\ worker = "commanding"
  /\ command' = [c \in Conn |-> IF command[c] = "running" THEN "ran"
                                                          ELSE command[c]]
  /\ WorkerGoto("looping")
  /\ UNCHANGED <<exitReq, main, socket, done, kernelVars, phone, historyVars>>

ReceiveEndEarly ==
  /\ worker = "receiving" /\ phone[Served] = "closed"
  /\ CloseFd("socket_") /\ Invalidate("socket_")
  /\ WorkerGoto("looping")
  /\ UNCHANGED <<exitReq, main, done, queue, phoneVars, historyVars>>

ReceiveEndOpen ==
  /\ worker = "receiving"
  /\ command[Served] # "unread" /\ phone[Served] = "closed"
  /\ Invalidate("socket_")
  /\ WorkerGoto("looping")
  /\ UNCHANGED <<exitReq, main, done, envVars>>

(* recv() reads 0 bytes: the phone has closed, and so does the socket.     *)
ReceiveEnd ==
  /\ worker = "receiving"
  /\ command[Served] # "unread" /\ phone[Served] = "closed"
  /\ CloseFd("socket_") /\ Invalidate("socket_")
  /\ WorkerGoto("looping")
  /\ UNCHANGED <<exitReq, main, done, queue, phoneVars, historyVars>>

(* POLLHUP after a reset: an error is read, valid_ = false and no close(). *)
ReceiveHangup ==
  /\ worker = "receiving"
  /\ command[Served] # "unread" /\ phone[Served] = "reset"
  /\ Invalidate("socket_")
  /\ WorkerGoto("looping")
  /\ UNCHANGED <<exitReq, main, done, envVars>>

ReceiveForEver ==
  /\ worker = "receiving"
  /\ command[Served] # "unread" /\ phone[Served] = "open"
  /\ UNCHANGED vars

ReceiveTimeout ==
  /\ worker = "receiving"
  /\ command[Served] # "unread" /\ phone[Served] = "open"
  /\ WorkerGoto("looping")
  /\ UNCHANGED <<exitReq, main, socket, done, envVars>>

NeverDone ==
  /\ worker = "finishing"
  /\ WorkerGoto("ending")
  /\ UNCHANGED <<exitReq, main, socket, done, envVars>>

(* manageConnection(): *done = true, then ~Connection() and the end.       *)
Done ==
  /\ worker = "finishing"
  /\ done' = TRUE
  /\ WorkerGoto("ending")
  /\ UNCHANGED <<exitReq, main, socket, envVars>>

Destroy ==
  /\ worker = "ending"
  /\ CloseFd("socket_")
  /\ socket' = [socket EXCEPT !["socket_"] = Dead]
  /\ WorkerGoto("ended")
  /\ UNCHANGED <<exitReq, main, done, queue, phoneVars, historyVars>>
------------------------------------------------------------------------------
(* signal_handler() runs in any thread; it ends a poll() of that thread,   *)
(* of which accept() returns false and recv() invalidates the socket.      *)
Signal ==
  /\ exitReq' = TRUE
  /\ \/ UNCHANGED <<main, worker, socket>>
     \/ /\ main = "polling" /\ Goto("test")
        /\ UNCHANGED <<worker, socket>>
     \/ /\ worker = "receiving" /\ WorkerGoto("looping")
        /\ Invalidate("socket_")
        /\ UNCHANGED main
  /\ UNCHANGED <<done, envVars>>

(* The phones.  The kernel completes Backlog + 1 connections on its own.   *)
Connect(c) ==
  /\ phone[c] = "new" /\ main # "exited"
  /\ \A d \in 1 .. c - 1 : phone[d] # "new"
  /\ Len(queue) <= Backlog
  /\ phone' = [phone EXCEPT ![c] = "open"]
  /\ queue' = Append(queue, c)
  /\ UNCHANGED <<exitReq, main, socket, done, worker, file, command,
                 historyVars>>

Send(c) ==
  /\ phone[c] = "open" /\ command[c] = "none" /\ main # "exited"
  /\ command' = [command EXCEPT ![c] = "unread"]
  /\ UNCHANGED <<exitReq, main, socket, done, worker, kernelVars, phone,
                 historyVars>>

Hangup(c) ==
  /\ phone[c] = "open" /\ command[c] # "refused" /\ main # "exited"
  /\ \E how \in {"closed", "reset"} : phone' = [phone EXCEPT ![c] = how]
  /\ UNCHANGED <<exitReq, main, socket, done, worker, kernelVars, command,
                 historyVars>>

(* A reset may overtake a command that has not been read.                  *)
LoseCommand(c) ==
  /\ phone[c] = "reset" /\ command[c] = "unread" /\ main # "exited"
  /\ command' = [command EXCEPT ![c] = "lost"]
  /\ UNCHANGED <<exitReq, main, socket, done, worker, kernelVars, phone,
                 historyVars>>

Main ==
  \/ Test \/ Accept \/ Choose \/ Join \/ MoveConn \/ StartWorker \/ Refuse
  \/ Leave \/ Shutdown
Worker ==
  \/ Take \/ Loop \/ Receive \/ ProcessCommand \/ ReceiveEnd
  \/ ReceiveHangup \/ ReceiveTimeout \/ Done \/ Destroy
Phone == \E c \in Conn : Connect(c) \/ Send(c) \/ Hangup(c) \/ LoseCommand(c)

Next == Main \/ Worker \/ Signal \/ Phone

Spec == Init /\ [][Next]_vars

(* The two threads run; accept() waits for a phone as long as it takes.    *)
FairSpec == Spec /\ WF_vars(Main) /\ WF_vars(Worker)
------------------------------------------------------------------------------
TypeOK ==
  /\ exitReq \in BOOLEAN /\ done \in BOOLEAN /\ raced \in BOOLEAN
  /\ main \in {"test", "polling", "choosing", "joining", "moving", "starting",
              "leaving", "left", "exited"}
  /\ worker \in {"none", "starting", "looping", "receiving", "commanding",
                "finishing", "ending", "ended"}
  /\ socket \in [Sockets -> [fd : Fd \cup {NoFd}, valid : BOOLEAN]]
  /\ file \in [Fd -> Conn \cup {NoConn}]
  /\ queue \in Seq(Conn)
  /\ phone \in [Conn -> {"new", "open", "closed", "reset"}]
  /\ command \in [Conn -> {"none", "unread", "running", "ran", "refused",
                           "lost"}]
  /\ late \in [taken : Nat, begun : Nat]

(* As long as exec() did not destroy conn before the worker took it, a     *)
(* valid socket has an open descriptor that no other valid one has, so     *)
(* that none is closed twice and no worker reads another's connection.     *)
OneOwner ==
  ~raced =>
    \A s \in Sockets : socket[s].valid =>
      /\ socket[s].fd \in Fd /\ file[socket[s].fd] # NoConn
      /\ \A t \in Sockets \ {s} : socket[t].valid => socket[t].fd # socket[s].fd

Leaked == {f \in Fd : /\ file[f] # NoConn
                      /\ \A s \in Sockets : socket[s].valid => socket[s].fd # f}

(* Until the end, a descriptor that no socket will close is one whose      *)
(* phone was reset (POLLHUP).                                              *)
NothingLeaks ==
  \A f \in Leaked : exitReq \/ phone[file[f]] = "reset"

(* The accepting thread joins only a worker that is done with its phone:   *)
(* a phone that stays connected never keeps others from being refused.     *)
AcceptorNeverWaits ==
  main = "joining" => worker \in {"ending", "ended"}

(* After a signal at most one more connection is taken, one that the poll  *)
(* in progress returns, and at most one more command is begun.             *)
ExitIsPrompt ==
  late.taken <= 1 /\ late.begun <= 1

(* Too few descriptors are left for the worker's and the next connection.  *)
Exhausted == Cardinality(Fd \ Leaked) < 2

(* A command of a phone that is not reset runs, although the phone closes  *)
(* at once after sending it, unless it is refused or the program ends.     *)
EveryCommandRunsOrIsRefused ==
  \A c \in Conn :
    command[c] = "unread" ~>
      \/ command[c] \in {"ran", "refused"} \/ phone[c] = "reset"
      \/ exitReq \/ Exhausted

Holds(s, c) == socket[s].valid /\ file[socket[s].fd] = c

(* When the served phone hangs up, the slot becomes free for the next one. *)
SlotComesBack ==
  \A c \in Conn :
    ((Holds("conn", c) \/ Holds("socket_", c)) /\ phone[c] # "open")
      ~> (worker = "none" \/ done)

(* After a signal the program ends unless accept() waits for a phone.      *)
ProgramEnds ==
  (exitReq /\ main # "polling") ~> main = "exited"
=============================================================================
