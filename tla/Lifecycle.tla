------------------------------ MODULE Lifecycle ------------------------------
(***************************************************************************)
(* The life of the ssize process: main brings up the database, the DB      *)
(* thread, the HTTP thread and the signal handlers, sleeps on a condition  *)
(* variable and takes the threads down again (main.cpp, HttpServer::start, *)
(* accept_loop, stop, DbWorker::start, stop).                              *)
(*                                                                         *)
(* The handler stores g_shutdown and notifies without the mutex, so it can *)
(* run between main's test of the predicate and its going to sleep.  What  *)
(* the DB thread and the handlers do to the tables is in MetricsPipeline;  *)
(* here a request leaves one event in the queue and a flush succeeds.      *)
(***************************************************************************)
EXTENDS Naturals, FiniteSets

CONSTANTS
  Requests,      (* one connection with one request each                   *)
  MaxSignals     (* bound: SIGINTs and SIGTERMs sent                       *)

ASSUME LifecycleAssumption == MaxSignals \in Nat

VARIABLES
  outcome,       (* alive, or how the process ended                        *)
  main, code,    (* where main is; the exit code it is heading for         *)
  flag, handler, (* g_shutdown; a handler between store and notify         *)
  installed,     (* signals that have request_shutdown as their handler    *)
  http, stopped, (* the HTTP thread; its io_context was stopped            *)
  conns,         (* per request: none, open, serving, answered             *)
  db, running,   (* the DB thread; DbWorker::running_                      *)
  snapshot,      (* the catalogue handle holds a built catalogue           *)
  queue, stored, (* events of the requests: queued, written                *)
  sent           (* signals sent                                           *)

shared == <<flag, handler, installed, conns, snapshot, queue, stored, sent>>
lifeVars   == <<outcome, main, code, http, stopped, db, running, shared>>

Signals == {"SIGINT", "SIGTERM"}
Alive   == outcome = "alive"

At(label) == Alive /\ main = label
Ends(how) == outcome' = how /\ main' = "exited"

-----------------------------------------------------------------------------
(* load_config, DbConn and apply_migrations; a throw ends main with 1.     *)
Migrate ==
  /\ At("migrate")
  /\ (main' = "refresh" /\ UNCHANGED outcome) \/ Ends("exit1")
  /\ UNCHANGED <<code, http, stopped, db, running, shared>>

(* refresh_now, before any thread exists.                                  *)
RefreshNow ==
  /\ At("refresh")
  /\ \/ main' = "db_start" /\ snapshot' = TRUE /\ UNCHANGED outcome
     \/ Ends("exit1") /\ UNCHANGED snapshot
  /\ UNCHANGED <<code, http, stopped, db, running,
                 flag, handler, installed, conns, queue, stored, sent>>

DbStart ==
  /\ At("db_start") /\ main' = "http_new"
  /\ running' = TRUE /\ db' = "opening"
  /\ UNCHANGED <<outcome, code, http, stopped, shared>>

(* HttpServer's constructor reads the templates; when it throws, unwinding *)
(* runs ~DbWorker.  The bug: exit without the destructors.                 *)
HttpNewExits ==
  /\ At("http_new")
  /\ (main' = "http_start" /\ UNCHANGED outcome) \/ Ends("exit1")
  /\ UNCHANGED <<code, http, stopped, db, running, shared>>

HttpNew ==
  /\ At("http_new")
  /\ \/ main' = "http_start" /\ UNCHANGED code
     \/ main' = "stop_db" /\ code' = "exit1"
  /\ UNCHANGED <<outcome, http, stopped, db, running, shared>>

HttpStart ==
  /\ At("http_start") /\ main' = "SIGINT" /\ http' = "binding"
  /\ UNCHANGED <<outcome, code, stopped, db, running, shared>>

(* std::signal, for SIGINT and then for SIGTERM.                           *)
Install ==
  /\ Alive /\ main \in Signals
  /\ installed' = installed \cup {main}
  /\ main' = IF main = "SIGINT" THEN "SIGTERM" ELSE "test"
  /\ UNCHANGED <<outcome, code, http, stopped, db, running,
                 flag, handler, conns, snapshot, queue, stored, sent>>

(* g_shutdown_cv.wait: test the predicate, go to sleep, wake for nothing.  *)
Wait ==
  /\ Alive
  /\ \/ main = "test" /\ main' = IF flag THEN "stop_http" ELSE "drowsy"
     \/ main = "drowsy" /\ main' = "asleep"
  /\ UNCHANGED <<outcome, code, http, stopped, db, running, shared>>

SpuriousWakeup ==
  /\ At("asleep") /\ main' = "test"
  /\ UNCHANGED <<outcome, code, http, stopped, db, running, shared>>

(* HttpServer::stop; the accept loop ends with the io_context.             *)
StopHttp ==
  /\ At("stop_http") /\ main' = "join_http" /\ stopped' = TRUE
  /\ UNCHANGED <<outcome, code, http, db, running, shared>>

(* thread.join().  The bug: the thread is detached.                        *)
PastHttp ==
  /\ At("join_http") /\ main' = "stop_db"
  /\ UNCHANGED <<outcome, code, http, stopped, db, running, shared>>

DetachHttp == PastHttp

JoinHttp == PastHttp /\ http = "done"

StopDb ==
  /\ At("stop_db") /\ main' = "join_db" /\ running' = FALSE
  /\ UNCHANGED <<outcome, code, http, stopped, db, shared>>

JoinDb ==
  /\ At("join_db") /\ db = "done" /\ Ends(code)
  /\ UNCHANGED <<code, http, stopped, db, running, shared>>

Main ==
  \/ Migrate \/ RefreshNow \/ DbStart \/ HttpNew \/ HttpStart \/ Install \/ Wait
  \/ StopHttp \/ JoinHttp \/ StopDb \/ JoinDb

-----------------------------------------------------------------------------
(* A signal: the default action kills, request_shutdown stores the flag    *)
(* and then, in a step of its own, notifies.  The bug: no notify.          *)
Signal(s) ==
  /\ Alive /\ sent < MaxSignals /\ handler = "idle"
  /\ sent' = sent + 1
  /\ \/ /\ s \notin installed /\ Ends("killed") /\ UNCHANGED <<flag, handler>>
     \/ /\ s \in installed /\ flag' = TRUE /\ handler' = "stored"
        /\ UNCHANGED <<outcome, main>>
  /\ UNCHANGED <<code, http, stopped, db, running,
                 installed, conns, snapshot, queue, stored>>

HandlerReturns ==
  /\ Alive /\ handler = "stored" /\ handler' = "idle"
  /\ UNCHANGED <<outcome, code, http, stopped, db, running,
                 flag, installed, conns, snapshot, queue, stored, sent>>

NotifyNobody == HandlerReturns /\ UNCHANGED main

Notify ==
  /\ HandlerReturns
  /\ main' = IF main = "asleep" THEN "test" ELSE main

(* External: systemd's SIGKILL when a stop has not ended the process.      *)
Kill ==
  /\ At("asleep") /\ flag /\ handler = "idle"
  /\ Ends("killed")
  /\ UNCHANGED <<code, http, stopped, db, running, shared>>

-----------------------------------------------------------------------------
(* HttpServer::start's thread: make_address, open, bind and listen may     *)
(* throw, which is caught and ends the thread.                             *)
Bind ==
  /\ Alive /\ http = "binding" /\ http' \in {"running", "done"}
  /\ UNCHANGED <<outcome, main, code, stopped, db, running, shared>>

Conn(r, from, to) ==
  /\ Alive /\ http = "running" /\ conns[r] = from
  /\ conns' = [conns EXCEPT ![r] = to]
  /\ UNCHANGED <<outcome, main, code, http, stopped, db, running,
                 flag, handler, installed, snapshot, stored, sent>>

Serving == \E r \in Requests : conns[r] = "serving"

(* accept_loop, and handle_connection around dispatch: one handler runs at *)
(* a time; after io_ctx->stop() the running one finishes and no other      *)
(* starts.                                                                 *)
Accept(r) == Conn(r, "none", "open") /\ ~stopped /\ ~Serving /\ UNCHANGED queue

DispatchBegin(r) == Conn(r, "open", "serving") /\ ~stopped /\ ~Serving /\ UNCHANGED queue

DispatchEnd(r) == Conn(r, "serving", "answered") /\ queue' = queue \cup {r}

RunReturns ==
  /\ Alive /\ http = "running" /\ stopped /\ ~Serving /\ http' = "done"
  /\ UNCHANGED <<outcome, main, code, stopped, db, running, shared>>

Http == Bind \/ RunReturns \/ \E r \in Requests : DispatchEnd(r)

-----------------------------------------------------------------------------
(* DbWorker::run: a DbConn that throws leaves the thread function and      *)
(* terminates the process; each round refreshes and flushes; one more      *)
(* flush of the events follows the last round.  The bug: the queue is      *)
(* copied, not drained.                                                    *)
DbOpen ==
  /\ Alive /\ db = "opening"
  /\ \/ db' = "loop" /\ UNCHANGED <<outcome, main>>
     \/ Ends("aborted") /\ UNCHANGED db
  /\ UNCHANGED <<code, http, stopped, running, shared>>

Write ==
  /\ stored' = stored \cup queue
  /\ UNCHANGED <<outcome, main, code, http, stopped, running,
                 flag, handler, installed, conns, sent>>

FlushUndrained == Write /\ UNCHANGED queue

FlushEvents == Write /\ queue' = {}

DbRound ==
  /\ Alive /\ db = "loop"
  /\ IF running THEN UNCHANGED db /\ snapshot' = TRUE
                ELSE db' = "done" /\ UNCHANGED snapshot
  /\ FlushEvents

Db == DbOpen \/ DbRound

-----------------------------------------------------------------------------
LifeInit ==
  /\ outcome = "alive" /\ main = "migrate" /\ code = "exit0"
  /\ flag = FALSE /\ handler = "idle" /\ installed = {} /\ sent = 0
  /\ http = "none" /\ stopped = FALSE /\ conns = [r \in Requests |-> "none"]
  /\ db = "none" /\ running = FALSE /\ snapshot = FALSE
  /\ queue = {} /\ stored = {}

LifeNext ==
  \/ Main \/ Http \/ Db \/ Notify
  \/ SpuriousWakeup \/ Kill
  \/ \E s \in Signals : Signal(s)
  \/ \E r \in Requests : Accept(r) \/ DispatchBegin(r)

LifeSpec ==
  /\ LifeInit /\ [][LifeNext]_lifeVars
  /\ WF_lifeVars(Main) /\ WF_lifeVars(Http) /\ WF_lifeVars(Db) /\ WF_lifeVars(Notify)

-----------------------------------------------------------------------------
(* The variables have their types; an event is queued or written, not both. *)
LifeTypeOK ==
  /\ outcome \in {"alive", "exit0", "exit1", "killed", "aborted"}
  /\ main \in Signals \cup
       {"migrate", "refresh", "db_start", "http_new", "http_start", "test", "drowsy",
        "asleep", "stop_http", "join_http", "stop_db", "join_db", "exited"}
  /\ code \in {"exit0", "exit1"}
  /\ flag \in BOOLEAN /\ handler \in {"idle", "stored"}
  /\ installed \subseteq Signals /\ sent \in 0..MaxSignals
  /\ http \in {"none", "binding", "running", "done"} /\ stopped \in BOOLEAN
  /\ conns \in [Requests -> {"none", "open", "serving", "answered"}]
  /\ db \in {"none", "opening", "loop", "done"} /\ running \in BOOLEAN
  /\ snapshot \in BOOLEAN
  /\ queue \subseteq Requests /\ stored \subseteq Requests \ queue

(* Every way out of main but a signal or an abort has joined the threads   *)
(* it started: no std::thread is destroyed running.                        *)
ThreadsJoined ==
  outcome \in {"exit0", "exit1"} => http \in {"none", "done"} /\ db \in {"none", "done"}

(* HttpServer::stop before DbWorker::stop: at a clean exit the event of    *)
(* every request that was answered is in the database.                     *)
CleanExitKeepsEvents ==
  outcome = "exit0" => {r \in Requests : conns[r] = "answered"} \subseteq stored

(* A shutdown that reaches main ends the process: from the notification    *)
(* that finds it asleep, whether or not an earlier one was lost, or from   *)
(* the flag it finds set; also when the HTTP thread has not bound yet or   *)
(* could not bind, or before the DB thread's first round.                  *)
ShutdownCompletes ==
  (Alive /\ handler = "stored" /\ main = "asleep") \/ main = "stop_http" ~> ~Alive

(* db_worker.cpp:95: "a shutdown does not lose the final second of         *)
(* clicks": a process that was told to stop and has ended has written the  *)
(* events of all the requests it answered.                                 *)
ShutdownKeepsFinalSecond ==
  ~Alive /\ flag /\ outcome # "aborted" =>
    {r \in Requests : conns[r] = "answered"} \subseteq stored
==============================================================================
