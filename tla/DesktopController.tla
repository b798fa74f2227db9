--------------------------- MODULE DesktopController ---------------------------
(***************************************************************************)
(* The desktop tray and the server process it owns.  One tray process at a *)
(* time holds the instance lock; it starts, stops and restarts a child     *)
(* server, watches it from a polling thread, and runs every menu action in *)
(* a thread of its own.  The controller's fields are shared by all of      *)
(* these threads without a lock (app/desktop_controller.py,                *)
(* app/tray_menu.py, app/tray_polling.py, app/tray_runtime.py).  The       *)
(* server watches its owner in turn and stops when the tray is gone        *)
(* (app/desktop_server.py).  Trays and servers talk through three files:   *)
(* the metadata of the running instance, the command a second launch       *)
(* leaves behind and the marker a browser-initiated restart leaves behind. *)
(***************************************************************************)
EXTENDS Integers, FiniteSets

CONSTANTS
  Actions,      \* threads of menu actions that can run at the same time
  MaxServers,   \* bound: child processes that run or are still referred to at a time
  MaxSessions   \* bound: tray processes ever launched

ASSUME DesktopAssumption ==
  /\ MaxServers \in Nat /\ MaxSessions \in Nat
  /\ {"main", "poll"} \cap Actions = {}

VARIABLES
  tray,      \* the tray process: its session number, its stop event, its icon
  ctl,       \* the fields of DesktopServerController
  threads,   \* per thread: where it is, why, and the server it holds
  servers,   \* child processes and the session that owns each
  file,      \* the server launcher.json names, 0 when there is none
  marker,    \* restart-server.request: the server that wrote it (0 for none) and when
  command    \* tray-command.json: what it asks, and in which session it was asked

deskVars == <<tray, ctl, threads, servers, file, marker, command>>

Servers  == 1..MaxServers
Sessions == 1..MaxSessions
DeskThreads == Actions \cup {"main", "poll"}
NoMarker    == [by |-> 0, session |-> 0]
NoCommand   == [what |-> "none", session |-> 0]

DeskTypeOK ==
  /\ tray \in [session : 0..MaxSessions, alive : BOOLEAN, stop : BOOLEAN,
               icon : {"none", "shown", "stopped"}]
  /\ ctl \in [child : 0..MaxServers, starting : BOOLEAN]
  /\ threads \in
       [DeskThreads ->
          [pc : {"idle", "dead", "claim", "claimed", "recover", "adopt", "await",
                 "failing", "stop", "grab", "wait", "clear",
                 "poll", "judge", "again"},
           goal : {"none", "start", "stop", "restart", "quit", "exit", "watch", "command"},
           held : 0..MaxServers, saw : BOOLEAN]]
  /\ servers \in [Servers -> [state : {"none", "booting", "ready", "closing", "exited"},
                              owner : 0..MaxSessions]]
  /\ \A t \in DeskThreads :
       threads[t].pc \in {"adopt", "await", "wait"} => threads[t].held # 0
  /\ file \in 0..MaxServers /\ marker \in [by : 0..MaxServers, session : 0..MaxSessions]
  /\ command \in [what : {"none", "start", "quit"}, session : 0..MaxSessions]

(* A process that runs, and one that answers HTTP requests with its nonce. *)
Live(s)    == s # 0 /\ servers[s].state \in {"booting", "ready", "closing"}
Answers(s) == s # 0 /\ servers[s].state \in {"ready", "closing"}
Running    == Live(ctl.child)
(* Something still refers to s: its number cannot be given to a new process. *)
Named(s)   == \/ s \in {ctl.child, marker.by}
              \/ \E t \in DeskThreads : threads[t].held = s
Owned(s)   == tray.alive /\ servers[s].owner = tray.session

Nobody     == [t \in DeskThreads |-> [pc |-> "idle", goal |-> "none", held |-> 0, saw |-> FALSE]]
FreshCtl   == [child |-> 0, starting |-> FALSE]
At(t, pc)  == tray.alive /\ threads[t].pc = pc
Go(t, pc)  == threads' = [threads EXCEPT ![t].pc = pc]
Rest(t)    == threads' = [threads EXCEPT ![t] = [pc |-> "idle", goal |-> "none",
                                                 held |-> 0, saw |-> FALSE]]

(* _clear_runtime_metadata *)
Cleared ==
  /\ file' = 0
  /\ ctl' = [ctl EXCEPT !.child = 0]

(* What happens to a thread whose callback raises.  A menu action shows a  *)
(* dialog; the initial start leaves the tray open; a failed restart is     *)
(* shown and the poll goes on; a failed start asked by the command file    *)
(* leaves _poll_once and ends the polling thread.                          *)
Raise(t) ==
  IF t = "poll" /\ threads[t].goal = "command"
    THEN threads' = [threads EXCEPT ![t] = [pc |-> "dead", goal |-> "none",
                                            held |-> 0, saw |-> FALSE]]
    ELSE Rest(t)

-----------------------------------------------------------------------------
(* The server process.                                                     *)

SetState(s, st) == servers' = [servers EXCEPT ![s].state = st]

ServerReady(s) ==
  /\ servers[s].state = "booting"
  /\ SetState(s, "ready")
  /\ UNCHANGED <<tray, ctl, threads, file, marker, command>>

ServerCrashes(s) ==
  /\ Live(s)
  /\ SetState(s, "exited")
  /\ UNCHANGED <<tray, ctl, threads, file, marker, command>>

ServerCloses(s) ==
  /\ servers[s].state = "closing"
  /\ SetState(s, "exited")
  /\ UNCHANGED <<tray, ctl, threads, file, marker, command>>

(* POST /v1/desktop/operations/restart-server: marker first, then the      *)
(* delayed shutdown callback.  Refused without a fresh tray heartbeat,      *)
(* which a tray that has just gone leaves behind.                          *)
BrowserRestart(s) ==
  /\ servers[s].state = "ready"
  /\ marker' = [by |-> s, session |-> tray.session]
  /\ SetState(s, "closing")
  /\ UNCHANGED <<tray, ctl, threads, file, command>>

\* Regression form: only the process id is compared, which a later tray may have.
OwnerGonePidOnly(s) ==
  /\ servers[s].state \in {"booting", "ready"}
  /\ ~tray.alive
  /\ SetState(s, "closing")
  /\ UNCHANGED <<tray, ctl, threads, file, marker, command>>

(* The owner monitor of the server. *)
OwnerGone(s) ==
  /\ servers[s].state \in {"booting", "ready"}
  /\ ~Owned(s)
  /\ SetState(s, "closing")
  /\ UNCHANGED <<tray, ctl, threads, file, marker, command>>

-----------------------------------------------------------------------------
(* Tray sessions.                                                          *)

\* Regression form: what an earlier session left in the data directory stays there.
LaunchKeepsMessages ==
  /\ ~tray.alive /\ tray.session < MaxSessions
  /\ tray' = [session |-> tray.session + 1, alive |-> TRUE, stop |-> FALSE, icon |-> "none"]
  /\ ctl' = FreshCtl
  /\ threads' = [Nobody EXCEPT !["main"].pc = "claim", !["main"].goal = "start"]
  /\ UNCHANGED <<servers, file, marker, command>>

(* The instance lock is free: markers of an earlier session are removed,   *)
(* and the main thread starts the server unless told to stay stopped.      *)
Launch ==
  /\ ~tray.alive /\ tray.session < MaxSessions
  /\ tray' = [session |-> tray.session + 1, alive |-> TRUE, stop |-> FALSE, icon |-> "none"]
  /\ ctl' = FreshCtl
  /\ marker' = NoMarker /\ command' = NoCommand
  /\ \E stopped \in BOOLEAN :
       threads' = IF stopped THEN Nobody
                  ELSE [Nobody EXCEPT !["main"].pc = "claim", !["main"].goal = "start"]
  /\ UNCHANGED <<servers, file>>

(* The lock is held: activate the running instance, or leave a command.    *)
(* The installer asks the tray to quit through the same file.              *)
SecondLaunch ==
  /\ tray.alive
  /\ \E what \in {"start", "quit"} :
       /\ what = "start" => ~Answers(file)
       /\ command' = [what |-> what, session |-> tray.session]
  /\ UNCHANGED <<tray, ctl, threads, servers, file, marker>>

(* setup: the icon is visible and the polling thread runs. *)
ShowIcon ==
  /\ At("main", "idle") /\ tray.icon = "none" /\ ~tray.stop
  /\ tray' = [tray EXCEPT !.icon = "shown"]
  /\ UNCHANGED <<ctl, threads, servers, file, marker, command>>

(* icon.run returned: _shutdown_owned_resources begins with a stop. *)
ShutdownTray ==
  /\ At("main", "idle") /\ tray.icon = "stopped"
  /\ tray' = [tray EXCEPT !.stop = TRUE]
  /\ threads' = [threads EXCEPT !["main"].pc = "stop", !["main"].goal = "exit"]
  /\ UNCHANGED <<ctl, servers, file, marker, command>>

Gone ==
  /\ tray' = [tray EXCEPT !.alive = FALSE, !.icon = "none"]
  /\ ctl' = FreshCtl
  /\ threads' = Nobody

(* The tray is killed: nothing is cleaned up, its threads are gone and the *)
(* operating system frees the lock.                                        *)
TrayCrashes ==
  /\ tray.alive
  /\ Gone
  /\ UNCHANGED <<servers, file, marker, command>>

-----------------------------------------------------------------------------
(* start().                                                                *)

Claim(t) ==
  /\ At(t, "claim")
  /\ CASE Running -> Go(t, "poll") /\ UNCHANGED ctl
       [] ctl.starting /\ ~Running -> Raise(t) /\ UNCHANGED ctl
       [] OTHER -> Go(t, "claimed") /\ UNCHANGED ctl
  /\ UNCHANGED <<tray, servers, file, marker, command>>

Claimed(t) ==
  /\ At(t, "claimed")
  /\ ctl' = [ctl EXCEPT !.starting = TRUE]
  /\ Go(t, "recover")
  /\ UNCHANGED <<tray, servers, file, marker, command>>

(* recover_stale_metadata, the choice of a port and the new process.  A    *)
(* healthy instance that is not ours gets six seconds to notice that its   *)
(* owner is gone; a file nobody answers for is removed.                    *)
StaleInstanceStays(t) ==
  /\ At(t, "recover") /\ Answers(file)
  /\ Go(t, "failing")
  /\ UNCHANGED <<tray, ctl, servers, file, marker, command>>

Spawn(t) ==
  /\ At(t, "recover") /\ ~Answers(file)
  /\ file' = 0
  /\ \E s \in Servers :
       /\ servers[s].state \in {"none", "exited"} /\ ~Named(s)
       /\ \A r \in 1..(s - 1) : servers[r].state \notin {"none", "exited"} \/ Named(r)
       /\ servers' = [servers EXCEPT ![s] = [state |-> "booting", owner |-> tray.session]]
       /\ threads' = [threads EXCEPT ![t].pc = "adopt", ![t].held = s]
  /\ UNCHANGED <<tray, ctl, marker, command>>

(* No port, no process identity or no executable: the start fails. *)
SpawnFails(t) ==
  /\ At(t, "recover") /\ ~Answers(file)
  /\ file' = 0
  /\ Go(t, "failing")
  /\ UNCHANGED <<tray, ctl, servers, marker, command>>

(* The fields are assigned and launcher.json is written. *)
Adopt(t) ==
  /\ At(t, "adopt")
  /\ ctl' = [ctl EXCEPT !.child = threads[t].held]
  /\ file' = threads[t].held
  /\ Go(t, "await")
  /\ UNCHANGED <<tray, servers, marker, command>>

(* wait_for_readiness: ready, dead, or out of time. *)
AwaitReady(t) ==
  /\ At(t, "await")
  /\ \/ /\ servers[threads[t].held].state = "ready"
        /\ ctl' = [ctl EXCEPT !.starting = FALSE]
        /\ threads' = [threads EXCEPT ![t].pc = "poll", ![t].held = 0]
     \/ /\ servers[threads[t].held].state # "ready"
        /\ Go(t, "failing")
        /\ UNCHANGED ctl
  /\ UNCHANGED <<tray, servers, file, marker, command>>

(* The except and finally blocks: whatever child the controller names now  *)
(* is stopped and the fields are cleared.                                  *)
StartFails(t) ==
  /\ At(t, "failing")
  /\ servers' = IF Running THEN [servers EXCEPT ![ctl.child].state = "exited"] ELSE servers
  /\ file' = 0
  /\ ctl' = FreshCtl
  /\ Raise(t)
  /\ UNCHANGED <<tray, marker, command>>

-----------------------------------------------------------------------------
(* stop(), and what follows it in restart(), quit() and at exit.           *)

AfterStop(t) ==
  LET goal == threads[t].goal IN
    CASE goal = "restart" -> Go(t, "claim") /\ UNCHANGED tray
      [] goal = "quit"    -> Rest(t) /\ tray' = [tray EXCEPT !.icon = "stopped"]
      [] goal = "stop"    -> Go(t, "poll") /\ UNCHANGED tray

(* The end of the main thread: markers removed, lock released, process gone. *)
LeaveTray ==
  /\ file' = 0 /\ marker' = NoMarker /\ command' = NoCommand
  /\ Gone

(* POST /desktop/control/shutdown, unless nothing runs: a booting server   *)
(* does not answer.                                                        *)
Stop(t) ==
  /\ At(t, "stop")
  /\ servers' = IF ctl.child # 0 /\ servers[ctl.child].state = "ready"
                  THEN [servers EXCEPT ![ctl.child].state = "closing"] ELSE servers
  /\ Go(t, IF Running THEN "grab" ELSE "clear")
  /\ UNCHANGED <<tray, ctl, file, marker, command>>

\* Regression form: the child is waited for without a look whether there still is one.
GrabBlindly(t) ==
  /\ At(t, "grab")
  /\ threads' = [threads EXCEPT ![t].held = ctl.child, ![t].pc = "wait"]
  /\ UNCHANGED <<tray, ctl, servers, file, marker, command>>

(* The child is read again once the request has been answered. *)
GrabChild(t) ==
  /\ At(t, "grab")
  /\ threads' = [threads EXCEPT ![t].held = ctl.child,
                                ![t].pc = IF ctl.child = 0 THEN "clear" ELSE "wait"]
  /\ UNCHANGED <<tray, ctl, servers, file, marker, command>>

(* The child left by itself, or is terminated when the time is up. *)
WaitExit(t) ==
  /\ At(t, "wait")
  /\ servers' = [servers EXCEPT ![threads[t].held].state = "exited"]
  /\ threads' = [threads EXCEPT ![t].pc = "clear", ![t].held = 0]
  /\ UNCHANGED <<tray, ctl, file, marker, command>>

StopClears(t) ==
  /\ At(t, "clear")
  /\ IF threads[t].goal = "exit"
       THEN LeaveTray
       ELSE Cleared /\ AfterStop(t) /\ UNCHANGED <<marker, command>>
  /\ UNCHANGED servers

-----------------------------------------------------------------------------
(* _poll_once, in the polling thread and at the end of every action.       *)

Tick ==
  /\ At("poll", "idle") /\ tray.icon = "shown" /\ ~tray.stop
  /\ threads' = [threads EXCEPT !["poll"].pc = "poll", !["poll"].goal = "watch"]
  /\ UNCHANGED <<tray, ctl, servers, file, marker, command>>

\* Regression form: a quit command only sets the stop event.
TakeCommandEventOnly(t) ==
  /\ At(t, "poll") /\ command.what # "none"
  /\ command' = NoCommand
  /\ CASE command.what = "quit" -> tray' = [tray EXCEPT !.stop = TRUE] /\ UNCHANGED threads
       [] command.what = "start" /\ ~Running ->
            /\ threads' = [threads EXCEPT ![t].pc = "claim", ![t].goal = "command"]
            /\ UNCHANGED tray
       [] OTHER -> UNCHANGED <<threads, tray>>
  /\ UNCHANGED <<ctl, servers, file, marker>>

(* The command file: read and removed.  A quit is carried out here. *)
TakeCommand(t) ==
  /\ At(t, "poll") /\ command.what # "none"
  /\ command' = NoCommand
  /\ CASE command.what = "quit" ->
            /\ threads' = [threads EXCEPT ![t].pc = "stop", ![t].goal = "quit"]
            /\ tray' = [tray EXCEPT !.stop = TRUE]
       [] command.what = "start" /\ ~Running ->
            /\ threads' = [threads EXCEPT ![t].pc = "claim", ![t].goal = "command"]
            /\ UNCHANGED tray
       [] OTHER -> UNCHANGED <<threads, tray>>
  /\ UNCHANGED <<ctl, servers, file, marker>>

(* The restart marker is seen, and poll_unexpected_exit looks at the child. *)
LookAround(t) ==
  /\ At(t, "poll") /\ command.what = "none"
  /\ threads' = [threads EXCEPT ![t].saw = marker.by # 0,
                                ![t].pc = IF ctl.child # 0 /\ ~Running THEN "judge" ELSE "again"]
  /\ UNCHANGED <<tray, ctl, servers, file, marker, command>>

(* The child has exited: whether that was expected decides the message,    *)
(* the fields are cleared either way.                                      *)
JudgeExit(t) ==
  /\ At(t, "judge")
  /\ Cleared
  /\ Go(t, "again")
  /\ UNCHANGED <<tray, servers, marker, command>>

\* Regression form: only a server the controller still names is restarted.
RestartOnlyTracked(t) ==
  /\ At(t, "again")
  /\ IF threads[t].saw /\ ctl.child # 0 /\ ~Running /\ ~tray.stop
       THEN /\ marker' = NoMarker
            /\ threads' = [threads EXCEPT ![t].pc = "claim", ![t].saw = FALSE,
                                          ![t].goal = IF @ = "command" THEN "watch" ELSE @]
       ELSE Rest(t) /\ UNCHANGED marker
  /\ UNCHANGED <<tray, ctl, servers, file, command>>

(* A restart marker and no server: the marker is consumed, once. *)
RestartAgain(t) ==
  /\ At(t, "again")
  /\ IF threads[t].saw /\ ~Running /\ ~tray.stop
       THEN /\ marker' = NoMarker
            /\ threads' = [threads EXCEPT ![t].pc = "claim", ![t].saw = FALSE,
                                          ![t].goal = IF @ = "command" THEN "watch" ELSE @]
       ELSE Rest(t) /\ UNCHANGED marker
  /\ UNCHANGED <<tray, ctl, servers, file, command>>

-----------------------------------------------------------------------------
(* A click in the menu: its own thread.                                    *)
Click(t) ==
  /\ At(t, "idle") /\ tray.icon = "shown"
  /\ \E goal \in {"start", "stop", "restart", "quit"} :
       /\ threads' = [threads EXCEPT ![t].pc = IF goal = "start" THEN "claim" ELSE "stop",
                                     ![t].goal = goal]
       /\ tray' = [tray EXCEPT !.stop = @ \/ goal = "quit"]
  /\ UNCHANGED <<ctl, servers, file, marker, command>>

ThreadStep(t) ==
  \/ Claim(t) \/ Claimed(t) \/ StaleInstanceStays(t) \/ Spawn(t) \/ SpawnFails(t) \/ Adopt(t)
  \/ AwaitReady(t) \/ StartFails(t)
  \/ Stop(t) \/ GrabChild(t) \/ WaitExit(t) \/ StopClears(t)
  \/ TakeCommand(t) \/ LookAround(t) \/ JudgeExit(t) \/ RestartAgain(t)
  \/ t = "main" /\ (ShowIcon \/ ShutdownTray)
  \/ t = "poll" /\ Tick

DeskInit ==
  /\ tray = [session |-> 0, alive |-> FALSE, stop |-> FALSE, icon |-> "none"]
  /\ ctl = FreshCtl
  /\ threads = Nobody
  /\ servers = [s \in Servers |-> [state |-> "none", owner |-> 0]]
  /\ file = 0 /\ marker = NoMarker /\ command = NoCommand

DeskNext ==
  \/ Launch \/ SecondLaunch \/ TrayCrashes
  \/ \E t \in Actions : Click(t)
  \/ \E t \in DeskThreads : ThreadStep(t)
  \/ \E s \in Servers : \/ ServerReady(s) \/ ServerCrashes(s) \/ ServerCloses(s)
                        \/ BrowserRestart(s) \/ OwnerGone(s)

(* Threads run, the icon's loop ends once stopped, the polling thread      *)
(* wakes up, a closing server drains and the owner monitor wakes up.       *)
(* Nothing is assumed of clicks, launches, crashes or booting servers.     *)
DeskFairness ==
  /\ \A t \in DeskThreads : WF_deskVars(ThreadStep(t))
  /\ \A s \in Servers : WF_deskVars(ServerCloses(s) \/ OwnerGone(s))

DeskSpec == DeskInit /\ [][DeskNext]_deskVars /\ DeskFairness

-----------------------------------------------------------------------------
(* While the tray runs and is not leaving, every server of its own that    *)
(* has not been asked to stop is the one the controller can stop and       *)
(* watch, or is about to become it: "Own exactly one packaged server       *)
(* process" (desktop_controller.py).                                       *)
OwnServerIsTracked ==
  tray.alive /\ ~tray.stop =>
    \A s \in Servers :
      Owned(s) /\ servers[s].state \in {"booting", "ready"} =>
        \/ ctl.child = s
        \/ \E t \in DeskThreads : threads[t].held = s /\ threads[t].pc = "adopt"

(* A command or a restart marker is never carried out by a later tray      *)
(* session than the one it was left for.                                   *)
NoMessageFromThePast ==
  tray.alive => /\ command.what # "none" => command.session = tray.session
                /\ marker.by # 0 => marker.session = tray.session

(* An orphan does not outlive its tray: whatever became of the tray, a     *)
(* server without its owner ends.                                          *)
Orphaned == \E s \in Servers : Live(s) /\ ~Owned(s)
OrphansEnd == Orphaned ~> ~Orphaned

(* Whoever asks the tray to quit, the tray ends and gives up the instance  *)
(* lock: "the same full shutdown the tray menu performs" (tray_polling.py). *)
QuitEnds == (tray.alive /\ tray.stop) ~> ~tray.alive

(* A browser-initiated restart never leaves the tray without an answer:    *)
(* the marker is consumed, or the server that replaced the stopped one     *)
(* runs, or the tray ends or loses its polling thread.                     *)
RestartServed ==
  (marker.by # 0 /\ tray.icon = "shown")
    ~> (marker.by = 0 \/ Running \/ tray.icon # "shown" \/ threads["poll"].pc = "dead")

(* A marker does not outlive the server that asked for it into a later     *)
(* server's life, which it would end up restarting as well: "lets          *)
(* the authoritative tray restore service once" (DESKTOP_ARCHITECTURE.md). *)
MarkerIsForTheLatestServer ==
  marker.by # 0 => \A s \in Servers \ {marker.by} : ~(Live(s) /\ Owned(s))

(* An unexpected exit of the tracked server is noticed: "An unexpected     *)
(* child exit changes tray state to error" (DESKTOP_ARCHITECTURE.md).      *)
ExitIsNoticed ==
  (tray.icon = "shown" /\ ctl.child # 0 /\ ~Running)
    ~> (ctl.child = 0 \/ Running \/ tray.icon # "shown")

(* The same, as long as the polling thread has not died. *)
ExitIsNoticedWhilePolling ==
  (tray.icon = "shown" /\ ctl.child # 0 /\ ~Running)
    ~> (ctl.child = 0 \/ Running \/ tray.icon # "shown" \/ threads["poll"].pc = "dead")

\* What another process writes to a file for the tray is acted on: an installer's quit
\* ends it and a browser's restart gets its server.
CommandsServed == QuitEnds /\ RestartServed
=============================================================================
