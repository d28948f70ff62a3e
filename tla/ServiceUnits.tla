---------------------------- MODULE ServiceUnits ----------------------------
(***************************************************************************)
(* The units that run curate, backup, the inbox and the server under       *)
(* launchd or the systemd of the user (service_unit/).                     *)
(*                                                                         *)
(* Installing writes the unit's files and has the scheduler load them;     *)
(* uninstalling stops the unit and removes the files.  On macOS a unit is  *)
(* one plist, on Linux a .service and, unless it is always on, a .timer or *)
(* .path that triggers it.  The result of stopping a unit is not looked    *)
(* at.  What the schedulers do is taken from how the code uses them.       *)
(*                                                                         *)
(* A setting is an interval, a time of day, an inbox path, or a host and   *)
(* port; the texts of the files only carry it.                             *)
(***************************************************************************)
EXTENDS Naturals, FiniteSets

CONSTANTS
  Timers,     \* triggered units: curate, backup, inbox
  Services,   \* always-on units: serve
  Settings,
  Operators,  \* processes that run an install or uninstall command
  MaxRuns,    \* bound: commands
  Faults      \* "refuse" (the scheduler reports an error), "stop" (a command dies)

Units == Timers \cup Services
None == "none"

ASSUME ServiceUnitsAssumption ==
  /\ Timers \cap Services = {} /\ None \notin Settings \cup Units
  /\ MaxRuns \in Nat /\ Faults \subseteq {"refuse", "stop"}

VARIABLES
  os,       \* "darwin", "linux"
  main,     \* main[u]: the setting in the plist or .service, or None
  trigger,  \* trigger[u]: the one in the .timer or .path, or None
  enabled,  \* the units systemd has links for
  active,   \* active[u]: what a loaded unit runs and when, or Unloaded
  refused,  \* the units the scheduler did not stop when asked to
  runs,
  pc, job

files == <<main, trigger>>
scheduler == <<enabled, active, refused>>
vars == <<os, files, scheduler, runs, pc, job>>

Unloaded == [main |-> None, trigger |-> None]
NoJob == [unit |-> None, setting |-> None]

Init ==
  /\ os \in {"darwin", "linux"}
  /\ main = [u \in Units |-> None] /\ trigger = [u \in Units |-> None]
  /\ enabled = {} /\ active = [u \in Units |-> Unloaded] /\ refused = {}
  /\ runs = 0
  /\ pc = [p \in Operators |-> "idle"] /\ job = [p \in Operators |-> NoJob]

(* Two files. *)
Has2(u) == os = "linux" /\ u \in Timers
(* The file whose presence says that the unit is installed. *)
Present(u) == IF Has2(u) THEN trigger[u] # None ELSE main[u] # None
Loaded(u) ==
  Present(u) /\ IF os = "darwin" THEN active[u] # Unloaded ELSE u \in enabled

Goto(p, step) == pc' = [pc EXCEPT ![p] = step]
Return(p) == Goto(p, "idle") /\ job' = [job EXCEPT ![p] = NoJob]

-----------------------------------------------------------------------------
(* The schedulers.                                                         *)

Written(u) == [main |-> main[u], trigger |-> IF Has2(u) THEN trigger[u] ELSE main[u]]
(* daemon-reload reads all files anew.  A trigger that is active follows its
   files; a process that runs goes on with the arguments it has. *)
Reloaded(u) ==
  IF u \in Timers /\ active[u] # Unloaded /\ Present(u) /\ main[u] # None
  THEN Written(u) ELSE active[u]
Refuses == "refuse" \in Faults

Reload ==
  \/ active' = [u \in Units |-> Reloaded(u)]
  \/ Refuses /\ UNCHANGED active

(* bootout, and disable --now, which also removes the links, need the file. *)
Stopped(u) ==
  \/ /\ Present(u)
     /\ active' = [active EXCEPT ![u] = Unloaded]
     /\ enabled' = enabled \ {u} /\ refused' = refused \ {u}
  \/ /\ Refuses \/ ~Present(u)
     /\ refused' = IF Present(u) /\ active[u] # Unloaded
                   THEN refused \cup {u} ELSE refused
     /\ UNCHANGED <<active, enabled>>

-----------------------------------------------------------------------------
(* install                                                                 *)

Begin(p, u, x, step) ==
  /\ pc[p] = "idle" /\ runs < MaxRuns
  /\ \A q \in Operators : job[q].unit # u
  /\ runs' = runs + 1
  /\ job' = [job EXCEPT ![p] = [unit |-> u, setting |-> x]]
  /\ Goto(p, step)
  /\ UNCHANGED <<os, files, scheduler>>

Install(p, u, x) == Begin(p, u, x, "main")

WriteMain(p) ==
  /\ pc[p] = "main"
  /\ main' = [main EXCEPT ![job[p].unit] = job[p].setting]
  /\ Goto(p, IF Has2(job[p].unit) THEN "trigger"
             ELSE IF os = "linux" THEN "reload" ELSE "bootout")
  /\ UNCHANGED <<os, trigger, scheduler, runs, job>>

(* Mutant of Trigger: a file that exists is kept. *)
TriggerKept(u, x) == IF trigger[u] = None THEN x ELSE trigger[u]
Trigger(u, x) == x

WriteTrigger(p) ==
  /\ pc[p] = "trigger"
  /\ trigger' = [trigger EXCEPT ![job[p].unit] = Trigger(job[p].unit, job[p].setting)]
  /\ Goto(p, "reload")
  /\ UNCHANGED <<os, main, scheduler, runs, job>>

ReloadFirst(p) ==
  /\ pc[p] = "reload"
  /\ Reload
  /\ Goto(p, "enable")
  /\ UNCHANGED <<os, files, enabled, refused, runs, job>>

(* enable --now reloads, links, and starts what is not active. *)
Enable(p) ==
  LET u == job[p].unit
      now == IF active[u] = Unloaded THEN Written(u) ELSE Reloaded(u)
  IN /\ pc[p] = "enable"
     /\ active' = [v \in Units |-> IF v = u THEN now ELSE Reloaded(v)]
     /\ enabled' = enabled \cup {u}
     /\ refused' = refused \ {u}
     /\ Return(p)
     /\ UNCHANGED <<os, files, runs>>

EnableRefused(p) ==
  /\ pc[p] = "enable" /\ Refuses
  /\ enabled' \in {enabled, enabled \cup {job[p].unit}}
  /\ Return(p)
  /\ UNCHANGED <<os, files, active, refused, runs>>

BootoutFirst(p) ==
  /\ pc[p] = "bootout"
  /\ Stopped(job[p].unit)
  /\ Goto(p, "bootstrap")
  /\ UNCHANGED <<os, files, runs, job>>

Bootstrap(p) ==
  LET u == job[p].unit
  IN /\ pc[p] = "bootstrap" /\ active[u] = Unloaded
     /\ active' = [active EXCEPT ![u] = Written(u)]
     /\ Return(p)
     /\ UNCHANGED <<os, files, enabled, refused, runs>>

(* A unit that is still loaded is an error. *)
BootstrapRefused(p) ==
  /\ pc[p] = "bootstrap" /\ (Refuses \/ active[job[p].unit] # Unloaded)
  /\ Return(p)
  /\ UNCHANGED <<os, files, scheduler, runs>>

-----------------------------------------------------------------------------
(* uninstall                                                               *)

(* Mutant of UninstallStep: the files first. *)
UninstallStepSwapped(step) ==
  CASE step = "begin" -> "remove" [] step = "remove" -> "stop"
    [] OTHER -> IF os = "linux" THEN "reload after" ELSE "end"
(* What comes next. *)
UninstallStep(step) ==
  CASE step = "begin" -> "stop" [] step = "stop" -> "remove"
    [] OTHER -> IF os = "linux" THEN "reload after" ELSE "end"

Advance(p) ==
  LET next == UninstallStep(pc[p])
  IN IF next = "end" THEN Return(p) ELSE Goto(p, next) /\ UNCHANGED job

Uninstall(p, u) == Begin(p, u, None, UninstallStep("begin"))

Stop(p) ==
  /\ pc[p] = "stop"
  /\ Stopped(job[p].unit)
  /\ Advance(p)
  /\ UNCHANGED <<os, files, runs>>

(* The file of the trigger goes first; a file that is not there is passed over. *)
RemoveTrigger(p) ==
  /\ pc[p] = "remove" /\ trigger[job[p].unit] # None
  /\ trigger' = [trigger EXCEPT ![job[p].unit] = None]
  /\ UNCHANGED <<os, main, scheduler, runs, pc, job>>

RemoveMain(p) ==
  /\ pc[p] = "remove" /\ trigger[job[p].unit] = None
  /\ main' = [main EXCEPT ![job[p].unit] = None]
  /\ Advance(p)
  /\ UNCHANGED <<os, trigger, scheduler, runs>>

ReloadAfter(p) ==
  /\ pc[p] = "reload after"
  /\ Reload
  /\ Return(p)
  /\ UNCHANGED <<os, files, enabled, refused, runs>>

Die(p) ==
  /\ "stop" \in Faults /\ pc[p] # "idle"
  /\ Return(p)
  /\ UNCHANGED <<os, files, scheduler, runs>>

Next ==
  \E p \in Operators :
    \/ \E u \in Units : Uninstall(p, u) \/ \E x \in Settings : Install(p, u, x)
    \/ WriteMain(p)
    \/ WriteTrigger(p)
    \/ ReloadFirst(p)
    \/ Enable(p)
    \/ EnableRefused(p)
    \/ BootoutFirst(p)
    \/ Bootstrap(p)
    \/ BootstrapRefused(p)
    \/ Stop(p)
    \/ RemoveTrigger(p)
    \/ RemoveMain(p)
    \/ ReloadAfter(p)
    \/ Die(p)

Spec == Init /\ [][Next]_vars

-----------------------------------------------------------------------------
(* Properties.                                                             *)

Text == Settings \cup {None}

(* A trigger is a second file, on Linux, of a triggered unit; what is loaded has the setting of some
   install. *)
TypeOK ==
  /\ os \in {"darwin", "linux"} /\ runs \in 0..MaxRuns
  /\ main \in [Units -> Text] /\ trigger \in [Units -> Text]
  /\ \A u \in Units : trigger[u] # None => os = "linux" /\ u \in Timers
  /\ enabled \subseteq Units /\ refused \subseteq Units
  /\ active \in [Units -> [main : Text, trigger : Text]]
  /\ \A u \in Units : active[u] = Unloaded \/ None \notin {active[u].main, active[u].trigger}

(* An install that reports success leaves the unit loaded, triggered and run as
   asked: whatever was there before, and whatever other commands have the
   scheduler reload meanwhile.  A server that ran before goes on as it was on
   Linux. *)
InstallTakes ==
  [][\A p \in Operators, u \in Units :
       u = job[p].unit /\ (Enable(p) \/ Bootstrap(p)) =>
       LET asked == job[p].setting
       IN /\ Loaded(u)'
          /\ \/ active'[u] = [main |-> asked, trigger |-> asked]
             \/ os = "linux" /\ u \in Services /\ active'[u] = active[u]]_vars

(* A unit without files does not run, unless the scheduler refused to stop
   it: a unit that is stopped first can be stopped at all. *)
NoOrphans ==
  \A u \in Units :
    main[u] = None /\ trigger[u] = None /\ active[u] # Unloaded => u \in refused

=============================================================================
